---------------------------- MODULE IngestProofs ----------------------------
(***************************************************************************)
(* Proofs about Ingest, for any sources, any regions and any documents.    *)
(*                                                                         *)
(* The argument: while an unambiguous document is read, the prices kept    *)
(* are all those that the items read so far fill in (Gathered), because a  *)
(* new price never meets one of its cell (NoMeeting), and an id is never   *)
(* met twice.  Where ids may come again, every cell filled in is kept      *)
(* whatever the document (Covered).  The rows are a function of the prices *)
(* kept.                                                                   *)
(*                                                                         *)
(* What the rows say follows from that.  A price shown is the rate of an   *)
(* item, since the prices of a cell come from one item unless the source   *)
(* adds them up (MetAddUp), and a ladder numbers them by their rates       *)
(* (LexRanks).  Two rows never share an id: what minted the id, or the     *)
(* item, region or name in it, tells them apart (MintedTold, SameItem,     *)
(* SameRegion, NamesGiven).  Tiers tile because the items of a chain do    *)
(* (ChainTiles) and a price keeps the rank of its item (ShownTiles).       *)
(***************************************************************************)
EXTENDS Ingest, FiniteSetTheorems, TLAPS

Listed(how, items) == UNION {Fills(how, i) : i \in items}

Gathered ==
  Unambiguous(How, feed.doc) /\ phase # "raised" => acc = Listed(How, feed.doc \ todo)

(* Ids are kept of items read, and only by sources that use them once. *)
SeenRead ==
  \A x \in seen : How.once # "no" /\ \E i \in feed.doc \ todo : i.id = x

(* Where ids may be used again, each cell an item fills in is kept. *)
Covered ==
  How.once = "no" /\ phase # "raised" =>
    \A i \in feed.doc \ todo : Cells(Fills(How, i)) \subseteq Cells(acc)

(* Rows are those of the prices kept, once everything has been read. *)
RowsMade ==
  IF phase \in {"reading", "raised"} THEN rows = {}
  ELSE rows = RowsOf(How, acc) /\ todo = {} /\ ~Malformed(How, acc)

(* A shard is refused for its rows only. *)
Clashed == phase = "conflict" => KeyClash(rows)

IInv == /\ feed \in Feeds /\ TypeOK
        /\ Gathered /\ SeenRead /\ Covered /\ RowsMade /\ Clashed
-----------------------------------------------------------------------------
(* The numbers of items tell them apart; so do the rows that are theirs. *)
LEMMA OwnRow ==
  ASSUME NEW how, NEW i, NEW p \in Fills(how, i), p.row.name \in how.own
  PROVE  p.row.by = i.n
BY DEF Fills, FillOf

(* What is kept of two sets of prices is in one of them. *)
LEMMA AbsorbKeeps ==
  ASSUME NEW how, NEW old, NEW new
  PROVE  Absorb(how, old, new) \subseteq old \union new
BY DEF Absorb

(* A cell that was filled stays filled, and so does one that is new. *)
LEMMA AbsorbCovers ==
  ASSUME NEW how, NEW old, NEW new
  PROVE  Cells(old) \union Cells(new) \subseteq Cells(Absorb(how, old, new))
<1> DEFINE more == {p \in new : p.row.name \in how.append}
           kept == IF how.keep = "last"
                   THEN {p \in old : Cell(p) \notin Cells(new \ more)} \union (new \ more)
                   ELSE old \union {p \in new \ more : Cell(p) \notin Cells(old)}
<1>1. Absorb(how, old, new) = kept \union more
  BY DEF Absorb
<1>2. more \subseteq new
  OBVIOUS
<1>3. \A p \in old : Cell(p) \in Cells(kept)
  <2> HIDE DEF more
  <2> QED
    BY DEF Cells
<1>4. \A p \in new \ more : Cell(p) \in Cells(kept)
  <2> HIDE DEF more
  <2> QED
    BY DEF Cells
<1> HIDE DEF kept, more
<1>5. \A c : c \in Cells(kept) \/ c \in Cells(more) <=> c \in Cells(kept \union more)
  BY DEF Cells
<1> QED
  BY <1>1, <1>3, <1>4, <1>5 DEF Cells

(* Prices none of which meet another in a cell are all kept. *)
LEMMA AbsorbAll ==
  ASSUME NEW how, NEW old, NEW new,
         \A p \in old, q \in new : Cell(p) = Cell(q) => q.row.name \in how.append
  PROVE  Absorb(how, old, new) = old \union new
<1> DEFINE more == {p \in new : p.row.name \in how.append}
<1>1. \A p \in old : Cell(p) \notin Cells(new \ more)
  BY DEF Cells
<1>2. \A q \in new \ more : Cell(q) \notin Cells(old)
  BY DEF Cells
<1>3. more \subseteq new
  OBVIOUS
<1>4. CASE how.keep = "last"
  BY <1>1, <1>3, <1>4 DEF Absorb
<1>5. CASE how.keep # "last"
  BY <1>2, <1>3, <1>5 DEF Absorb
<1> QED
  BY <1>4, <1>5

(* Items that do not contend fill no cell both. *)
LEMMA NoMeeting ==
  ASSUME NEW how, NEW i, NEW j, i.n # j.n, ~Contend(how, j, i),
         NEW p \in Fills(how, j), NEW q \in Fills(how, i), Cell(p) = Cell(q)
  PROVE  q.row.name \in how.append
<1>1. p.row = q.row /\ p.dim = q.dim
  BY DEF Cell
<1>2. p.row.name \notin how.own
  BY <1>1, OwnRow
<1>3. AddUp(how, p, q)
  BY <1>1, <1>2 DEF Contend
<1> QED
  BY <1>1, <1>3 DEF AddUp

(* An item of an unambiguous document does not have an id used before. *)
LEMMA IdUnused ==
  ASSUME IInv, Unambiguous(How, feed.doc), NEW i \in todo
  PROVE  i.id \notin seen
<1> SUFFICES ASSUME i.id \in seen PROVE FALSE
  OBVIOUS
<1>1. PICK j \in feed.doc \ todo : j.id = i.id
  BY DEF IInv, SeenRead
<1>2. How.once # "no" /\ feed.src \in DOMAIN Policy
  BY DEF IInv, SeenRead, TypeOK
<1>3. ~How.unique /\ How.suffix # "always"
  BY <1>2, OnceUnique DEF How
<1>4. Contend(How, j, i)
  BY <1>1, <1>3 DEF Contend
<1>5. i \in feed.doc /\ j \in feed.doc /\ i # j
  BY <1>1 DEF IInv, TypeOK
<1> QED
  BY <1>4, <1>5 DEF Unambiguous

(* One more item of an unambiguous document adds its prices, all of them. *)
LEMMA Gathers ==
  ASSUME IInv, Unambiguous(How, feed.doc), NEW i \in todo, phase = "reading"
  PROVE  Absorb(How, acc, Fills(How, i)) = Listed(How, feed.doc \ (todo \ {i}))
<1>1. acc = Listed(How, feed.doc \ todo)
  BY DEF IInv, Gathered
<1>2. feed \in Feeds /\ i \in feed.doc
  BY DEF IInv, TypeOK
<1>3. ASSUME NEW p \in acc, NEW q \in Fills(How, i), Cell(p) = Cell(q)
      PROVE  q.row.name \in How.append
  <2>1. PICK j \in feed.doc \ todo : p \in Fills(How, j)
    BY <1>1 DEF Listed
  <2>2. j \in feed.doc /\ j # i
    BY <2>1
  <2>3. i.n # j.n
    BY <1>2, <2>2, FeedsListed
  <2>4. ~Contend(How, j, i)
    BY <1>2, <2>2 DEF Unambiguous
  <2> QED
    BY <1>3, <2>1, <2>3, <2>4, NoMeeting
<1>4. Absorb(How, acc, Fills(How, i)) = acc \union Fills(How, i)
  BY <1>3, AbsorbAll
<1>5. feed.doc \ (todo \ {i}) = (feed.doc \ todo) \union {i}
  BY <1>2
<1>6. Listed(How, (feed.doc \ todo) \union {i}) = Listed(How, feed.doc \ todo) \union Fills(How, i)
  BY DEF Listed
<1> QED
  BY <1>1, <1>4, <1>5, <1>6
-----------------------------------------------------------------------------
LEMMA Initially == Init => IInv
<1> SUFFICES ASSUME Init PROVE IInv
  OBVIOUS
<1>1. feed.src \in DOMAIN Policy /\ \A i \in feed.doc : Item(i)
  BY FeedsListed DEF Init
<1>2. TypeOK
  BY <1>1 DEF Init, TypeOK, Phases
<1>3. Gathered
  BY DEF Init, Gathered, Listed
<1> QED
  BY <1>2, <1>3 DEF Init, IInv, SeenRead, Covered, RowsMade, Clashed

LEMMA Reading ==
  ASSUME IInv, NEW i \in todo, ReadItem(i)
  PROVE  IInv'
<1>1. i \in feed.doc /\ todo \subseteq feed.doc /\ phase = "reading" /\ rows = {}
  BY DEF IInv, TypeOK, ReadItem, RowsMade
<1>2. todo' = todo \ {i} /\ feed' = feed /\ rows' = {} /\ How' = How
  BY <1>1 DEF ReadItem, How
<1>3. phase' \in {"reading", "raised"}
  BY <1>1 DEF ReadItem
<1>4. acc' \subseteq UNION {Fills(How, j) : j \in feed.doc \ todo'}
  <2>1. acc \subseteq UNION {Fills(How, j) : j \in feed.doc \ todo}
    BY DEF IInv, TypeOK
  <2>2. acc' \subseteq acc \union Fills(How, i)
    BY AbsorbKeeps DEF ReadItem
  <2> QED
    BY <1>1, <1>2, <2>1, <2>2
<1>5. \A x \in seen' : How.once # "no" /\ \E j \in feed.doc \ todo' : j.id = x
  <2> SUFFICES ASSUME NEW x \in seen'
               PROVE  How.once # "no" /\ \E j \in feed.doc \ todo' : j.id = x
    OBVIOUS
  <2>1. CASE x \in seen
    <3>1. How.once # "no" /\ \E j \in feed.doc \ todo : j.id = x
      BY <2>1 DEF IInv, SeenRead
    <3> QED
      BY <3>1, <1>2
  <2>2. CASE x \notin seen
    <3>1. x = i.id /\ Uses(How, i)
      BY <2>2 DEF ReadItem
    <3>2. How.once # "no"
      BY <3>1 DEF Uses
    <3> QED
      BY <3>1, <3>2, <1>1, <1>2
  <2> QED
    BY <2>1, <2>2
<1>6. TypeOK'
  <2>1. feed'.src \in DOMAIN Policy /\ \A j \in feed'.doc : Item(j)
    BY <1>2 DEF IInv, TypeOK
  <2>2. todo' \subseteq feed'.doc
    BY <1>1, <1>2
  <2>3. seen' \subseteq {j.id : j \in feed'.doc}
    BY <1>2, <1>5
  <2>4. phase' \in Phases
    BY <1>3 DEF Phases
  <2> QED
    BY <1>2, <1>4, <2>1, <2>2, <2>3, <2>4 DEF TypeOK
<1>7. Gathered'
  <2> SUFFICES ASSUME Unambiguous(How, feed.doc), phase' # "raised"
               PROVE  acc' = Listed(How, feed.doc \ todo')
    BY <1>2 DEF Gathered
  <2>1. i.id \notin seen
    BY IdUnused
  <2>2. acc' = Absorb(How, acc, Fills(How, i))
    BY <2>1 DEF ReadItem
  <2> QED
    BY <1>1, <1>2, <2>2, Gathers
<1>8. SeenRead'
  BY <1>2, <1>5 DEF SeenRead
<1>9. RowsMade' /\ Clashed'
  BY <1>2, <1>3 DEF RowsMade, Clashed
<1>10. Covered'
  <2> SUFFICES ASSUME How.once = "no", phase' # "raised", NEW j \in feed.doc \ todo'
               PROVE  Cells(Fills(How, j)) \subseteq Cells(acc')
    BY <1>2 DEF Covered
  <2>1. i.id \notin seen
    BY DEF IInv, SeenRead
  <2>2. acc' = Absorb(How, acc, Fills(How, i))
    BY <2>1 DEF ReadItem
  <2>3. Cells(acc) \union Cells(Fills(How, i)) \subseteq Cells(acc')
    BY <2>2, AbsorbCovers
  <2>4. CASE j = i
    BY <2>3, <2>4
  <2>5. CASE j # i
    <3>1. j \in feed.doc \ todo
      BY <1>2, <2>5
    <3>2. Cells(Fills(How, j)) \subseteq Cells(acc)
      BY <1>1, <3>1 DEF IInv, Covered
    <3> QED
      BY <2>3, <3>2
  <2> QED
    BY <2>4, <2>5
<1> QED
  BY <1>2, <1>6, <1>7, <1>8, <1>9, <1>10 DEF IInv

LEMMA Writing ==
  ASSUME IInv, WriteRows
  PROVE  IInv'
<1>1. /\ feed' = feed /\ todo' = todo /\ seen' = seen /\ acc' = acc
      /\ How' = How /\ todo = {} /\ phase = "reading" /\ rows = {}
  BY DEF IInv, WriteRows, How, RowsMade
<1>2. phase' \in {"raised", "empty", "written"}
  BY DEF WriteRows
<1>3. RowsMade'
  <2>1. CASE Malformed(How, acc)
    BY <1>1, <2>1 DEF WriteRows, RowsMade
  <2>2. CASE ~Malformed(How, acc)
    BY <1>1, <1>2, <2>2 DEF WriteRows, RowsMade
  <2> QED
    BY <2>1, <2>2
<1>4. rows' # {} => phase' = "written"
  BY <1>1 DEF WriteRows
<1>5. TypeOK'
  BY <1>1, <1>2, <1>4 DEF IInv, TypeOK, Phases
<1>6. Gathered' /\ SeenRead' /\ Covered' /\ Clashed'
  BY <1>1, <1>2 DEF IInv, Gathered, SeenRead, Covered, Clashed
<1> QED
  BY <1>1, <1>3, <1>5, <1>6 DEF IInv

LEMMA Checking ==
  ASSUME IInv, BuildShard \/ SanityCheck
  PROVE  IInv'
<1>1. /\ feed' = feed /\ todo' = todo /\ seen' = seen /\ acc' = acc /\ rows' = rows
      /\ How' = How
  BY DEF BuildShard, SanityCheck, How
<1>2. /\ phase \in {"written", "built"} /\ phase' \in {"conflict", "built", "insane", "sane"}
      /\ phase' = "conflict" => KeyClash(rows)
  BY DEF BuildShard, SanityCheck
<1>3. TypeOK'
  BY <1>1, <1>2 DEF IInv, TypeOK, Phases
<1>4. Gathered' /\ SeenRead' /\ Covered' /\ RowsMade'
  BY <1>1, <1>2 DEF IInv, Gathered, SeenRead, Covered, RowsMade
<1>5. Clashed'
  BY <1>1, <1>2 DEF Clashed
<1> QED
  BY <1>1, <1>3, <1>4, <1>5 DEF IInv

LEMMA Stays == IInv /\ [Next]_vars => IInv'
<1> SUFFICES ASSUME IInv, [Next]_vars PROVE IInv'
  OBVIOUS
<1>1. CASE \E i \in todo : ReadItem(i)
  BY <1>1, Reading
<1>2. CASE WriteRows
  BY <1>2, Writing
<1>3. CASE BuildShard \/ SanityCheck
  BY <1>3, Checking
<1>4. CASE UNCHANGED vars
  BY <1>4 DEF vars, IInv, TypeOK, Gathered, SeenRead, Covered, RowsMade, Clashed, How
<1> QED
  BY <1>1, <1>2, <1>3, <1>4 DEF Next

LEMMA Invariance == Spec => []IInv
BY Initially, Stays, PTL DEF Spec
-----------------------------------------------------------------------------
(* The fields of a price and of its row. *)
IsPrice(p) ==
  /\ p = [row |-> p.row, dim |-> p.dim, from |-> p.from, to |-> p.to, usd |-> p.usd,
          n |-> p.n, id |-> p.id, shared |-> p.shared]
  /\ p.row = [name |-> p.row.name, region |-> p.row.region, by |-> p.row.by]

(* A price an item fills in is one of a dimension it is sold in, at a tier *)
(* it has there, in a place it is priced in.                               *)
Made(how, i, p, s, r, t) == p = FillOf(how, i, s, r, t)

LEMMA FillsAre ==
  ASSUME NEW how, NEW i, NEW p
  PROVE  p \in Fills(how, i) <=>
           /\ ~(~Taken(how, i) \/ (how.odd = "skip" /\ i.unit = "odd"))
           /\ \E s \in how.sells[i.kind] : \E r \in Places(how, i) : \E t \in Tiers(how, i, s[2]) :
                (s[2] \in how.paid => t.usd > 0) /\ Made(how, i, p, s, r, t)
<1> DEFINE tiers(s) == {u \in Tiers(how, i, s[2]) : s[2] \in how.paid => u.usd > 0}
           of(s, r) == {FillOf(how, i, s, r, t) : t \in tiers(s)}
           some == UNION {of(s, r) : s \in how.sells[i.kind], r \in Places(how, i)}
<1>1. p \in some <=> \E s \in how.sells[i.kind] : \E r \in Places(how, i) : p \in of(s, r)
  <2> HIDE DEF of
  <2> QED
    OBVIOUS
<1>2. \A s, r : p \in of(s, r) <=> \E t \in tiers(s) : p = FillOf(how, i, s, r, t)
  OBVIOUS
<1>3. \A s, t : t \in tiers(s) <=> t \in Tiers(how, i, s[2]) /\ (s[2] \in how.paid => t.usd > 0)
  OBVIOUS
<1>4. Fills(how, i) = IF ~Taken(how, i) \/ (how.odd = "skip" /\ i.unit = "odd") THEN {} ELSE some
  BY DEF Fills
<1> HIDE DEF of, tiers, some
<1> QED
  BY <1>1, <1>2, <1>3, <1>4 DEF Made

LEMMA FillsMade ==
  ASSUME NEW how, NEW i, NEW p \in Fills(how, i)
  PROVE  /\ Taken(how, i)
         /\ \E s \in how.sells[i.kind] : \E r \in Places(how, i) : \E t \in Tiers(how, i, s[2]) :
              Made(how, i, p, s, r, t)
         /\ IsPrice(p)
<1>1. Taken(how, i)
  BY DEF Fills
<1>2. \E s \in how.sells[i.kind] : \E r \in Places(how, i) : \E t \in Tiers(how, i, s[2]) :
        Made(how, i, p, s, r, t)
  BY FillsAre DEF Made
<1>3. IsPrice(p)
  BY <1>2 DEF Made, FillOf, IsPrice
<1> QED
  BY <1>1, <1>2, <1>3

(* What it is published under: a row and a dimension the source has. *)
LEMMA FillsPriced ==
  ASSUME NEW how, NEW i, NEW p \in Fills(how, i)
  PROVE  p.dim \in DimsOf(how, p.row.name)
<1>1. Taken(how, i)
  BY FillsMade
<1>2. PICK s \in how.sells[i.kind] : \E r \in Places(how, i) : \E t \in Tiers(how, i, s[2]) :
        Made(how, i, p, s, r, t)
  BY FillsMade
<1>3. p.row.name = s[1] /\ p.dim = s[2]
  BY <1>2 DEF Made, FillOf
<1>4. s \in Priced(how)
  BY <1>1 DEF Taken, Priced, Range
<1> QED
  BY <1>3, <1>4 DEF DimsOf

(* Tiers made of several prices leave them what they are but for their     *)
(* bounds, and a price may become a free one.                              *)
Like(p, q) == /\ p.row = q.row /\ p.dim = q.dim /\ p.n = q.n /\ p.id = q.id
              /\ p.shared = q.shared
              /\ p.usd = q.usd \/ p.usd = 0

LEMMA RungsKeep ==
  ASSUME NEW way, NEW ps, \A p \in ps : IsPrice(p), NEW p \in Rungs(way, ps)
  PROVE  \E q \in ps : Like(p, q)
<1> DEFINE dearer(x)  == {q \in ps : q.usd > x.usd \/ (q.usd = x.usd /\ q.n < x.n)}
           earlier(x) == {q \in ps : q.from < x.from \/ (q.from = x.from /\ q.n < x.n)}
           paid == {x \in ps : way = "falling" \/ dearer(x) = {}}
           all == Min({Cardinality(ps), Tokens})
<1>1. \A q \in ps : \A x, y :
         /\ Like([q EXCEPT !.from = x, !.to = y], q)
         /\ Like([q EXCEPT !.from = x, !.to = y, !.usd = 0], q)
  BY DEF Like, IsPrice
<1>2. CASE way = "steps"
  <2>1. Rungs(way, ps) = {[q EXCEPT !.from = Cardinality(earlier(q)),
                                    !.to = IF Cardinality(earlier(q)) + 1 = all THEN Unbounded
                                           ELSE Cardinality(earlier(q)) + 1]
                            : q \in {x \in ps : Cardinality(earlier(x)) < Tokens}}
    BY <1>2 DEF Rungs
  <2>2. PICK q \in ps :
          p = [q EXCEPT !.from = Cardinality(earlier(q)),
                        !.to = IF Cardinality(earlier(q)) + 1 = all THEN Unbounded
                               ELSE Cardinality(earlier(q)) + 1]
    BY <2>1
  <2> QED
    BY <1>1, <2>2, Zenon
<1>3. CASE way = "lowest"
  <2>1. Rungs(way, ps) = {[q EXCEPT !.from = 0, !.to = Unbounded]
                            : q \in {x \in ps : earlier(x) = {}}}
    BY <1>3 DEF Rungs
  <2>2. PICK q \in ps : p = [q EXCEPT !.from = 0, !.to = Unbounded]
    BY <2>1
  <2> QED
    BY <1>1, <2>2, Zenon
<1>4. CASE way = "falling" /\ Cardinality(ps) # 3
  BY <1>4 DEF Rungs
<1>5. CASE way \notin {"steps", "lowest"} /\ ~(way = "falling" /\ Cardinality(ps) # 3)
  <2>1. Rungs(way, ps) =
          {[q EXCEPT !.from = 0, !.to = 1, !.usd = 0] : q \in {x \in ps : dearer(x) = {}}}
          \union {[q EXCEPT !.from = 1 + Cardinality(dearer(q)),
                           !.to = IF Cardinality(dearer(q)) + 1 = Cardinality(paid)
                                  THEN Unbounded ELSE 2 + Cardinality(dearer(q))]
                     : q \in paid}
    BY <1>5 DEF Rungs
  <2>2. \/ \E q \in ps : p = [q EXCEPT !.from = 0, !.to = 1, !.usd = 0]
        \/ \E q \in ps :
             p = [q EXCEPT !.from = 1 + Cardinality(dearer(q)),
                           !.to = IF Cardinality(dearer(q)) + 1 = Cardinality(paid)
                                  THEN Unbounded ELSE 2 + Cardinality(dearer(q))]
    BY <2>1
  <2>3. CASE \E q \in ps : p = [q EXCEPT !.from = 0, !.to = 1, !.usd = 0]
    <3>1. PICK q \in ps : p = [q EXCEPT !.from = 0, !.to = 1, !.usd = 0]
      BY <2>3
    <3> QED
      BY <1>1, <3>1 DEF Like, IsPrice
  <2>4. CASE ~\E q \in ps : p = [q EXCEPT !.from = 0, !.to = 1, !.usd = 0]
    <3>1. PICK q \in ps :
             p = [q EXCEPT !.from = 1 + Cardinality(dearer(q)),
                           !.to = IF Cardinality(dearer(q)) + 1 = Cardinality(paid)
                                  THEN Unbounded ELSE 2 + Cardinality(dearer(q))]
      BY <2>2, <2>4
    <3> QED
      BY <1>1, <3>1, Zenon
  <2> QED
    BY <2>3, <2>4
<1> QED
  BY <1>2, <1>3, <1>4, <1>5

LEMMA LadderedKeeps ==
  ASSUME NEW how, NEW ps, \A p \in ps : IsPrice(p), NEW p \in Laddered(how, ps)
  PROVE  \/ p \in ps /\ p.dim \notin DOMAIN how.ladder
         \/ \E q \in ps : q.dim \in DOMAIN how.ladder /\ Like(p, q)
<1>1. CASE p \in ps /\ p.dim \notin DOMAIN how.ladder
  BY <1>1
<1>2. CASE \E d \in DOMAIN how.ladder : p \in Rungs(how.ladder[d], {q \in ps : q.dim = d})
  <2>1. PICK d \in DOMAIN how.ladder : p \in Rungs(how.ladder[d], {q \in ps : q.dim = d})
    BY <1>2
  <2> DEFINE qs == {q \in ps : q.dim = d}
  <2>2. \A q \in qs : IsPrice(q)
    OBVIOUS
  <2>3. \E q \in qs : Like(p, q)
    <3> HIDE DEF qs
    <3> QED
      BY <2>1, <2>2, RungsKeep DEF qs
  <2> QED
    BY <2>3
<1> QED
  BY <1>1, <1>2 DEF Laddered

(* Without ladders, and where each price is wanted, they stay as they are. *)
LEMMA NoLadder ==
  ASSUME NEW how, how.ladder = <<>>, NEW ps
  PROVE  Laddered(how, ps) = ps
<1>1. DOMAIN how.ladder = {}
  OBVIOUS
<1> QED
  BY <1>1 DEF Laddered
-----------------------------------------------------------------------------
(* The parts of a row: its own, the global ones, and the defaults. *)
KeptOf(how, kept, row) ==
  {p \in {x \in kept : x.row = row} :
     p.dim \in how.spare => \A q \in {x \in kept : x.row = row} : q.dim \in how.spare}

OwnParts(how, kept, row) == Laddered(how, KeptOf(how, kept, row))

WideParts(how, kept, row) ==
  {p \in kept : /\ p.row = [row EXCEPT !.region = "global"]
                /\ p.dim \in how.spread
                /\ \A q \in OwnParts(how, kept, row) : q.dim # p.dim}

Lacking(how, kept, row) ==
  {s \in DOMAIN how.default :
     /\ s[1] = row.name
     /\ \A p \in OwnParts(how, kept, row) \union WideParts(how, kept, row) : p.dim # s[2]}

ByDefault(how, row, s) ==
  [row |-> row, dim |-> s[2], from |-> 0, to |-> Unbounded, usd |-> how.default[s],
   n |-> Nobody, id |-> Nobody, shared |-> FALSE]

LEMMA PartsAre ==
  ASSUME NEW how, NEW kept, NEW row
  PROVE  Parts(how, kept, row) =
           OwnParts(how, kept, row) \union WideParts(how, kept, row)
           \union {ByDefault(how, row, s) : s \in Lacking(how, kept, row)}
<1> DEFINE own  == OwnParts(how, kept, row)
           wide == WideParts(how, kept, row)
           lack == {s \in DOMAIN how.default :
                      s[1] = row.name /\ s[2] \notin {p.dim : p \in own \union wide}}
<1>1. lack = Lacking(how, kept, row)
  BY DEF Lacking
<1>2. Parts(how, kept, row) = own \union wide \union {ByDefault(how, row, s) : s \in lack}
  BY DEF Parts, OwnParts, WideParts, KeptOf, ByDefault
<1> QED
  BY <1>1, <1>2

(* What is kept are prices of items. *)
IsKept(how, kept) == \A p \in kept : IsPrice(p) /\ p.dim \in DimsOf(how, p.row.name)

IsRow(row) == row = [name |-> row.name, region |-> row.region, by |-> row.by]

LEMMA OpenedRows ==
  ASSUME NEW how, NEW kept, IsKept(how, kept), NEW row \in Opened(how, kept)
  PROVE  IsRow(row)
<1>1. CASE \E p \in kept : row = p.row
  BY <1>1 DEF IsKept, IsPrice, IsRow
<1>2. CASE \E s \in DOMAIN how.default, r \in Tracked :
             row = [name |-> s[1], region |-> r, by |-> Nobody]
  BY <1>2 DEF IsRow
<1>3. \/ \E p \in kept : row = p.row
      \/ \E s \in DOMAIN how.default, r \in Tracked :
           row = [name |-> s[1], region |-> r, by |-> Nobody]
  BY DEF Opened
<1> QED
  BY <1>1, <1>2, <1>3

(* Each part is of a dimension of the row, and there is one of each default. *)
LEMMA PartDims ==
  ASSUME NEW how, NEW kept, IsKept(how, kept), NEW row, IsRow(row)
  PROVE  /\ \A p \in Parts(how, kept, row) : p.dim \in DimsOf(how, row.name)
         /\ \A s \in DOMAIN how.default :
              s[1] = row.name => \E p \in Parts(how, kept, row) : p.dim = s[2]
<1>1. ASSUME NEW p \in OwnParts(how, kept, row) PROVE p.dim \in DimsOf(how, row.name)
  <2>1. \A q \in KeptOf(how, kept, row) : IsPrice(q) /\ q.row = row /\ q.dim \in DimsOf(how, q.row.name)
    BY DEF KeptOf, IsKept
  <2>2. \E q \in KeptOf(how, kept, row) : p.dim = q.dim
    BY <1>1, <2>1, LadderedKeeps DEF OwnParts, Like
  <2> QED
    BY <2>1, <2>2
<1>2. ASSUME NEW p \in WideParts(how, kept, row) PROVE p.dim \in DimsOf(how, row.name)
  <2>1. p.row.name = row.name
    BY DEF WideParts, IsRow
  <2> QED
    BY <2>1 DEF WideParts, IsKept
<1>3. ASSUME NEW s \in Lacking(how, kept, row)
      PROVE  ByDefault(how, row, s).dim \in DimsOf(how, row.name)
  <2>1. s \in Priced(how) /\ s[1] = row.name
    BY Zenon DEF Lacking, Priced
  <2> QED
    BY <2>1 DEF ByDefault, DimsOf
<1>4. ASSUME NEW s \in DOMAIN how.default, s[1] = row.name
      PROVE  \E p \in Parts(how, kept, row) : p.dim = s[2]
  <2>1. CASE s \in Lacking(how, kept, row)
    <3>1. ByDefault(how, row, s) \in Parts(how, kept, row)
      BY <2>1, PartsAre, Zenon
    <3> QED
      BY <3>1 DEF ByDefault
  <2>2. CASE s \notin Lacking(how, kept, row)
    BY <1>4, <2>2, PartsAre DEF Lacking
  <2> QED
    BY <2>1, <2>2
<1>5. \A p \in Parts(how, kept, row) : p.dim \in DimsOf(how, row.name)
  BY <1>1, <1>2, <1>3, PartsAre
<1> QED
  BY <1>4, <1>5

(* A whole row of a source that is not Partial has a price of each of its  *)
(* dimensions, or all of them are shown as one.                            *)
LEMMA WholeDims ==
  ASSUME NEW how, ~Partial(how), NEW kept, IsKept(how, kept), NEW row, IsRow(row),
         Whole(how, row, Parts(how, kept, row))
  PROVE  \/ {p.dim : p \in Parts(how, kept, row)} = DimsOf(how, row.name)
         \/ \A d, e \in DimsOf(how, row.name) : At(how.shown, d, d) = At(how.shown, e, e)
<1> DEFINE m == row.name
           dims == DimsOf(how, m)
           parts == Parts(how, kept, row)
           default == {x[2] : x \in {y \in DOMAIN how.default : y[1] = m}}
<1>1. \A p \in parts : p.dim \in dims
  BY PartDims
<1>2. parts # {} /\ At(how.needs, m, {}) \subseteq {p.dim : p \in parts}
  BY DEF Whole
<1>3. default \subseteq {p.dim : p \in parts}
  BY PartDims
<1>4. m \in {x[1] : x \in Priced(how)}
  BY <1>1, <1>2 DEF DimsOf
<1>5. dims \subseteq At(how.needs, m, {}) \union default
      \/ \A d, e \in dims : At(how.shown, d, d) = At(how.shown, e, e)
  BY <1>4 DEF Partial
<1> HIDE DEF dims, parts, default
<1> QED
  BY <1>1, <1>2, <1>3, <1>5 DEF dims, parts

(* A row that is written is a whole one that was opened. *)
LEMMA RowsAre ==
  ASSUME NEW how, NEW kept, NEW r \in RowsOf(how, kept)
  PROVE  \E row \in Opened(how, kept) :
           /\ Whole(how, row, Parts(how, kept, row))
           /\ r.name = row.name /\ r.region = row.region
           /\ r.prices = PriceList(how, row, Parts(how, kept, row))
BY DEF RowsOf

(* The names its prices are shown under. *)
DimsIn(ps) == {p.dim : p \in ps}

ShownDims(how, m, dims) ==
  IF m \in how.summed THEN {"compute"} ELSE {At(how.shown, d, d) : d \in dims}

Published(how, p) ==
  [dim |-> At(how.shown, p.dim, p.dim), from |-> p.from, to |-> p.to, usd |-> p.usd, n |-> p.n]

LEMMA PricesAre ==
  ASSUME NEW how, NEW row, NEW parts
  PROVE  \/ /\ row.name \in how.summed
            /\ \E total : PriceList(how, row, parts) =
                 {[dim |-> "compute", from |-> 0, to |-> Unbounded, n |-> Nobody, usd |-> total]}
         \/ /\ row.name \notin how.summed
            /\ PriceList(how, row, parts) = {Published(how, p) : p \in parts}
<1>1. CASE row.name \in how.summed
  <2> DEFINE total == MapThenSumSet(LAMBDA p : p.usd, parts)
  <2>1. PriceList(how, row, parts) =
          {[dim |-> "compute", from |-> 0, to |-> Unbounded, n |-> Nobody, usd |-> total]}
    BY <1>1, Zenon DEF PriceList
  <2> HIDE DEF total
  <2> QED
    BY <1>1, <2>1
<1>2. CASE row.name \notin how.summed
  BY <1>2, Zenon DEF PriceList, Published
<1> QED
  BY <1>1, <1>2

LEMMA PricesShown ==
  ASSUME NEW how, NEW row, NEW parts
  PROVE  DimsIn(PriceList(how, row, parts)) = ShownDims(how, row.name, DimsIn(parts))
<1>1. CASE row.name \in how.summed
  <2>1. PICK total : PriceList(how, row, parts) =
                 {[dim |-> "compute", from |-> 0, to |-> Unbounded, n |-> Nobody, usd |-> total]}
    BY <1>1, PricesAre
  <2> QED
    BY <1>1, <2>1 DEF ShownDims, DimsIn
<1>2. CASE row.name \notin how.summed
  <2>1. PriceList(how, row, parts) = {Published(how, p) : p \in parts}
    BY <1>2, PricesAre
  <2>2. \A p : Published(how, p).dim = At(how.shown, p.dim, p.dim)
    BY DEF Published
  <2>3. DimsIn(PriceList(how, row, parts)) = {At(how.shown, p.dim, p.dim) : p \in parts}
    BY <2>1, <2>2 DEF DimsIn
  <2>4. ShownDims(how, row.name, DimsIn(parts)) = {At(how.shown, p.dim, p.dim) : p \in parts}
    BY <1>2 DEF ShownDims, DimsIn
  <2> QED
    BY <2>3, <2>4
<1> QED
  BY <1>1, <1>2

LEMMA RowsAlike ==
  ASSUME NEW how, ~Partial(how), NEW kept, IsKept(how, kept),
         NEW r \in RowsOf(how, kept), NEW q \in RowsOf(how, kept), r.name = q.name
  PROVE  {p.dim : p \in r.prices} = {p.dim : p \in q.prices}
<1>1. ASSUME NEW x \in RowsOf(how, kept)
      PROVE  \E dims \in SUBSET DimsOf(how, x.name) :
               /\ DimsIn(x.prices) = ShownDims(how, x.name, dims)
               /\ dims # {}
               /\ \/ dims = DimsOf(how, x.name)
                  \/ \A d, e \in DimsOf(how, x.name) : At(how.shown, d, d) = At(how.shown, e, e)
  <2>1. PICK row \in Opened(how, kept) :
           /\ Whole(how, row, Parts(how, kept, row))
           /\ x.name = row.name /\ x.region = row.region
           /\ x.prices = PriceList(how, row, Parts(how, kept, row))
    BY RowsAre
  <2> DEFINE parts == Parts(how, kept, row)
             dims == DimsIn(parts)
  <2>2. IsRow(row)
    BY OpenedRows
  <2>3. dims \in SUBSET DimsOf(how, x.name)
    BY <2>1, <2>2, PartDims DEF DimsIn
  <2>4. DimsIn(x.prices) = ShownDims(how, x.name, dims)
    <3>1. DimsIn(PriceList(how, row, parts)) = ShownDims(how, row.name, dims)
      BY PricesShown, Zenon
    <3> QED
      BY <2>1, <3>1, Zenon
  <2>5. dims # {}
    BY <2>1 DEF Whole, DimsIn
  <2>6. \/ dims = DimsOf(how, x.name)
        \/ \A d, e \in DimsOf(how, x.name) : At(how.shown, d, d) = At(how.shown, e, e)
    <3>1. \/ dims = DimsOf(how, row.name)
          \/ \A d, e \in DimsOf(how, row.name) : At(how.shown, d, d) = At(how.shown, e, e)
      BY <2>1, <2>2, WholeDims, Zenon DEF DimsIn
    <3> QED
      BY <2>1, <3>1, Zenon
  <2> HIDE DEF dims
  <2> QED
    BY <2>3, <2>4, <2>5, <2>6
<1>2. ASSUME NEW D \in SUBSET DimsOf(how, r.name), NEW E \in SUBSET DimsOf(how, r.name),
             D # {}, E # {},
             D = E \/ \A d, e \in DimsOf(how, r.name) : At(how.shown, d, d) = At(how.shown, e, e)
      PROVE  ShownDims(how, r.name, D) = ShownDims(how, r.name, E)
  <2>1. CASE D = E
    BY <2>1
  <2>2. CASE \A d, e \in DimsOf(how, r.name) : At(how.shown, d, d) = At(how.shown, e, e)
    BY <1>2, <2>2 DEF ShownDims
  <2> QED
    BY <1>2, <2>1, <2>2
<1>3. DimsIn(r.prices) = DimsIn(q.prices)
  BY <1>1, <1>2
<1> QED
  BY <1>3 DEF DimsIn

-----------------------------------------------------------------------------
Ways == {"head", "positive", "top", "stated", "chain", "zip", "open", "split"}

(* The rates of an item are records, the first of them among them. *)
LEMMA RatesAre ==
  ASSUME NEW i, Item(i)
  PROVE  /\ \A t \in Range(i.rates) : t \in Rate
         /\ i.rates # <<>> => Head(i.rates) \in Range(i.rates)
         /\ \A k \in DOMAIN i.rates : i.rates[k] \in Range(i.rates)
<1>1. i.rates \in Seq(Rate)
  BY DEF Item
<1>2. \A k \in DOMAIN i.rates : i.rates[k] \in Rate /\ i.rates[k] \in Range(i.rates)
  BY <1>1 DEF Range
<1>3. \A t \in Range(i.rates) : t \in Rate
  BY <1>2 DEF Range
<1>4. i.rates # <<>> => 1 \in DOMAIN i.rates /\ Head(i.rates) = i.rates[1]
  BY <1>1
<1> QED
  BY <1>2, <1>3, <1>4

(* The rates that are for the free tier, or for the other one; the last. *)
HalfOf(i, d) == {k \in DOMAIN i.rates : (i.rates[k].from = 0) <=> (d = "free")}
LastOf(i, d) ==
  {i.rates[k] : k \in {x \in HalfOf(i, d) : \A l \in HalfOf(i, d) : l <= x}}

(* Each tier has the price of a rate, or is free. *)
LEMMA TiersListed ==
  ASSUME NEW how, how.rate \in Ways, NEW i, Item(i), i.rates # <<>>,
         NEW d, NEW t \in Tiers(how, i, d)
  PROVE  \/ t.usd \in {u.usd : u \in Range(i.rates)}
         \/ t.usd = 0 /\ how.rate = "split" /\ d = "free"
         \/ t.usd = 0 /\ t.to = 0 /\ how.rate = "zip"
<1> DEFINE rates == Range(i.rates)
           starts == {u.from : u \in rates}
           rank(u) == Cardinality({c \in starts : c <= u.from})
           based == d \in how.based /\ Head(i.rates).from # 0
<1>1. /\ \A u \in rates : u \in [from : 0..Unbounded - 1, to : 1..Unbounded, usd : Nat]
      /\ Head(i.rates) \in rates
      /\ \A k \in DOMAIN i.rates : i.rates[k] \in rates
  BY RatesAre DEF Rate
<1>2. ~based
  BY DEF Tiers
<1>3. \A u \in rates : \A x : [u EXCEPT !.to = x].usd = u.usd
  BY <1>1
<1>4. \A u \in rates : [u EXCEPT !.usd = 0].usd = 0
  BY <1>1
<1>5. \A x : \A u \in Flat(x) : u.usd = x
  BY DEF Flat
<1> HIDE DEF rates
<1>6. CASE how.rate = "head"
  <2>1. t \in Flat(Head(i.rates).usd)
    BY <1>2, <1>6 DEF Tiers
  <2> QED
    BY <1>1, <1>5, <2>1 DEF rates
<1>7. CASE how.rate = "positive"
  <2> DEFINE paid == {k \in DOMAIN i.rates : i.rates[k].usd > 0
                                            /\ \A l \in 1..k - 1 : i.rates[l].usd = 0}
  <2>1. Tiers(how, i, d) = UNION {Flat(i.rates[k].usd) : k \in paid}
    BY <1>2, <1>7 DEF Tiers
  <2>2. PICK k \in paid : t \in Flat(i.rates[k].usd)
    BY <2>1
  <2>3. k \in DOMAIN i.rates
    OBVIOUS
  <2> QED
    BY <1>1, <1>5, <2>2, <2>3 DEF rates
<1>8. CASE how.rate = "top"
  <2>1. Tiers(how, i, d) = UNION {Flat(u.usd) : u \in {v \in rates : Following(starts, v.from) = Unbounded}}
    BY <1>2, <1>8 DEF Tiers, rates
  <2> HIDE DEF starts
  <2>2. PICK u \in rates : t \in Flat(u.usd)
    BY <2>1
  <2> QED
    BY <1>5, <2>2 DEF rates
<1>9. CASE how.rate = "stated"
  BY <1>2, <1>9 DEF Tiers
<1>10. CASE how.rate = "chain"
  <2>1. Tiers(how, i, d) = {[u EXCEPT !.to = Following(starts, u.from)] : u \in rates}
    BY <1>2, <1>10 DEF Tiers, rates
  <2>2. PICK u \in rates : t = [u EXCEPT !.to = Following(starts, u.from)]
    BY <2>1
  <2>3. t.usd = u.usd
    BY <1>3, <2>2
  <2> QED
    BY <2>3 DEF rates
<1>11. CASE how.rate = "zip"
  <2> DEFINE b == how.bounds[d]
  <2>1. CASE d \notin DOMAIN how.bounds
    <3>1. t \in Flat(Head(i.rates).usd)
      BY <1>2, <1>11, <2>1 DEF Tiers
    <3> QED
      BY <1>1, <1>5, <3>1 DEF rates
  <2>2. CASE d \in DOMAIN how.bounds /\ Len(i.rates) # Len(b)
    <3>1. t = Misfit
      BY <1>2, <1>11, <2>2 DEF Tiers
    <3> QED
      BY <1>11, <3>1 DEF Misfit
  <2>3. CASE d \in DOMAIN how.bounds /\ Len(i.rates) = Len(b)
    <3>1. Tiers(how, i, d) = {[from |-> b[rank(u)], to |-> Following(Range(b), b[rank(u)]),
                               usd |-> u.usd] : u \in rates}
      BY <1>2, <1>11, <2>3 DEF Tiers, rates
    <3>2. PICK u \in rates : t = [from |-> b[rank(u)], to |-> Following(Range(b), b[rank(u)]),
                                  usd |-> u.usd]
      BY <3>1, Zenon
    <3> HIDE DEF b, rank
    <3> QED
      BY <3>2 DEF rates
  <2> QED
    BY <2>1, <2>2, <2>3
<1>12. CASE how.rate = "open"
  <2>1. t \in Flat(Head(i.rates).usd) \/ t = [Head(i.rates) EXCEPT !.to = Unbounded]
    BY <1>2, <1>12 DEF Tiers
  <2>2. t.usd = Head(i.rates).usd
    BY <1>1, <1>3, <1>5, <2>1
  <2> QED
    BY <1>1, <2>2 DEF rates
<1>13. CASE how.rate = "split"
  <2>1. CASE d = "free"
    <3>1. Tiers(how, i, d) = {[u EXCEPT !.usd = 0] : u \in LastOf(i, d)}
      BY <1>2, <1>13, <2>1 DEF Tiers, LastOf, HalfOf
    <3>2. PICK u \in rates : t = [u EXCEPT !.usd = 0]
      BY <1>1, <3>1 DEF LastOf, HalfOf
    <3> QED
      BY <1>4, <1>13, <2>1, <3>2
  <2>2. CASE d # "free"
    <3>1. Tiers(how, i, d) = {[u EXCEPT !.to = Unbounded] : u \in LastOf(i, d)}
      BY <1>2, <1>13, <2>2 DEF Tiers, LastOf, HalfOf
    <3>2. PICK u \in rates : t = [u EXCEPT !.to = Unbounded]
      BY <1>1, <3>1 DEF LastOf, HalfOf
    <3>3. t.usd = u.usd
      BY <1>3, <3>2
    <3> QED
      BY <3>3 DEF rates
  <2> QED
    BY <2>1, <2>2
<1> QED
  BY <1>6, <1>7, <1>8, <1>9, <1>10, <1>11, <1>12, <1>13 DEF Ways

(* Where a price can be used there is a tier. *)
LEMMA HighestStart ==
  ASSUME NEW S \in SUBSET (0..Unbounded - 1), S # {}
  PROVE  \E x \in S : \A y \in S : ~(y > x)
<1> SUFFICES ASSUME \A x \in S : \E y \in S : y > x PROVE FALSE
  OBVIOUS
<1>1. \A x \in S : x \in 0..8
  BY DEF Unbounded
<1>2. 8 \notin S /\ 7 \notin S
  BY <1>1
<1>3. 6 \notin S /\ 5 \notin S /\ 4 \notin S
  BY <1>1, <1>2
<1>4. 3 \notin S /\ 2 \notin S /\ 1 \notin S
  BY <1>1, <1>2, <1>3
<1>5. \A x \in S : x = 0
  BY <1>1, <1>2, <1>3, <1>4
<1>6. \A x \in S : FALSE
  BY <1>5
<1> QED
  BY <1>6

(* In a strict total order of a finite set, how many elements are below one *)
(* tells it from the others, and every number below the set's size is used. *)
Below(S, R, x) == {y \in S : <<y, x>> \in R}

StrictOrder(S, R) ==
  /\ \A x \in S : <<x, x>> \notin R
  /\ \A x, y, z \in S : <<x, y>> \in R /\ <<y, z>> \in R => <<x, z>> \in R
  /\ \A x, y \in S : x # y => <<x, y>> \in R \/ <<y, x>> \in R

LEMMA Ranks ==
  ASSUME NEW S, IsFiniteSet(S), NEW R, StrictOrder(S, R)
  PROVE  /\ Cardinality(S) \in Nat
         /\ \A x \in S : Cardinality(Below(S, R, x)) \in 0..Cardinality(S) - 1
         /\ \A x, y \in S :
              <<x, y>> \in R => Cardinality(Below(S, R, x)) < Cardinality(Below(S, R, y))
         /\ \A k \in 0..Cardinality(S) - 1 : \E x \in S : Cardinality(Below(S, R, x)) = k
<1> DEFINE n == Cardinality(S)
           rank(x) == Cardinality(Below(S, R, x))
<1>1. n \in Nat
  BY FS_CardinalityType
<1>2. ASSUME NEW x \in S
      PROVE  IsFiniteSet(Below(S, R, x)) /\ rank(x) \in 0..n - 1
  <2>1. Below(S, R, x) \in SUBSET (S \ {x})
    BY DEF Below, StrictOrder
  <2>2. IsFiniteSet(S \ {x}) /\ Cardinality(S \ {x}) = n - 1
    BY FS_RemoveElement
  <2>3. IsFiniteSet(Below(S, R, x)) /\ rank(x) <= n - 1
    BY <2>1, <2>2, FS_Subset
  <2>4. rank(x) \in Nat
    BY <2>3, FS_CardinalityType
  <2> QED
    BY <1>1, <2>3, <2>4
<1>3. ASSUME NEW x \in S, NEW y \in S, <<x, y>> \in R
      PROVE  rank(x) < rank(y)
  <2>1. Below(S, R, x) \union {x} \in SUBSET Below(S, R, y)
    BY <1>3 DEF Below, StrictOrder
  <2>2. x \notin Below(S, R, x)
    BY DEF Below, StrictOrder
  <2>3. Cardinality(Below(S, R, x) \union {x}) = rank(x) + 1
    BY <1>2, <2>2, FS_AddElement
  <2>4. rank(x) + 1 <= rank(y)
    BY <1>2, <2>1, <2>3, FS_Subset
  <2> QED
    BY <1>2, <2>4
<1> DEFINE f == [x \in S |-> rank(x)]
<1>4. f \in Injection(S, 0..n - 1)
  <2>1. f \in [S -> 0..n - 1]
    BY <1>2
  <2> HIDE DEF rank, n
  <2>2. ASSUME NEW x \in S, NEW y \in S, x # y PROVE rank(x) # rank(y)
    <3>1. rank(x) \in Int /\ rank(y) \in Int
      BY <1>1, <1>2
    <3>2. rank(x) < rank(y) \/ rank(y) < rank(x)
      BY <1>3, <2>2 DEF StrictOrder
    <3> QED
      BY <3>1, <3>2
  <2> QED
    BY <2>1, <2>2 DEF Injection, IsInjective
<1>5. IsFiniteSet(0..n - 1) /\ Cardinality(0..n - 1) = n
  BY <1>1, FS_Interval
<1>6. f \in Surjection(S, 0..n - 1)
  <2> HIDE DEF f
  <2> QED
    BY <1>4, <1>5, FS_Injection
<1>7. \A k \in 0..n - 1 : \E x \in S : rank(x) = k
  <2> HIDE DEF rank
  <2> QED
    BY <1>6 DEF Surjection
<1> QED
  BY <1>1, <1>2, <1>3, <1>7

(* Of finitely many numbers one is the highest, and one the lowest. *)
LEMMA Extremes ==
  ASSUME NEW S \in SUBSET Nat, IsFiniteSet(S), S # {}
  PROVE  /\ \E x \in S : \A y \in S : y <= x
         /\ \E x \in S : \A y \in S : x <= y
<1> DEFINE R == {x \in S \X S : x[1] < x[2]}
           n == Cardinality(S)
<1>1. \A x, y \in S : <<x, y>> \in R <=> x < y
  OBVIOUS
<1>2. StrictOrder(S, R)
  <2> HIDE DEF R
  <2> QED
    BY <1>1 DEF StrictOrder
<1>3. n \in Nat /\ n # 0
  BY FS_EmptySet, FS_CardinalityType
<1> DEFINE rank(x) == Cardinality(Below(S, R, x))
<1> HIDE DEF R
<1>4. /\ \A x \in S : rank(x) \in 0..n - 1
      /\ \A x, y \in S : <<x, y>> \in R => rank(x) < rank(y)
      /\ \A k \in 0..n - 1 : \E x \in S : rank(x) = k
  BY <1>2, Ranks
<1> HIDE DEF rank, n
<1>5. PICK x \in S, z \in S : rank(x) = 0 /\ rank(z) = n - 1
  BY <1>3, <1>4
<1>6. ASSUME NEW y \in S PROVE x <= y /\ y <= z
  <2>1. rank(y) \in 0..n - 1
    BY <1>4
  <2>2. ~(y < x)
    <3>1. y < x => rank(y) < rank(x)
      BY <1>1, <1>4
    <3> QED
      BY <1>3, <1>5, <2>1, <3>1
  <2>3. ~(z < y)
    <3>1. z < y => rank(z) < rank(y)
      BY <1>1, <1>4
    <3> QED
      BY <1>3, <1>5, <2>1, <3>1
  <2> QED
    BY <2>2, <2>3
<1> QED
  BY <1>6

(* There is a last rate of a half that is not empty, and one only. *)
LEMMA LastThere ==
  ASSUME NEW i, Item(i), NEW d, HalfOf(i, d) # {}
  PROVE  LastOf(i, d) # {}
<1>1. DOMAIN i.rates = 1..Len(i.rates) /\ Len(i.rates) \in Nat
  BY DEF Item
<1>2. HalfOf(i, d) \in SUBSET (1..Len(i.rates))
  BY <1>1 DEF HalfOf
<1> DEFINE len == Len(i.rates)
<1> HIDE DEF len
<1>3. IsFiniteSet(HalfOf(i, d)) /\ HalfOf(i, d) \in SUBSET Nat
  <2>1. len \in Nat /\ HalfOf(i, d) \in SUBSET (1..len)
    BY <1>1, <1>2 DEF len
  <2>2. IsFiniteSet(1..len)
    BY <2>1, FS_Interval
  <2> QED
    BY <2>1, <2>2, FS_Subset
<1>4. PICK x \in HalfOf(i, d) : \A l \in HalfOf(i, d) : l <= x
  BY <1>3, Extremes
<1> QED
  BY <1>4 DEF LastOf

LEMMA TiersThere ==
  ASSUME NEW how, how.rate \in Ways, NEW i, Item(i), NEW d, NEW r, Usable(how, i, d, r)
  PROVE  Tiers(how, i, d) # {}
<1> DEFINE rates == Range(i.rates)
           starts == {u.from : u \in rates}
           rank(u) == Cardinality({c \in starts : c <= u.from})
<1>1. i.rates # <<>> /\ ~(d \in how.based /\ Head(i.rates).from # 0)
  BY DEF Usable
<1>2. /\ \A u \in rates : u \in [from : 0..Unbounded - 1, to : 1..Unbounded, usd : Nat]
      /\ Head(i.rates) \in rates /\ i.rates[1] \in rates /\ 1 \in DOMAIN i.rates
      /\ \A k \in DOMAIN i.rates : i.rates[k] \in rates
  <2>1. 1 \in DOMAIN i.rates
    BY <1>1 DEF Item
  <2> QED
    BY <1>1, <2>1, RatesAre DEF Rate
<1>3. \A x : Flat(x) # {}
  BY DEF Flat
<1>4. how.rate # "split" => \A u \in rates : u.usd > 0
  BY DEF Usable
<1> HIDE DEF rates
<1>5. CASE how.rate = "head"
  BY <1>1, <1>3, <1>5 DEF Tiers
<1>6. CASE how.rate = "positive"
  <2> DEFINE paid == {k \in DOMAIN i.rates : i.rates[k].usd > 0
                                            /\ \A l \in 1..k - 1 : i.rates[l].usd = 0}
  <2>1. Tiers(how, i, d) = UNION {Flat(i.rates[k].usd) : k \in paid}
    BY <1>1, <1>6 DEF Tiers
  <2>2. 1..1 - 1 = {}
    OBVIOUS
  <2>3. 1 \in paid
    BY <1>2, <1>4, <1>6, <2>2
  <2> HIDE DEF paid
  <2>4. Flat(i.rates[1].usd) \subseteq Tiers(how, i, d)
    BY <2>1, <2>3
  <2> QED
    BY <1>3, <2>4
<1>7. CASE how.rate = "top"
  <2>1. Tiers(how, i, d) = UNION {Flat(u.usd) : u \in {v \in rates : Following(starts, v.from) = Unbounded}}
    BY <1>1, <1>7 DEF Tiers, rates
  <2>2. starts \in SUBSET (0..Unbounded - 1) /\ starts # {}
    BY <1>2
  <2>3. PICK x \in starts : \A y \in starts : ~(y > x)
    BY <2>2, HighestStart
  <2>4. PICK u \in rates : u.from = x
    BY <2>3
  <2>5. {c \in starts : c > u.from} = {}
    BY <2>3, <2>4
  <2>6. Following(starts, u.from) = Unbounded
    BY <2>5 DEF Following
  <2> HIDE DEF starts
  <2>7. Flat(u.usd) \subseteq Tiers(how, i, d)
    BY <2>1, <2>6
  <2> QED
    BY <1>3, <2>7
<1>8. CASE how.rate = "stated"
  BY <1>1, <1>2, <1>8 DEF Tiers, rates
<1>9. CASE how.rate = "chain"
  <2>1. Tiers(how, i, d) = {[u EXCEPT !.to = Following(starts, u.from)] : u \in rates}
    BY <1>1, <1>9 DEF Tiers, rates
  <2> HIDE DEF starts
  <2>2. [Head(i.rates) EXCEPT !.to = Following(starts, Head(i.rates).from)] \in Tiers(how, i, d)
    BY <1>2, <2>1, Zenon
  <2> QED
    BY <2>2
<1>10. CASE how.rate = "zip"
  <2> DEFINE b == how.bounds[d]
  <2>1. CASE d \notin DOMAIN how.bounds
    BY <1>1, <1>3, <1>10, <2>1 DEF Tiers
  <2>2. CASE d \in DOMAIN how.bounds /\ Len(i.rates) # Len(b)
    BY <1>1, <1>10, <2>2 DEF Tiers
  <2>3. CASE d \in DOMAIN how.bounds /\ Len(i.rates) = Len(b)
    <3> DEFINE tier(u) == [from |-> b[rank(u)], to |-> Following(Range(b), b[rank(u)]),
                           usd |-> u.usd]
    <3>1. Tiers(how, i, d) = {tier(u) : u \in rates}
      BY <1>1, <1>10, <2>3 DEF Tiers, rates
    <3> HIDE DEF tier
    <3>2. tier(Head(i.rates)) \in Tiers(how, i, d)
      BY <1>2, <3>1
    <3> QED
      BY <3>2
  <2> QED
    BY <2>1, <2>2, <2>3
<1>11. CASE how.rate = "open"
  BY <1>1, <1>3, <1>11 DEF Tiers
<1>12. CASE how.rate = "split"
  <2>1. PICK u \in rates : (u.from = 0) <=> (d = "free")
    BY <1>12 DEF Usable, rates
  <2>2. HalfOf(i, d) # {}
    BY <1>2, <2>1 DEF HalfOf, Range, rates
  <2>3. PICK u2 \in LastOf(i, d) : TRUE
    BY <2>2, LastThere
  <2>4. CASE d = "free"
    <3>1. Tiers(how, i, d) = {[v EXCEPT !.usd = 0] : v \in LastOf(i, d)}
      BY <1>1, <1>12, <2>4 DEF Tiers, LastOf, HalfOf
    <3> QED
      BY <2>3, <3>1
  <2>5. CASE d # "free"
    <3>1. Tiers(how, i, d) = {[v EXCEPT !.to = Unbounded] : v \in LastOf(i, d)}
      BY <1>1, <1>12, <2>5 DEF Tiers, LastOf, HalfOf
    <3> QED
      BY <2>3, <3>1
  <2> QED
    BY <2>4, <2>5
<1> QED
  BY <1>5, <1>6, <1>7, <1>8, <1>9, <1>10, <1>11, <1>12 DEF Ways

(* What an item fills in it offers. *)
IsPair(x) == x = <<x[1], x[2]>>

LEMMA PlaceNamed ==
  ASSUME NEW i, Item(i), i.at # <<>>
  PROVE  Head(i.at) \in Range(i.at)
<1>1. 1 \in DOMAIN i.at /\ Head(i.at) = i.at[1]
  BY DEF Item
<1> QED
  BY <1>1 DEF Range

LEMMA FillsOffered ==
  ASSUME NEW how, \A x \in Priced(how) : IsPair(x), NEW i, Item(i), NEW p \in Fills(how, i)
  PROVE  Offers(how, i, p.row.name, p.dim, p.row.region)
<1>1. i.payg /\ i.kind \in DOMAIN how.sells
  BY FillsMade DEF Taken
<1>2. PICK s \in how.sells[i.kind] : \E r \in Places(how, i) : \E t \in Tiers(how, i, s[2]) :
        Made(how, i, p, s, r, t)
  BY FillsMade
<1>3. s \in Priced(how)
  BY <1>1 DEF Priced, Range
<1>4. p.row.region \in Places(how, i) /\ s = <<p.row.name, p.dim>>
  BY <1>2, <1>3 DEF Made, FillOf, IsPair
<1>5. CASE how.where = "one" \/ i.kind \in how.wide
  BY <1>1, <1>4, <1>5 DEF Places, Offers
<1>6. CASE ~(how.where = "one" \/ i.kind \in how.wide)
  <2>1. CASE i.at = <<>>
    BY <1>1, <1>4, <1>6, <2>1 DEF Places, Offers
  <2>2. CASE i.at # <<>> /\ how.where = "each"
    BY <1>1, <1>4, <1>6, <2>2 DEF Places, Offers
  <2>3. CASE i.at # <<>> /\ how.where # "each"
    <3>1. p.row.region = Head(i.at)
      BY <1>4, <1>6, <2>3 DEF Places
    <3>2. Head(i.at) \in Range(i.at)
      BY <2>3, PlaceNamed
    <3> QED
      BY <1>1, <1>4, <1>6, <2>3, <3>1, <3>2 DEF Offers
  <2> QED
    BY <2>1, <2>2, <2>3
<1> QED
  BY <1>5, <1>6

(* The assumptions on a policy, for the one of the run. *)
LEMMA PolicyGiven ==
  ASSUME IInv
  PROVE  /\ \A x \in Priced(How) : IsPair(x)
         /\ How.rate \in Ways
         /\ \A i \in feed.doc : Item(i)
         /\ \A i, j \in feed.doc : i.n = j.n => i = j
         /\ \A m \in DOMAIN How.needs :
              How.needs[m] \subseteq DimsOf(How, m) \ How.spare /\ m \notin How.own
         /\ How.spread # {} =>
              /\ How.own = {} /\ How.spare = {} /\ How.costs = {} /\ How.ladder = <<>>
              /\ How.once = "no" /\ How.rate = "head"
              /\ \A x \in Priced(How) :
                   \/ x[2] \notin How.spread
                   \/ \E y \in Priced(How) :
                        y[1] = x[1] /\ (y[2] \notin How.spread \/ y \in DOMAIN How.default)
         /\ \A x \in How.free : x[1] \notin How.costs
         /\ How.rate \in {"zip", "split"} => How.paid = {} /\ How.costs = {}
<1>1. feed.src \in DOMAIN Policy /\ feed \in Feeds
  BY DEF IInv, TypeOK
<1>2. \A i \in feed.doc : Item(i)
  BY DEF IInv, TypeOK
<1>3. \A i, j \in feed.doc : i.n = j.n => i = j
  BY <1>1, FeedsListed
<1>4. /\ \A x \in Priced(How) : IsPair(x)
      /\ How.rate \in Ways
  BY <1>1, ChoicesMade DEF How, IsPair, Ways
<1>5. \A m \in DOMAIN How.needs :
         How.needs[m] \subseteq DimsOf(How, m) \ How.spare /\ m \notin How.own
  BY <1>1, NeedsPriced DEF How
<1>6. How.spread # {} =>
         /\ How.own = {} /\ How.spare = {} /\ How.costs = {} /\ How.ladder = <<>>
         /\ How.once = "no" /\ How.rate = "head"
         /\ \A x \in Priced(How) :
              \/ x[2] \notin How.spread
              \/ \E y \in Priced(How) :
                   y[1] = x[1] /\ (y[2] \notin How.spread \/ y \in DOMAIN How.default)
  BY <1>1, SpreadPlain, Zenon DEF How
<1>7. /\ \A x \in How.free : x[1] \notin How.costs
      /\ How.rate \in {"zip", "split"} => How.costs = {}
  BY <1>1, FreeKept, Zenon DEF How
<1>8. How.paid # {} => How.rate \in {"head", "positive", "top", "open"}
  BY <1>1, TiersPlain, Zenon DEF How
<1> QED
  BY <1>2, <1>3, <1>4, <1>5, <1>6, <1>7, <1>8

(* A usable offer fills in a price, one that costs where it must. *)
RowIn(how, i, m, r) == [name |-> m, region |-> r, by |-> IF m \in how.own THEN i.n ELSE Nobody]

LEMMA SoldFills ==
  ASSUME IInv, NEW i \in feed.doc, NEW m, NEW d, NEW r,
         Offers(How, i, m, d, r), Usable(How, i, d, r),
         r \in Tracked \union How.virtual \/ (r = "global" /\ How.spread # {})
  PROVE  \E p \in Fills(How, i) : p.row = RowIn(How, i, m, r) /\ p.dim = d
<1>1. Item(i) /\ How.rate \in Ways
  BY PolicyGiven
<1>2. Taken(How, i) /\ i.unit = "known"
  BY DEF Offers, Usable, Taken
<1>3. r \in Places(How, i)
  <2>1. CASE How.where = "one" \/ i.kind \in How.wide
    BY <2>1 DEF Offers, Places
  <2>2. CASE ~(How.where = "one" \/ i.kind \in How.wide) /\ i.at = <<>>
    BY <2>2 DEF Offers, Places
  <2>3. CASE ~(How.where = "one" \/ i.kind \in How.wide) /\ i.at # <<>>
    <3>1. r \in Range(i.at) /\ (How.where = "each" \/ r = Head(i.at))
      BY <2>3 DEF Offers, Usable
    <3> QED
      BY <2>3, <3>1 DEF Places
  <2> QED
    BY <2>1, <2>2, <2>3
<1>4. PICK t \in Tiers(How, i, d) : TRUE
  BY <1>1, TiersThere
<1>5. d \in How.paid => t.usd > 0
  <2> SUFFICES ASSUME d \in How.paid PROVE t.usd > 0
    OBVIOUS
  <2>1. How.rate \notin {"zip", "split"}
    BY PolicyGiven
  <2>2. \A u \in Range(i.rates) : u.usd > 0
    BY <2>1 DEF Usable
  <2>3. t.usd \in {u.usd : u \in Range(i.rates)}
    BY <1>1, <1>2, <2>1, TiersListed DEF Taken
  <2> QED
    BY <2>2, <2>3
<1> DEFINE s == <<m, d>>
           p == FillOf(How, i, s, r, t)
<1>6. s \in How.sells[i.kind]
  BY DEF Offers
<1>7. s[1] = m /\ s[2] = d
  OBVIOUS
<1>8. p \in Fills(How, i)
  <2>1. t \in {u \in Tiers(How, i, s[2]) : s[2] \in How.paid => u.usd > 0}
    BY <1>4, <1>5, <1>7
  <2>2. ~(~Taken(How, i) \/ (How.odd = "skip" /\ i.unit = "odd"))
    BY <1>2
  <2>3. Made(How, i, p, s, r, t)
    BY DEF Made
  <2> HIDE DEF p, s
  <2> QED
    BY <1>3, <1>6, <2>1, <2>2, <2>3, FillsAre
<1>9. p.row = RowIn(How, i, m, r) /\ p.dim = d
  BY <1>7 DEF RowIn, FillOf
<1> QED
  BY <1>8, <1>9

(* A price is one of the rates, or free for a reason. *)
LEMMA FillsUsd ==
  ASSUME NEW how, how.rate \in Ways, \A x \in Priced(how) : IsPair(x),
         NEW i, Item(i), NEW p \in Fills(how, i)
  PROVE  \/ p.usd \in {t.usd : t \in Range(i.rates)}
         \/ /\ p.usd = 0
            /\ \/ <<p.row.name, p.dim>> \in how.free
               \/ how.rate = "split" /\ p.dim = "free"
               \/ p.to = 0 /\ how.rate = "zip"
<1>1. i.rates # <<>> /\ i.kind \in DOMAIN how.sells
  BY FillsMade DEF Taken
<1>2. PICK s \in how.sells[i.kind], r \in Places(how, i) : \E t \in Tiers(how, i, s[2]) :
        Made(how, i, p, s, r, t)
  BY FillsMade
<1>3. PICK t \in Tiers(how, i, s[2]) : Made(how, i, p, s, r, t)
  BY <1>2
<1>4. s = <<p.row.name, p.dim>>
  <2>1. s \in Priced(how)
    BY <1>1 DEF Priced, Range
  <2> QED
    BY <1>3, <2>1 DEF Made, FillOf, IsPair
<1>5. p.usd = (IF s \in how.free THEN 0 ELSE t.usd) /\ p.to = t.to /\ p.dim = s[2]
  BY <1>3 DEF Made, FillOf
<1>6. \/ t.usd \in {u.usd : u \in Range(i.rates)}
      \/ t.usd = 0 /\ how.rate = "split" /\ s[2] = "free"
      \/ t.usd = 0 /\ t.to = 0 /\ how.rate = "zip"
  BY <1>1, TiersListed
<1> QED
  BY <1>4, <1>5, <1>6

LEMMA AccKept == IInv => IsKept(How, acc)
<1> SUFFICES ASSUME IInv, NEW p \in acc PROVE IsPrice(p) /\ p.dim \in DimsOf(How, p.row.name)
  BY DEF IsKept
<1>1. PICK i \in feed.doc \ todo : p \in Fills(How, i)
  BY DEF IInv, TypeOK
<1> QED
  BY <1>1, FillsMade, FillsPriced

(* Where global prices are spread, rows are of known regions and no item's. *)
LEMMA SpreadRows ==
  ASSUME IInv, How.spread # {}, NEW row \in Opened(How, acc)
  PROVE  row = [name |-> row.name, region |-> row.region, by |-> Nobody]
         /\ row.region \in Tracked \union How.virtual /\ row.region # "global"
<1>1. CASE \E p \in acc : p.row.region # "global" /\ row = p.row
  <2>1. PICK p \in acc : p.row.region # "global" /\ row = p.row
    BY <1>1
  <2>2. PICK i \in feed.doc \ todo : p \in Fills(How, i)
    BY <2>1 DEF IInv, TypeOK
  <2>3. PICK s \in How.sells[i.kind] : \E r \in Places(How, i) : \E t \in Tiers(How, i, s[2]) :
          Made(How, i, p, s, r, t)
    BY <2>2, FillsMade
  <2>4. row.region \in Places(How, i) /\ IsRow(row) /\ (s[1] \notin How.own => row.by = Nobody)
    BY <2>1, <2>3 DEF Made, FillOf, IsRow
  <2>5. row.by = Nobody
    BY <2>4, PolicyGiven
  <2>6. row.region \in Tracked \union How.virtual
    BY <2>1, <2>4 DEF Places
  <2> QED
    BY <2>1, <2>4, <2>5, <2>6 DEF IsRow
<1>2. CASE \E s \in DOMAIN How.default, r \in Tracked :
             row = [name |-> s[1], region |-> r, by |-> Nobody]
  <2>1. "global" \notin Tracked
    BY ChoicesMade
  <2> QED
    BY <1>2, <2>1
<1>3. \/ \E p \in acc : p.row.region # "global" /\ row = p.row
      \/ \E s \in DOMAIN How.default, r \in Tracked :
           row = [name |-> s[1], region |-> r, by |-> Nobody]
  BY DEF Opened
<1> QED
  BY <1>1, <1>2, <1>3

(* What a price of an item is to the row it is of. *)
ListedFor(how, i, m, d, r, p) ==
  /\ i.n = p.n /\ <<m, d>> \in UNION Range(how.sells)
  /\ Offers(how, i, m, d, r)
  /\ \/ p.usd \in {t.usd : t \in Range(i.rates)}
     \/ /\ p.usd = 0
        /\ \/ <<m, d>> \in how.free
           \/ d \in DOMAIN how.ladder
           \/ how.rate = "split" /\ d = "free"

LEMMA KeptListed ==
  ASSUME IInv, NEW p \in acc, p.to # 0 \/ p.dim \in DOMAIN How.ladder
  PROVE  \E i \in feed.doc : p \in Fills(How, i)
           /\ ListedFor(How, i, p.row.name, p.dim, p.row.region, p)
<1>1. PICK i \in feed.doc \ todo : p \in Fills(How, i)
  BY DEF IInv, TypeOK
<1>2. /\ \A x \in Priced(How) : IsPair(x)
      /\ How.rate \in Ways /\ Item(i)
  BY PolicyGiven
<1>3. Offers(How, i, p.row.name, p.dim, p.row.region)
  BY <1>1, <1>2, FillsOffered
<1>4. <<p.row.name, p.dim>> \in UNION Range(How.sells)
  BY <1>3 DEF Offers, Range
<1>5. i.n = p.n
  <2>1. PICK s \in How.sells[i.kind] : \E r \in Places(How, i) : \E t \in Tiers(How, i, s[2]) :
          Made(How, i, p, s, r, t)
    BY <1>1, FillsMade
  <2> QED
    BY <2>1 DEF Made, FillOf
<1>6. \/ p.usd \in {t.usd : t \in Range(i.rates)}
      \/ /\ p.usd = 0
         /\ \/ <<p.row.name, p.dim>> \in How.free
            \/ How.rate = "split" /\ p.dim = "free"
            \/ p.to = 0 /\ How.rate = "zip"
  BY <1>1, <1>2, FillsUsd
<1> QED
  BY <1>1, <1>3, <1>4, <1>5, <1>6 DEF ListedFor

LEMMA OwnListed ==
  ASSUME IInv, NEW row, NEW p \in OwnParts(How, acc, row), p.to # 0
  PROVE  \E i \in feed.doc : ListedFor(How, i, row.name, p.dim, row.region, p)
<1>1. \A q \in KeptOf(How, acc, row) : IsPrice(q) /\ q \in acc /\ q.row = row
  BY AccKept DEF KeptOf, IsKept
<1>2. CASE p \in KeptOf(How, acc, row)
  BY <1>1, <1>2, KeptListed
<1>3. CASE \E q \in KeptOf(How, acc, row) : q.dim \in DOMAIN How.ladder /\ Like(p, q)
  <2>1. PICK q \in KeptOf(How, acc, row) : q.dim \in DOMAIN How.ladder /\ Like(p, q)
    BY <1>3
  <2>2. PICK i \in feed.doc : ListedFor(How, i, row.name, q.dim, row.region, q)
    BY <1>1, <2>1, KeptListed
  <2>3. p.n = q.n /\ p.dim = q.dim /\ (p.usd = q.usd \/ p.usd = 0)
    BY <2>1 DEF Like
  <2>4. ListedFor(How, i, row.name, p.dim, row.region, p)
    BY <2>1, <2>2, <2>3 DEF ListedFor
  <2> QED
    BY <2>4
<1> QED
  BY <1>1, <1>2, <1>3, LadderedKeeps DEF OwnParts

(* A global price is that of a region only where no item of the region has *)
(* a usable one.                                                           *)
LEMMA WideListed ==
  ASSUME IInv, todo = {}, phase # "raised", NEW row \in Opened(How, acc),
         NEW p \in WideParts(How, acc, row), p.to # 0
  PROVE  /\ \E i \in feed.doc : ListedFor(How, i, row.name, p.dim, "global", p)
         /\ \A j \in feed.doc :
              ~(Offers(How, j, row.name, p.dim, row.region) /\ Usable(How, j, p.dim, row.region))
<1>1. How.spread # {} /\ p \in acc /\ p.row = [row EXCEPT !.region = "global"]
      /\ \A q \in OwnParts(How, acc, row) : q.dim # p.dim
  BY DEF WideParts
<1>2. row = [name |-> row.name, region |-> row.region, by |-> Nobody]
      /\ row.region \in Tracked \union How.virtual /\ row.region # "global"
  BY <1>1, SpreadRows
<1>3. p.row.name = row.name /\ p.row.region = "global"
  BY <1>1, <1>2
<1>4. \E i \in feed.doc : ListedFor(How, i, row.name, p.dim, "global", p)
  BY <1>1, <1>3, KeptListed
<1>5. How.own = {} /\ How.spare = {} /\ How.ladder = <<>> /\ How.once = "no"
  BY <1>1, PolicyGiven
<1>6. ASSUME NEW j \in feed.doc, Offers(How, j, row.name, p.dim, row.region),
             Usable(How, j, p.dim, row.region)
      PROVE  FALSE
  <2>1. PICK q \in Fills(How, j) : q.row = RowIn(How, j, row.name, row.region) /\ q.dim = p.dim
    BY <1>2, <1>6, SoldFills
  <2>2. q.row = row
    BY <1>2, <1>5, <2>1 DEF RowIn
  <2>3. Cells(Fills(How, j)) \subseteq Cells(acc)
    BY <1>5 DEF IInv, Covered
  <2>4. PICK x \in acc : Cell(x) = Cell(q)
    BY <2>1, <2>3 DEF Cells
  <2>5. x.row = row /\ x.dim = p.dim
    BY <2>1, <2>2, <2>4 DEF Cell
  <2>6. x \in KeptOf(How, acc, row)
    BY <1>5, <2>5 DEF KeptOf
  <2>7. x \in OwnParts(How, acc, row)
    BY <1>5, <2>6, NoLadder DEF OwnParts
  <2> QED
    BY <1>1, <2>5, <2>7
<1> QED
  BY <1>4, <1>6

(* Everything has been read, of a document of which nothing gets lost. *)
AllKept == IInv /\ todo = {} /\ phase # "raised" /\ Unambiguous(How, feed.doc)

(* The dimensions items price a row name in, and where they do. *)
SoldDims(m) == {s[2] : s \in {t \in UNION Range(How.sells) : t[1] = m}}

Sold(m, d, r) == \E i \in feed.doc : Offers(How, i, m, d, r) /\ Usable(How, i, d, r)

LEMMA SoldKept ==
  ASSUME AllKept, NEW i \in feed.doc, NEW m, NEW d, NEW r,
         Offers(How, i, m, d, r), Usable(How, i, d, r),
         r \in Tracked \/ (r = "global" /\ How.spread # {})
  PROVE  \E p \in acc : p \in Fills(How, i) /\ p.row = RowIn(How, i, m, r) /\ p.dim = d
<1>1. \E p \in Fills(How, i) : p.row = RowIn(How, i, m, r) /\ p.dim = d
  BY SoldFills DEF AllKept
<1>2. acc = Listed(How, feed.doc)
  <2>1. acc = Listed(How, feed.doc \ todo)
    BY DEF AllKept, IInv, Gathered
  <2>2. feed.doc \ todo = feed.doc
    BY DEF AllKept
  <2> QED
    BY <2>1, <2>2
<1> QED
  BY <1>1, <1>2 DEF Listed

(* What is kept of a row name is of a dimension items price it in. *)
LEMMA KeptSold ==
  ASSUME IInv, NEW p \in acc
  PROVE  p.dim \in SoldDims(p.row.name)
<1>1. PICK i \in feed.doc \ todo : p \in Fills(How, i)
  BY DEF IInv, TypeOK
<1>2. Taken(How, i)
  BY <1>1, FillsMade
<1>3. PICK s \in How.sells[i.kind] : \E r \in Places(How, i) : \E t \in Tiers(How, i, s[2]) :
        Made(How, i, p, s, r, t)
  BY <1>1, FillsMade
<1>4. p.row.name = s[1] /\ p.dim = s[2]
  BY <1>3 DEF Made, FillOf
<1>5. s \in UNION Range(How.sells)
  BY <1>2 DEF Taken, Range
<1> QED
  BY <1>4, <1>5 DEF SoldDims

(* Where a row must cost something, a usable item's prices of it do. *)
LEMMA CostsPaid ==
  ASSUME IInv, NEW i \in feed.doc, NEW d, NEW r, Usable(How, i, d, r),
         NEW p \in Fills(How, i), p.row.name \in How.costs
  PROVE  p.usd > 0
<1>1. /\ \A x \in Priced(How) : IsPair(x)
      /\ How.rate \in Ways /\ Item(i)
      /\ How.rate \notin {"zip", "split"}
      /\ \A x \in How.free : x[1] \notin How.costs
  BY PolicyGiven
<1>2. \A t \in Range(i.rates) : t.usd > 0
  BY <1>1 DEF Usable
<1>3. <<p.row.name, p.dim>> \notin How.free
  BY <1>1
<1>4. p.usd \in {t.usd : t \in Range(i.rates)}
  BY <1>1, <1>3, FillsUsd
<1> QED
  BY <1>2, <1>4

(* A row with a price of each dimension it needs is written. *)
LEMMA RowWritten ==
  ASSUME IInv, NEW row \in Opened(How, acc), NEW p \in Parts(How, acc, row),
         row.name \in How.costs => p.usd > 0,
         row.name \in DOMAIN How.needs =>
           \A d \in SoldDims(row.name) \ How.spare : \E q \in Parts(How, acc, row) : q.dim = d
  PROVE  \E r \in RowsOf(How, acc) : r.name = row.name /\ r.region = row.region
<1> DEFINE parts == Parts(How, acc, row)
<1>1. IsRow(row) /\ IsKept(How, acc)
  BY AccKept, OpenedRows
<1>2. At(How.needs, row.name, {}) \subseteq {q.dim : q \in parts}
  <2> SUFFICES ASSUME row.name \in DOMAIN How.needs, NEW d \in How.needs[row.name]
               PROVE  \E q \in parts : q.dim = d
    BY DEF At
  <2>1. d \in DimsOf(How, row.name) /\ d \notin How.spare
    BY PolicyGiven
  <2>2. PICK x \in Priced(How) : x[1] = row.name /\ x[2] = d
    BY <2>1 DEF DimsOf
  <2>3. CASE x \in UNION Range(How.sells)
    <3>1. d \in SoldDims(row.name)
      BY <2>2, <2>3 DEF SoldDims
    <3> QED
      BY <2>1, <3>1
  <2>4. CASE x \in DOMAIN How.default
    BY <1>1, <2>2, <2>4, PartDims
  <2> QED
    BY <2>3, <2>4 DEF Priced
<1>3. Whole(How, row, parts)
  BY <1>2 DEF Whole
<1>4. [sku    |-> SkuId(How, acc, row, parts), name |-> row.name, region |-> row.region,
       prices |-> PriceList(How, row, parts)] \in RowsOf(How, acc)
  BY <1>3 DEF RowsOf
<1> QED
  BY <1>4

(* Sold in region r, where prices of the region are all that count. *)
LEMMA SoldWithoutSpread ==
  ASSUME AllKept, How.ladder = <<>>, How.spread = {},
         NEW m, NEW r \in Tracked, SoldDims(m) # {}, \A d \in SoldDims(m) : Sold(m, d, r)
  PROVE  \E x \in RowsOf(How, acc) : x.name = m /\ x.region = r
<1>1. PICK d \in SoldDims(m) : d \notin How.spare \/ SoldDims(m) \subseteq How.spare
  OBVIOUS
<1>2. PICK i \in feed.doc : Offers(How, i, m, d, r) /\ Usable(How, i, d, r)
  BY <1>1 DEF Sold
<1> DEFINE row == RowIn(How, i, m, r)
<1>3. PICK p \in acc : p \in Fills(How, i) /\ p.row = row /\ p.dim = d
  BY <1>2, SoldKept
<1>4. IInv /\ row.name = m /\ row.region = r
  BY DEF AllKept, RowIn
<1> HIDE DEF row
<1>5. row \in Opened(How, acc)
  BY <1>3 DEF Opened
<1>6. ASSUME NEW q \in acc, q.row = row,
             q.dim \notin How.spare \/ SoldDims(m) \subseteq How.spare
      PROVE  q \in Parts(How, acc, row)
  <2>1. \A x \in acc : x.row = row => x.dim \in SoldDims(m)
    BY <1>4, KeptSold
  <2>2. q \in KeptOf(How, acc, row)
    BY <1>6, <2>1 DEF KeptOf
  <2> QED
    BY <2>2, NoLadder, PartsAre DEF OwnParts
<1>7. p \in Parts(How, acc, row)
  BY <1>1, <1>3, <1>6
<1>8. m \in How.costs => p.usd > 0
  BY <1>2, <1>3, <1>4, CostsPaid
<1>9. ASSUME m \in DOMAIN How.needs, NEW e \in SoldDims(m) \ How.spare
      PROVE  \E q \in Parts(How, acc, row) : q.dim = e
  <2>1. PICK j \in feed.doc : Offers(How, j, m, e, r) /\ Usable(How, j, e, r)
    BY DEF Sold
  <2>2. PICK q \in acc : q.row = RowIn(How, j, m, r) /\ q.dim = e
    BY <2>1, SoldKept
  <2>3. m \notin How.own
    BY <1>4, <1>9, PolicyGiven
  <2>4. q.row = row
    BY <2>2, <2>3 DEF RowIn, row
  <2> QED
    BY <1>6, <2>2, <2>4
<1> QED
  BY <1>4, <1>5, <1>7, <1>8, <1>9, RowWritten

(* Sold there, or everywhere: a row that is opened has a price of each     *)
(* dimension, of the region or global.                                     *)
LEMMA SoldWithSpread ==
  ASSUME AllKept, How.ladder = <<>>, How.spread # {},
         NEW m, NEW r \in Tracked, SoldDims(m) # {},
         \A d \in SoldDims(m) : Sold(m, d, r) \/ (d \in How.spread /\ Sold(m, d, "global"))
  PROVE  \E x \in RowsOf(How, acc) : x.name = m /\ x.region = r
<1> DEFINE row == [name |-> m, region |-> r, by |-> Nobody]
<1>1. /\ How.own = {} /\ How.spare = {} /\ How.costs = {}
      /\ \A x \in Priced(How) :
           \/ x[2] \notin How.spread
           \/ \E y \in Priced(How) :
                y[1] = x[1] /\ (y[2] \notin How.spread \/ y \in DOMAIN How.default)
  BY PolicyGiven DEF AllKept
<1>2. IInv /\ r # "global" /\ row.name = m /\ row.region = r
  BY ChoicesMade DEF AllKept
<1>3. \A i, at : RowIn(How, i, m, at) = [row EXCEPT !.region = at]
  BY <1>1 DEF RowIn
<1>4. [row EXCEPT !.region = r] = row
  OBVIOUS
<1> HIDE DEF row
<1>5. ASSUME NEW d, Sold(m, d, r)
      PROVE  \E p \in acc : p.row = row /\ p.dim = d
  <2>1. PICK i \in feed.doc : Offers(How, i, m, d, r) /\ Usable(How, i, d, r)
    BY <1>5 DEF Sold
  <2> QED
    BY <1>3, <1>4, <2>1, SoldKept
<1>6. row \in Opened(How, acc)
  <2>1. CASE \E d \in SoldDims(m) : d \notin How.spread
    <3>1. PICK d \in SoldDims(m) : d \notin How.spread
      BY <2>1
    <3>2. PICK p \in acc : p.row = row
      BY <1>5, <3>1
    <3> QED
      BY <1>2, <3>2 DEF Opened
  <2>2. CASE \A d \in SoldDims(m) : d \in How.spread
    <3>1. PICK x \in UNION Range(How.sells) : x[1] = m
      BY DEF SoldDims
    <3>2. x \in Priced(How) /\ x[2] \in How.spread
      BY <2>2, <3>1 DEF Priced, SoldDims
    <3>3. PICK y \in Priced(How) : y[1] = m /\ (y[2] \notin How.spread \/ y \in DOMAIN How.default)
      BY <1>1, <3>1, <3>2
    <3>4. y \in DOMAIN How.default
      BY <2>2, <3>3 DEF Priced, SoldDims
    <3> QED
      BY <3>3, <3>4 DEF Opened, row
  <2> QED
    BY <2>1, <2>2
<1>7. \A q \in acc : q.row = row => q \in OwnParts(How, acc, row)
  BY <1>1, NoLadder DEF OwnParts, KeptOf
<1>8. ASSUME NEW d \in SoldDims(m)
      PROVE  \E q \in Parts(How, acc, row) : q.dim = d
  <2>1. CASE Sold(m, d, r)
    BY <1>5, <1>7, <2>1, PartsAre
  <2>2. CASE d \in How.spread /\ Sold(m, d, "global")
    <3>1. PICK i \in feed.doc : Offers(How, i, m, d, "global") /\ Usable(How, i, d, "global")
      BY <2>2 DEF Sold
    <3>2. PICK p \in acc : p.row = [row EXCEPT !.region = "global"] /\ p.dim = d
      BY <1>3, <3>1, SoldKept
    <3>3. CASE \E q \in OwnParts(How, acc, row) : q.dim = d
      BY <3>3, PartsAre
    <3>4. CASE \A q \in OwnParts(How, acc, row) : q.dim # d
      <4>1. p \in WideParts(How, acc, row)
        BY <2>2, <3>2, <3>4 DEF WideParts
      <4> QED
        BY <3>2, <4>1, PartsAre
    <3> QED
      BY <3>3, <3>4
  <2> QED
    BY <2>1, <2>2
<1>9. PICK p \in Parts(How, acc, row) : TRUE
  BY <1>8
<1> QED
  BY <1>1, <1>2, <1>6, <1>8, <1>9, RowWritten
-----------------------------------------------------------------------------
(* The variables have their types, and no price is kept that no item read  *)
(* so far fills in.                                                        *)
THEOREM TypeCorrect == Spec => []TypeOK
<1>1. IInv => TypeOK
  BY DEF IInv
<1> QED
  BY <1>1, Invariance, PTL

(* The order of a document does not matter to the rows of any source whose *)
(* items do not contend (ingest of every module under pipeline/ingest).    *)
THEOREM OrderDoesNotMatter == Spec => []OrderFree
<1>1. IInv => OrderFree
  <2> SUFFICES ASSUME IInv, Written, Unambiguous(How, feed.doc)
               PROVE  rows = RowsOf(How, UNION {Fills(How, i) : i \in feed.doc})
    BY DEF OrderFree
  <2>1. phase \in {"empty", "written"}
    BY DEF Written
  <2>2. rows = RowsOf(How, acc) /\ todo = {}
    BY <2>1 DEF IInv, RowsMade
  <2>3. acc = Listed(How, feed.doc)
    <3>1. acc = Listed(How, feed.doc \ todo)
      BY <2>1 DEF IInv, Gathered
    <3>2. feed.doc \ todo = feed.doc
      BY <2>2
    <3> QED
      BY <3>1, <3>2
  <2> QED
    BY <2>2, <2>3 DEF Listed
<1> QED
  BY <1>1, Invariance, PTL

(* Rows of one name are comparable between regions, for any source that is *)
(* not Partial: what a row needs, it has, and what it has by default comes  *)
(* with it (the completeness checks of the modules under pipeline/ingest).  *)
THEOREM PricedAlikeCorrect == Spec => []PricedAlike
<1>1. IInv => PricedAlike
  <2> SUFFICES ASSUME IInv, Written, ~Partial(How),
                      NEW r \in rows, NEW q \in rows, r.name = q.name
               PROVE  {p.dim : p \in r.prices} = {p.dim : p \in q.prices}
    BY DEF PricedAlike
  <2>1. rows = RowsOf(How, acc)
    BY DEF IInv, RowsMade, Written
  <2> QED
    BY <2>1, AccKept, RowsAlike
<1> QED
  BY <1>1, Invariance, PTL

(* No price is published that the document does not list for its row and   *)
(* region, whatever the order items are read in and the ids they share; and *)
(* a global price only stands in for one that is missing (the loops of      *)
(* ingest(), and the completion of rows after them).                        *)
THEOREM PricesAsListedCorrect == Spec => []PricesAsListed
<1>1. IInv => PricesAsListed
  <2> SUFFICES ASSUME IInv, Written, NEW r \in rows, NEW p \in r.prices, p.n # Nobody
               PROVE
    \E i \in feed.doc : \E s \in UNION Range(How.sells) :
      /\ i.n = p.n /\ s[1] = r.name /\ At(How.shown, s[2], s[2]) = p.dim
      /\ \/ p.usd \in {t.usd : t \in Range(i.rates)}
         \/ /\ p.usd = 0
            /\ \/ s \in How.free
               \/ s[2] \in DOMAIN How.ladder
               \/ How.rate = "split" /\ s[2] = "free"
      /\ \/ Offers(How, i, r.name, s[2], r.region)
         \/ /\ Offers(How, i, r.name, s[2], "global")
            /\ ~\E j \in feed.doc :
                 Offers(How, j, r.name, s[2], r.region) /\ Usable(How, j, s[2], r.region)
    BY DEF PricesAsListed
  <2>1. rows = RowsOf(How, acc) /\ ~Malformed(How, acc) /\ todo = {} /\ phase # "raised"
    BY DEF IInv, RowsMade, Written
  <2>2. PICK row \in Opened(How, acc) :
           /\ Whole(How, row, Parts(How, acc, row))
           /\ r.name = row.name /\ r.region = row.region
           /\ r.prices = PriceList(How, row, Parts(How, acc, row))
    BY <2>1, RowsAre
  <2>3. PICK q \in Parts(How, acc, row) : p = Published(How, q)
    <3>1. CASE row.name \in How.summed
      BY <2>2, <3>1, PricesAre
    <3>2. CASE row.name \notin How.summed
      BY <2>2, <3>2, PricesAre
    <3> QED
      BY <3>1, <3>2
  <2>4. p.n = q.n /\ p.usd = q.usd /\ p.dim = At(How.shown, q.dim, q.dim)
    BY <2>3 DEF Published
  <2>5. q.to # 0
    BY <2>1, <2>2 DEF Malformed
  <2>6. CASE q \in OwnParts(How, acc, row)
    <3>1. PICK i \in feed.doc : ListedFor(How, i, row.name, q.dim, row.region, q)
      BY <2>5, <2>6, OwnListed
    <3> WITNESS i \in feed.doc
    <3>2. <<row.name, q.dim>> \in UNION Range(How.sells)
      BY <3>1 DEF ListedFor
    <3> WITNESS <<row.name, q.dim>> \in UNION Range(How.sells)
    <3> QED
      BY <2>2, <2>4, <3>1 DEF ListedFor
  <2>7. CASE q \in WideParts(How, acc, row)
    <3>1. PICK i \in feed.doc : ListedFor(How, i, row.name, q.dim, "global", q)
      BY <2>1, <2>5, <2>7, WideListed
    <3>2. \A j \in feed.doc :
            ~(Offers(How, j, row.name, q.dim, row.region) /\ Usable(How, j, q.dim, row.region))
      BY <2>1, <2>5, <2>7, WideListed
    <3> WITNESS i \in feed.doc
    <3>3. <<row.name, q.dim>> \in UNION Range(How.sells)
      BY <3>1 DEF ListedFor
    <3> WITNESS <<row.name, q.dim>> \in UNION Range(How.sells)
    <3> QED
      BY <2>2, <2>4, <3>1, <3>2 DEF ListedFor
  <2>8. CASE \E s \in Lacking(How, acc, row) : q = ByDefault(How, row, s)
    BY <2>4, <2>8 DEF ByDefault
  <2> QED
    BY <2>6, <2>7, <2>8, PartsAre
<1> QED
  BY <1>1, Invariance, PTL

(* What is sold in a region is published there: no source loses a row of   *)
(* an unambiguous document, whatever the order of its items and whichever  *)
(* of them come from the global list (ingest() of each module, but for the *)
(* sources whose items make tiers together).                               *)
THEOREM RowsWhereSoldCorrect == Spec => []RowsWhereSold
<1>1. IInv => RowsWhereSold
  <2> SUFFICES ASSUME IInv, Written, Unambiguous(How, feed.doc), How.ladder = <<>>,
                      NEW m \in {s[1] : s \in UNION Range(How.sells)}, NEW r \in Tracked,
                      \A d \in {s[2] : s \in {t \in UNION Range(How.sells) : t[1] = m}} :
                        \/ \E i \in feed.doc : Offers(How, i, m, d, r) /\ Usable(How, i, d, r)
                        \/ /\ d \in How.spread
                           /\ \E i \in feed.doc :
                                Offers(How, i, m, d, "global") /\ Usable(How, i, d, "global")
               PROVE  \E row \in rows : row.name = m /\ row.region = r
    BY DEF RowsWhereSold
  <2>1. rows = RowsOf(How, acc) /\ AllKept
    BY DEF IInv, RowsMade, Written, AllKept
  <2>2. /\ SoldDims(m) # {}
        /\ \A d \in SoldDims(m) : Sold(m, d, r) \/ (d \in How.spread /\ Sold(m, d, "global"))
    BY DEF SoldDims, Sold
  <2>3. CASE How.spread = {}
    BY <2>1, <2>2, <2>3, SoldWithoutSpread
  <2>4. CASE How.spread # {}
    BY <2>1, <2>2, <2>4, SoldWithSpread
  <2> QED
    BY <2>3, <2>4
<1> QED
  BY <1>1, Invariance, PTL
-----------------------------------------------------------------------------
LEMMA StartsFinite == IsFiniteSet(0..Unbounded - 1)
<1> DEFINE last == Unbounded - 1
<1>1. last \in Int /\ 0 \in Int
  BY DEF Unbounded
<1> HIDE DEF last
<1>2. IsFiniteSet(0..last)
  BY <1>1, FS_Interval
<1> QED
  BY <1>2 DEF last

(* The start that follows another one is the next one. *)
LEMMA FollowingIs ==
  ASSUME NEW S \in SUBSET (0..Unbounded - 1), NEW b
  PROVE  \/ /\ Following(S, b) = Unbounded
            /\ \A c \in S : ~(c > b)
         \/ /\ Following(S, b) \in S /\ Following(S, b) > b
            /\ \A c \in S : c > b => Following(S, b) <= c
<1> DEFINE later == {c \in S : c > b}
<1>1. CASE later = {}
  BY <1>1 DEF Following
<1>2. CASE later # {}
  <2>1. \A x \in later : x \in 0..8
    BY DEF Unbounded
  <2>2. IsFiniteSet(later) /\ later \in SUBSET Nat
    <3>1. IsFiniteSet(0..8)
      BY StartsFinite DEF Unbounded
    <3> HIDE DEF later
    <3>2. later \in SUBSET (0..8)
      BY <2>1
    <3>3. IsFiniteSet(later)
      BY <3>1, <3>2, FS_Subset
    <3> QED
      BY <3>2, <3>3
  <2>3. \E x \in later : \A y \in later : x <= y
    BY <1>2, <2>2, Extremes
  <2>4. Min(later) \in later /\ \A y \in later : Min(later) <= y
    BY <2>3 DEF Min
  <2>5. Following(S, b) = Min(later)
    BY <1>2 DEF Following
  <2> QED
    BY <2>4, <2>5
<1> QED
  BY <1>1, <1>2

(* The starts of an item's rates tell the rates apart, and there are as    *)
(* many of them.                                                           *)
StartsOf(i) == {t.from : t \in Range(i.rates)}

LEMMA StartsAre ==
  ASSUME NEW i, Item(i)
  PROVE  /\ StartsOf(i) \in SUBSET (0..Unbounded - 1)
         /\ IsFiniteSet(StartsOf(i))
         /\ \A t, u \in Range(i.rates) : t.from = u.from => t = u
         /\ Cardinality(StartsOf(i)) = Len(i.rates)
<1>1. \A t \in Range(i.rates) : t.from \in 0..Unbounded - 1
  BY RatesAre DEF Rate
<1>2. StartsOf(i) \in SUBSET (0..Unbounded - 1)
  BY <1>1 DEF StartsOf
<1>3. IsFiniteSet(StartsOf(i))
  <2>1. IsFiniteSet(0..Unbounded - 1)
    BY StartsFinite
  <2> QED
    BY <1>2, <2>1, FS_Subset
<1>4. \A t, u \in Range(i.rates) : t.from = u.from => t = u
  BY DEF Item, Range
<1> DEFINE len == Len(i.rates)
           f == [k \in 1..len |-> i.rates[k].from]
<1>5. len \in Nat /\ DOMAIN i.rates = 1..len
  BY DEF Item
<1>6. f \in Surjection(1..len, StartsOf(i))
  <2>1. \A k \in 1..len : i.rates[k].from \in StartsOf(i)
    BY <1>5 DEF StartsOf, Range
  <2>2. \A x \in StartsOf(i) : \E k \in 1..len : i.rates[k].from = x
    BY <1>5 DEF StartsOf, Range
  <2> HIDE DEF len
  <2> QED
    BY <2>1, <2>2 DEF Surjection
<1>7. f \in Injection(1..len, StartsOf(i))
  <2>1. \A k, l \in 1..len : k # l => i.rates[k].from # i.rates[l].from
    BY <1>5 DEF Item
  <2> HIDE DEF len
  <2> QED
    BY <1>6, <2>1 DEF Surjection, Injection, IsInjective
<1>8. Cardinality(StartsOf(i)) = len
  <2>1. IsFiniteSet(1..len) /\ Cardinality(1..len) = len
    BY <1>5, FS_Interval
  <2> HIDE DEF f, len
  <2> QED
    BY <1>6, <1>7, <2>1, FS_Surjection
<1> QED
  BY <1>2, <1>3, <1>4, <1>8

(* The place of a start among all of them, from 1. *)
UpTo(S, x) == Cardinality({c \in S : c <= x})

LEMMA Places1 ==
  ASSUME NEW S \in SUBSET Nat, IsFiniteSet(S)
  PROVE  /\ Cardinality(S) \in Nat
         /\ \A x \in S : UpTo(S, x) \in 1..Cardinality(S)
         /\ \A x, y \in S : x < y => UpTo(S, x) < UpTo(S, y)
         /\ \A k \in 1..Cardinality(S) : \E x \in S : UpTo(S, x) = k
<1> DEFINE R == {x \in S \X S : x[1] < x[2]}
           n == Cardinality(S)
           rank(x) == Cardinality(Below(S, R, x))
<1>1. \A x, y \in S : <<x, y>> \in R <=> x < y
  OBVIOUS
<1>2. StrictOrder(S, R)
  <2> HIDE DEF R
  <2> QED
    BY <1>1 DEF StrictOrder
<1>3. ASSUME NEW x \in S PROVE UpTo(S, x) = rank(x) + 1
  <2>1. {c \in S : c <= x} = Below(S, R, x) \union {x}
    <3> HIDE DEF R
    <3>1. ASSUME NEW c \in S PROVE c <= x <=> c = x \/ <<c, x>> \in R
      <4>1. c \in Nat /\ x \in Nat
        OBVIOUS
      <4>2. c <= x <=> c = x \/ c < x
        BY <4>1
      <4> QED
        BY <1>1, <4>2
    <3> QED
      BY <3>1 DEF Below
  <2>2. x \notin Below(S, R, x) /\ Below(S, R, x) \in SUBSET S
    <3> HIDE DEF R
    <3>1. <<x, x>> \notin R
      BY <1>2 DEF StrictOrder
    <3> QED
      BY <3>1 DEF Below
  <2>3. IsFiniteSet(Below(S, R, x))
    BY <2>2, FS_Subset
  <2> HIDE DEF R
  <2> QED
    BY <2>1, <2>2, <2>3, FS_AddElement DEF UpTo
<1> HIDE DEF R
<1>4. /\ n \in Nat
      /\ \A x \in S : rank(x) \in 0..n - 1
      /\ \A x, y \in S : <<x, y>> \in R => rank(x) < rank(y)
      /\ \A k \in 0..n - 1 : \E x \in S : rank(x) = k
  BY <1>2, Ranks
<1> HIDE DEF rank, n
<1>5. \A x \in S : UpTo(S, x) \in 1..n
  <2>1. ASSUME NEW x \in S PROVE UpTo(S, x) \in 1..n
    <3>1. rank(x) \in 0..n - 1
      BY <1>4
    <3> QED
      BY <1>3, <1>4, <3>1
  <2> QED
    BY <2>1
<1>6. ASSUME NEW x \in S, NEW y \in S, x < y PROVE UpTo(S, x) < UpTo(S, y)
  <2>1. rank(x) < rank(y)
    BY <1>1, <1>4, <1>6
  <2>2. rank(x) \in 0..n - 1 /\ rank(y) \in 0..n - 1
    BY <1>4
  <2>3. UpTo(S, x) = rank(x) + 1 /\ UpTo(S, y) = rank(y) + 1
    BY <1>3
  <2> QED
    BY <1>4, <2>1, <2>2, <2>3
<1>7. ASSUME NEW k \in 1..n PROVE \E x \in S : UpTo(S, x) = k
  <2>1. k - 1 \in 0..n - 1
    BY <1>4
  <2>2. PICK x \in S : rank(x) = k - 1
    BY <1>4, <2>1
  <2> QED
    BY <1>3, <2>2
<1> QED
  BY <1>4, <1>5, <1>6, <1>7 DEF n

(* What the tiers of an item are, way by way. *)
BoundsRise(how) ==
  \A d \in DOMAIN how.bounds :
    /\ how.bounds[d] \in Seq(0..Unbounded - 1) /\ how.bounds[d] # <<>> /\ how.bounds[d][1] = 0
    /\ \A k, l \in DOMAIN how.bounds[d] : k < l => how.bounds[d][k] < how.bounds[d][l]

FirstPaid(i) == {k \in DOMAIN i.rates : i.rates[k].usd > 0
                                       /\ \A l \in 1..k - 1 : i.rates[l].usd = 0}
Highest(i) == {u \in Range(i.rates) : Following(StartsOf(i), u.from) = Unbounded}
Chained(i, t) == [t EXCEPT !.to = Following(StartsOf(i), t.from)]
Zipped(b, i, t) ==
  [from |-> b[UpTo(StartsOf(i), t.from)],
   to |-> Following(Range(b), b[UpTo(StartsOf(i), t.from)]), usd |-> t.usd]

LEMMA TiersAre ==
  ASSUME NEW how, how.rate \in Ways, NEW i, NEW d, Tiers(how, i, d) # {}
  PROVE  \/ Tiers(how, i, d) = Flat(Head(i.rates).usd)
         \/ Tiers(how, i, d) = UNION {Flat(i.rates[k].usd) : k \in FirstPaid(i)}
         \/ Tiers(how, i, d) = UNION {Flat(t.usd) : t \in Highest(i)}
         \/ Tiers(how, i, d) = Range(i.rates) /\ how.rate = "stated"
         \/ Tiers(how, i, d) = {Chained(i, t) : t \in Range(i.rates)} /\ how.rate = "chain"
         \/ /\ how.rate = "zip" /\ d \in DOMAIN how.bounds
            /\ Len(i.rates) # Len(how.bounds[d]) /\ Tiers(how, i, d) = {Misfit}
         \/ /\ how.rate = "zip" /\ d \in DOMAIN how.bounds
            /\ Len(i.rates) = Len(how.bounds[d])
            /\ Tiers(how, i, d) = {Zipped(how.bounds[d], i, t) : t \in Range(i.rates)}
         \/ /\ how.rate = "open" /\ d \in DOMAIN how.ladder
            /\ Tiers(how, i, d) = {[Head(i.rates) EXCEPT !.to = Unbounded]}
         \/ /\ how.rate = "split" /\ d = "free"
            /\ Tiers(how, i, d) = {[t EXCEPT !.usd = 0] : t \in LastOf(i, d)}
         \/ /\ how.rate = "split" /\ d # "free"
            /\ Tiers(how, i, d) = {[t EXCEPT !.to = Unbounded] : t \in LastOf(i, d)}
<1>1. ~(d \in how.based /\ Head(i.rates).from # 0)
  BY DEF Tiers
<1>2. CASE how.rate = "head"
  BY <1>1, <1>2 DEF Tiers
<1>3. CASE how.rate = "positive"
  BY <1>1, <1>3 DEF Tiers, FirstPaid
<1>4. CASE how.rate = "top"
  BY <1>1, <1>4 DEF Tiers, Highest, StartsOf
<1>5. CASE how.rate = "stated"
  BY <1>1, <1>5 DEF Tiers
<1>6. CASE how.rate = "chain"
  BY <1>1, <1>6 DEF Tiers, Chained, StartsOf
<1>7. CASE how.rate = "zip"
  <2>1. CASE d \notin DOMAIN how.bounds
    BY <1>1, <1>7, <2>1 DEF Tiers
  <2>2. CASE d \in DOMAIN how.bounds /\ Len(i.rates) # Len(how.bounds[d])
    BY <1>1, <1>7, <2>2 DEF Tiers
  <2>3. CASE d \in DOMAIN how.bounds /\ Len(i.rates) = Len(how.bounds[d])
    BY <1>1, <1>7, <2>3 DEF Tiers, Zipped, UpTo, StartsOf
  <2> QED
    BY <1>7, <2>1, <2>2, <2>3
<1>8. CASE how.rate = "open"
  BY <1>1, <1>8 DEF Tiers
<1>9. CASE how.rate = "split"
  BY <1>1, <1>9 DEF Tiers, LastOf, HalfOf
<1> QED
  BY <1>2, <1>3, <1>4, <1>5, <1>6, <1>7, <1>8, <1>9 DEF Ways

(* A rate that nothing follows is the only one. *)
LEMMA OneHighest ==
  ASSUME NEW i, Item(i), NEW t \in Highest(i), NEW u \in Highest(i)
  PROVE  t = u
<1>1. /\ StartsOf(i) \in SUBSET (0..Unbounded - 1)
      /\ \A v, w \in Range(i.rates) : v.from = w.from => v = w
  BY StartsAre
<1>2. t.from \in StartsOf(i) /\ u.from \in StartsOf(i)
  BY DEF Highest, StartsOf
<1>3. t.from \in 0..8 /\ u.from \in 0..8 /\ Unbounded \notin StartsOf(i)
  BY <1>1, <1>2 DEF Unbounded
<1>4. ASSUME NEW v \in Highest(i), NEW c \in StartsOf(i) PROVE ~(c > v.from)
  <2>1. Following(StartsOf(i), v.from) = Unbounded
    BY DEF Highest
  <2> QED
    BY <1>1, <1>3, <2>1, FollowingIs
<1>5. ~(u.from > t.from) /\ ~(t.from > u.from)
  BY <1>2, <1>4
<1> QED
  BY <1>1, <1>3, <1>5 DEF Highest

LEMMA OneFirstPaid ==
  ASSUME NEW i, Item(i), NEW k \in FirstPaid(i), NEW l \in FirstPaid(i)
  PROVE  k = l
<1>1. k \in Nat /\ l \in Nat /\ k >= 1 /\ l >= 1
  BY DEF FirstPaid, Item
<1>2. ~(k < l)
  BY <1>1 DEF FirstPaid
<1>3. ~(l < k)
  BY <1>1 DEF FirstPaid
<1> QED
  BY <1>1, <1>2, <1>3

LEMMA OneLast ==
  ASSUME NEW i, Item(i), NEW d, NEW t \in LastOf(i, d), NEW u \in LastOf(i, d)
  PROVE  t = u
<1>1. PICK k \in HalfOf(i, d) : t = i.rates[k] /\ \A x \in HalfOf(i, d) : x <= k
  BY DEF LastOf
<1>2. PICK l \in HalfOf(i, d) : u = i.rates[l] /\ \A x \in HalfOf(i, d) : x <= l
  BY DEF LastOf
<1>3. k \in Nat /\ l \in Nat
  BY DEF HalfOf, Item
<1>4. k = l
  BY <1>1, <1>2, <1>3
<1> QED
  BY <1>1, <1>2, <1>4

(* The tiers of an item start at different points. *)
LEMMA ZippedApart ==
  ASSUME NEW b, b \in Seq(0..Unbounded - 1), \A k, l \in DOMAIN b : k < l => b[k] < b[l],
         NEW i, Item(i), Len(i.rates) = Len(b),
         NEW t \in Range(i.rates), NEW u \in Range(i.rates),
         Zipped(b, i, t).from = Zipped(b, i, u).from
  PROVE  t = u
<1> DEFINE S == StartsOf(i)
<1>1. /\ S \in SUBSET Nat /\ IsFiniteSet(S) /\ Cardinality(S) = Len(b)
      /\ (t.from = u.from => t = u)
  BY StartsAre DEF Unbounded
<1>2. t.from \in S /\ u.from \in S
  BY DEF StartsOf
<1> HIDE DEF S
<1>3. /\ UpTo(S, t.from) \in 1..Len(b) /\ UpTo(S, u.from) \in 1..Len(b)
      /\ t.from < u.from => UpTo(S, t.from) < UpTo(S, u.from)
      /\ u.from < t.from => UpTo(S, u.from) < UpTo(S, t.from)
  BY <1>1, <1>2, Places1
<1>4. b[UpTo(S, t.from)] = b[UpTo(S, u.from)]
  BY DEF Zipped, S
<1>5. /\ DOMAIN b = 1..Len(b)
      /\ \A k \in DOMAIN b : b[k] \in 0..8
  BY DEF Unbounded
<1> DEFINE k == UpTo(S, t.from)
           l == UpTo(S, u.from)
<1>6. k \in DOMAIN b /\ l \in DOMAIN b
  BY <1>3, <1>5
<1> HIDE DEF k, l
<1>7. k < l => b[k] < b[l]
  BY <1>6
<1>8. l < k => b[l] < b[k]
  BY <1>6
<1>9. b[k] \in 0..8 /\ b[l] \in 0..8 /\ b[k] = b[l]
  BY <1>4, <1>5, <1>6 DEF k, l
<1>10. ~(k < l) /\ ~(l < k)
  BY <1>7, <1>8, <1>9
<1>11. ~(t.from < u.from) /\ ~(u.from < t.from)
  BY <1>3, <1>10 DEF k, l
<1> QED
  BY <1>1, <1>2, <1>11 DEF S

LEMMA TiersApart ==
  ASSUME NEW how, how.rate \in Ways, BoundsRise(how), NEW i, Item(i), NEW d,
         NEW t \in Tiers(how, i, d), NEW u \in Tiers(how, i, d), t.from = u.from
  PROVE  t = u
<1>1. \A x : \A v, w \in Flat(x) : v = w
  BY DEF Flat
<1>2. /\ \A v \in Range(i.rates) :
           v \in [from : 0..Unbounded - 1, to : 1..Unbounded, usd : Nat]
      /\ \A v, w \in Range(i.rates) : v.from = w.from => v = w
  BY RatesAre, StartsAre DEF Rate
<1>3. CASE Tiers(how, i, d) = Flat(Head(i.rates).usd)
  BY <1>1, <1>3
<1>4. CASE Tiers(how, i, d) = UNION {Flat(i.rates[k].usd) : k \in FirstPaid(i)}
  <2>1. PICK k \in FirstPaid(i) : t \in Flat(i.rates[k].usd)
    BY <1>4
  <2>2. PICK l \in FirstPaid(i) : u \in Flat(i.rates[l].usd)
    BY <1>4
  <2>3. k = l
    BY OneFirstPaid
  <2> QED
    BY <1>1, <2>1, <2>2, <2>3
<1>5. CASE Tiers(how, i, d) = UNION {Flat(v.usd) : v \in Highest(i)}
  <2>1. PICK v \in Highest(i) : t \in Flat(v.usd)
    BY <1>5
  <2>2. PICK w \in Highest(i) : u \in Flat(w.usd)
    BY <1>5
  <2>3. v = w
    BY OneHighest
  <2> QED
    BY <1>1, <2>1, <2>2, <2>3
<1>6. CASE Tiers(how, i, d) = Range(i.rates)
  BY <1>2, <1>6
<1>7. CASE Tiers(how, i, d) = {Chained(i, v) : v \in Range(i.rates)}
  <2>1. PICK v \in Range(i.rates), w \in Range(i.rates) : t = Chained(i, v) /\ u = Chained(i, w)
    BY <1>7
  <2>2. t.from = v.from /\ u.from = w.from
    BY <1>2, <2>1 DEF Chained
  <2> QED
    BY <1>2, <2>1, <2>2
<1>8. CASE Tiers(how, i, d) = {Misfit}
  BY <1>8
<1>9. CASE /\ d \in DOMAIN how.bounds /\ Len(i.rates) = Len(how.bounds[d])
           /\ Tiers(how, i, d) = {Zipped(how.bounds[d], i, v) : v \in Range(i.rates)}
  <2>1. PICK v \in Range(i.rates), w \in Range(i.rates) :
          t = Zipped(how.bounds[d], i, v) /\ u = Zipped(how.bounds[d], i, w)
    BY <1>9
  <2> DEFINE b == how.bounds[d]
  <2>2. b \in Seq(0..Unbounded - 1) /\ \A k, l \in DOMAIN b : k < l => b[k] < b[l]
    BY <1>9 DEF BoundsRise
  <2>3. Len(i.rates) = Len(b) /\ Zipped(b, i, v).from = Zipped(b, i, w).from
    BY <1>9, <2>1
  <2> HIDE DEF b
  <2>4. v = w
    BY <2>2, <2>3, ZippedApart
  <2> QED
    BY <2>1, <2>4
<1>10. CASE Tiers(how, i, d) = {[Head(i.rates) EXCEPT !.to = Unbounded]}
  BY <1>10
<1>11. CASE Tiers(how, i, d) = {[v EXCEPT !.usd = 0] : v \in LastOf(i, d)}
  <2>1. PICK v \in LastOf(i, d), w \in LastOf(i, d) :
          t = [v EXCEPT !.usd = 0] /\ u = [w EXCEPT !.usd = 0]
    BY <1>11
  <2>2. v = w
    BY OneLast
  <2> QED
    BY <2>1, <2>2
<1>12. CASE Tiers(how, i, d) = {[v EXCEPT !.to = Unbounded] : v \in LastOf(i, d)}
  <2>1. PICK v \in LastOf(i, d), w \in LastOf(i, d) :
          t = [v EXCEPT !.to = Unbounded] /\ u = [w EXCEPT !.to = Unbounded]
    BY <1>12
  <2>2. v = w
    BY OneLast
  <2> QED
    BY <2>1, <2>2
<1>13. \/ Tiers(how, i, d) = Flat(Head(i.rates).usd)
       \/ Tiers(how, i, d) = UNION {Flat(i.rates[k].usd) : k \in FirstPaid(i)}
       \/ Tiers(how, i, d) = UNION {Flat(v.usd) : v \in Highest(i)}
       \/ Tiers(how, i, d) = Range(i.rates)
       \/ Tiers(how, i, d) = {Chained(i, v) : v \in Range(i.rates)}
       \/ Tiers(how, i, d) = {Misfit}
       \/ /\ d \in DOMAIN how.bounds /\ Len(i.rates) = Len(how.bounds[d])
          /\ Tiers(how, i, d) = {Zipped(how.bounds[d], i, v) : v \in Range(i.rates)}
       \/ Tiers(how, i, d) = {[Head(i.rates) EXCEPT !.to = Unbounded]}
       \/ Tiers(how, i, d) = {[v EXCEPT !.usd = 0] : v \in LastOf(i, d)}
       \/ Tiers(how, i, d) = {[v EXCEPT !.to = Unbounded] : v \in LastOf(i, d)}
  BY TiersAre, Zenon
<1> QED
  BY <1>3, <1>4, <1>5, <1>6, <1>7, <1>8, <1>9, <1>10, <1>11, <1>12, <1>13

-----------------------------------------------------------------------------
(* Prices that make tiers together are told apart and put in order by an    *)
(* amount and then by the number of their items.                           *)
Before(S, f, g, x) == {y \in S : f[y] < f[x] \/ (f[y] = f[x] /\ g[y] < g[x])}

LEMMA LexRanks ==
  ASSUME NEW S, IsFiniteSet(S), NEW f \in [S -> Int], NEW g \in [S -> Int],
         \A x, y \in S : g[x] = g[y] => x = y
  PROVE  /\ Cardinality(S) \in Nat
         /\ \A x \in S : Cardinality(Before(S, f, g, x)) \in 0..Cardinality(S) - 1
         /\ \A x, y \in S :
              Cardinality(Before(S, f, g, x)) = Cardinality(Before(S, f, g, y)) => x = y
         /\ \A k \in 0..Cardinality(S) - 1 :
              \E x \in S : Cardinality(Before(S, f, g, x)) = k
         /\ \A x \in S : Before(S, f, g, x) = {} <=> Cardinality(Before(S, f, g, x)) = 0
<1> DEFINE R == {x \in S \X S : f[x[1]] < f[x[2]] \/ (f[x[1]] = f[x[2]] /\ g[x[1]] < g[x[2]])}
           n == Cardinality(S)
           rank(x) == Cardinality(Below(S, R, x))
<1>1. \A x, y \in S : <<x, y>> \in R <=> f[x] < f[y] \/ (f[x] = f[y] /\ g[x] < g[y])
  OBVIOUS
<1> HIDE DEF R
<1>2. StrictOrder(S, R)
  <2>1. \A x \in S : f[x] \in Int /\ g[x] \in Int
    OBVIOUS
  <2>2. \A x \in S : <<x, x>> \notin R
    BY <1>1, <2>1
  <2>3. \A x, y, z \in S : <<x, y>> \in R /\ <<y, z>> \in R => <<x, z>> \in R
    BY <1>1, <2>1
  <2>4. \A x, y \in S : x # y => <<x, y>> \in R \/ <<y, x>> \in R
    BY <1>1, <2>1
  <2> QED
    BY <2>2, <2>3, <2>4 DEF StrictOrder
<1>3. \A x \in S : Before(S, f, g, x) = Below(S, R, x)
  BY <1>1 DEF Before, Below
<1>4. /\ n \in Nat
      /\ \A x \in S : rank(x) \in 0..n - 1
      /\ \A x, y \in S : <<x, y>> \in R => rank(x) < rank(y)
      /\ \A k \in 0..n - 1 : \E x \in S : rank(x) = k
  BY <1>2, Ranks
<1>5. \A x \in S : Below(S, R, x) = {} <=> rank(x) = 0
  <2>1. \A x \in S : IsFiniteSet(Below(S, R, x))
    BY FS_Subset DEF Below
  <2> QED
    BY <2>1, FS_EmptySet
<1> HIDE DEF rank, n
<1>6. ASSUME NEW x \in S, NEW y \in S, rank(x) = rank(y) PROVE x = y
  <2>1. rank(x) \in 0..n - 1 /\ rank(y) \in 0..n - 1
    BY <1>4
  <2>2. <<x, y>> \notin R
    <3>1. <<x, y>> \in R => rank(x) < rank(y)
      BY <1>4
    <3> QED
      BY <1>4, <1>6, <2>1, <3>1
  <2>3. <<y, x>> \notin R
    <3>1. <<y, x>> \in R => rank(y) < rank(x)
      BY <1>4
    <3> QED
      BY <1>4, <1>6, <2>1, <3>1
  <2> QED
    BY <1>2, <2>2, <2>3 DEF StrictOrder
<1> QED
  BY <1>3, <1>4, <1>5, <1>6 DEF rank, n

(* Prices of one cell, each of an item of its own. *)
Rungable(ps) ==
  /\ IsFiniteSet(ps)
  /\ \A p \in ps : IsPrice(p) /\ {p.n, p.usd, p.from} \subseteq Nat
  /\ \A p, q \in ps : p.n = q.n => p = q

Dearer(ps, p) == {q \in ps : q.usd > p.usd \/ (q.usd = p.usd /\ q.n < p.n)}
Earlier(ps, p) == {q \in ps : q.from < p.from \/ (q.from = p.from /\ q.n < p.n)}

LEMMA DearerRanks ==
  ASSUME NEW ps, Rungable(ps)
  PROVE  /\ Cardinality(ps) \in Nat
         /\ \A p \in ps : Cardinality(Dearer(ps, p)) \in 0..Cardinality(ps) - 1
         /\ \A p, q \in ps : Cardinality(Dearer(ps, p)) = Cardinality(Dearer(ps, q)) => p = q
         /\ \A k \in 0..Cardinality(ps) - 1 : \E p \in ps : Cardinality(Dearer(ps, p)) = k
         /\ \A p \in ps : Dearer(ps, p) = {} <=> Cardinality(Dearer(ps, p)) = 0
<1> DEFINE f == [p \in ps |-> 0 - p.usd]
           g == [p \in ps |-> p.n]
<1>1. \A p \in ps : p.usd \in Nat /\ p.n \in Nat
  BY DEF Rungable
<1>2. f \in [ps -> Int] /\ g \in [ps -> Int]
  BY <1>1
<1>3. IsFiniteSet(ps) /\ \A p, q \in ps : g[p] = g[q] => p = q
  BY DEF Rungable
<1>4. \A p \in ps : Before(ps, f, g, p) = Dearer(ps, p)
  <2>1. \A p, q \in ps : (f[q] < f[p] <=> q.usd > p.usd) /\ (f[q] = f[p] <=> q.usd = p.usd)
    BY <1>1
  <2>2. \A p \in ps : g[p] = p.n
    OBVIOUS
  <2> HIDE DEF f, g
  <2> QED
    BY <2>1, <2>2 DEF Before, Dearer
<1> HIDE DEF f, g
<1>5. /\ Cardinality(ps) \in Nat
      /\ \A x \in ps : Cardinality(Before(ps, f, g, x)) \in 0..Cardinality(ps) - 1
      /\ \A x, y \in ps :
           Cardinality(Before(ps, f, g, x)) = Cardinality(Before(ps, f, g, y)) => x = y
      /\ \A k \in 0..Cardinality(ps) - 1 :
           \E x \in ps : Cardinality(Before(ps, f, g, x)) = k
      /\ \A x \in ps : Before(ps, f, g, x) = {} <=> Cardinality(Before(ps, f, g, x)) = 0
  BY <1>2, <1>3, LexRanks
<1> QED
  BY <1>4, <1>5

LEMMA EarlierRanks ==
  ASSUME NEW ps, Rungable(ps)
  PROVE  /\ Cardinality(ps) \in Nat
         /\ \A p \in ps : Cardinality(Earlier(ps, p)) \in 0..Cardinality(ps) - 1
         /\ \A p, q \in ps : Cardinality(Earlier(ps, p)) = Cardinality(Earlier(ps, q)) => p = q
         /\ \A k \in 0..Cardinality(ps) - 1 : \E p \in ps : Cardinality(Earlier(ps, p)) = k
         /\ \A p \in ps : Earlier(ps, p) = {} <=> Cardinality(Earlier(ps, p)) = 0
<1> DEFINE f == [p \in ps |-> p.from]
           g == [p \in ps |-> p.n]
<1>1. \A p \in ps : p.from \in Nat /\ p.n \in Nat
  BY DEF Rungable
<1>2. f \in [ps -> Int] /\ g \in [ps -> Int]
  BY <1>1
<1>3. IsFiniteSet(ps) /\ \A p, q \in ps : g[p] = g[q] => p = q
  BY DEF Rungable
<1>4. \A p \in ps : Before(ps, f, g, p) = Earlier(ps, p)
  <2>1. \A p \in ps : f[p] = p.from /\ g[p] = p.n
    OBVIOUS
  <2> HIDE DEF f, g
  <2> QED
    BY <2>1 DEF Before, Earlier
<1> HIDE DEF f, g
<1>5. /\ Cardinality(ps) \in Nat
      /\ \A x \in ps : Cardinality(Before(ps, f, g, x)) \in 0..Cardinality(ps) - 1
      /\ \A x, y \in ps :
           Cardinality(Before(ps, f, g, x)) = Cardinality(Before(ps, f, g, y)) => x = y
      /\ \A k \in 0..Cardinality(ps) - 1 :
           \E x \in ps : Cardinality(Before(ps, f, g, x)) = k
      /\ \A x \in ps : Before(ps, f, g, x) = {} <=> Cardinality(Before(ps, f, g, x)) = 0
  BY <1>2, <1>3, LexRanks
<1> QED
  BY <1>4, <1>5

(* What the highest of them are, one each. *)
LEMMA FirstOfAll ==
  ASSUME NEW ps, Rungable(ps), ps # {}
  PROVE  /\ \E p \in ps : {q \in ps : Dearer(ps, q) = {}} = {p}
         /\ \E p \in ps : {q \in ps : Earlier(ps, q) = {}} = {p}
         /\ Cardinality(ps) \in Nat /\ Cardinality(ps) >= 1
<1>1. Cardinality(ps) \in Nat /\ Cardinality(ps) # 0
  BY FS_EmptySet, DearerRanks DEF Rungable
<1>2. 0 \in 0..Cardinality(ps) - 1
  BY <1>1
<1>3. PICK p \in ps : Cardinality(Dearer(ps, p)) = 0
  BY <1>2, DearerRanks
<1>4. {q \in ps : Dearer(ps, q) = {}} = {p}
  BY <1>3, DearerRanks
<1>5. PICK q \in ps : Cardinality(Earlier(ps, q)) = 0
  BY <1>2, EarlierRanks
<1>6. {x \in ps : Earlier(ps, x) = {}} = {q}
  BY <1>5, EarlierRanks
<1> QED
  BY <1>1, <1>4, <1>6

(* The tiers they make follow each other. *)
LEMMA Bounded ==
  ASSUME NEW p, IsPrice(p), NEW a, NEW b
  PROVE  /\ [p EXCEPT !.from = a, !.to = b].from = a
         /\ [p EXCEPT !.from = a, !.to = b].to = b
         /\ [p EXCEPT !.from = a, !.to = b, !.usd = 0].from = a
         /\ [p EXCEPT !.from = a, !.to = b, !.usd = 0].to = b
BY DEF IsPrice

LEMMA StepsTile ==
  ASSUME NEW ps, Rungable(ps), ps # {}
  PROVE  Tile(Rungs("steps", ps))
<1> DEFINE N == Cardinality(ps)
           rank(p) == Cardinality(Earlier(ps, p))
           K == Min({N, Tokens})
           bound(k) == IF k + 1 = K THEN Unbounded ELSE k + 1
           step(p) == [p EXCEPT !.from = rank(p), !.to = bound(rank(p))]
           steps == Rungs("steps", ps)
<1>1. N \in Nat /\ N >= 1
  BY FirstOfAll
<1>2. /\ \A p \in ps : rank(p) \in 0..N - 1
      /\ \A p, q \in ps : rank(p) = rank(q) => p = q
      /\ \A k \in 0..N - 1 : \E p \in ps : rank(p) = k
  BY EarlierRanks
<1>3. K = (IF N < 7 THEN N ELSE 7)
  <2> HIDE DEF N
  <2>1. Min({N, 7}) \in {N, 7} /\ \A y \in {N, 7} : Min({N, 7}) <= y
    <3>1. \E x \in {N, 7} : \A y \in {N, 7} : x <= y
      BY <1>1
    <3> QED
      BY <3>1 DEF Min
  <2> QED
    BY <1>1, <2>1 DEF Tokens
<1>4. steps = {step(p) : p \in {q \in ps : rank(q) < Tokens}}
  BY DEF Rungs, Earlier
<1>5. \A p \in ps : step(p).from = rank(p) /\ step(p).to = bound(rank(p))
  <2> HIDE DEF rank, bound
  <2> QED
    BY Bounded DEF Rungable
<1> HIDE DEF N, rank, K, step, steps
<1>6. K \in 1..7 /\ \A p \in ps : rank(p) < Tokens <=> rank(p) \in 0..K - 1
  BY <1>1, <1>2, <1>3 DEF Tokens
<1>7. \A t \in steps : \E p \in ps : t = step(p) /\ rank(p) \in 0..K - 1
  BY <1>4, <1>6
<1>8. \A k \in 0..K - 1 : \E t \in steps : t.from = k /\ t.to = bound(k)
  <2> SUFFICES ASSUME NEW k \in 0..K - 1 PROVE \E t \in steps : t.from = k /\ t.to = bound(k)
    OBVIOUS
  <2>1. k \in 0..N - 1
    BY <1>1, <1>3, <1>6
  <2>2. PICK p \in ps : rank(p) = k
    BY <1>2, <2>1
  <2>3. step(p) \in steps
    BY <1>4, <1>6, <2>2
  <2> QED
    BY <1>5, <2>2, <2>3
<1>9. \A t \in steps : t.from \in 0..K - 1 /\ t.to = bound(t.from)
  BY <1>5, <1>7
<1>10. \A t, u \in steps : t.from = u.from => t = u
  BY <1>2, <1>5, <1>7
<1>11. \E t \in steps : t.from = 0
  BY <1>6, <1>8
<1>12. \A t \in steps : t.from < t.to /\ (t.to = Unbounded \/ \E u \in steps : u.from = t.to)
  <2> SUFFICES ASSUME NEW t \in steps
               PROVE  t.from < t.to /\ (t.to = Unbounded \/ \E u \in steps : u.from = t.to)
    OBVIOUS
  <2>1. CASE t.from + 1 = K
    BY <1>6, <1>9, <2>1 DEF Unbounded
  <2>2. CASE t.from + 1 # K
    <3>1. t.to = t.from + 1 /\ t.from + 1 \in 0..K - 1 /\ t.from < t.from + 1
      BY <1>6, <1>9, <2>2
    <3> QED
      BY <1>8, <3>1
  <2> QED
    BY <2>1, <2>2
<1>13. \A t \in steps : t.from = 0 \/ \E u \in steps : u.to = t.from
  <2> SUFFICES ASSUME NEW t \in steps, t.from # 0 PROVE \E u \in steps : u.to = t.from
    OBVIOUS
  <2>1. t.from \in 0..K - 1
    BY <1>9
  <2>2. t.from - 1 \in 0..K - 1 /\ t.from - 1 + 1 = t.from /\ t.from # K
    BY <1>6, <2>1
  <2>3. PICK u \in steps : u.from = t.from - 1 /\ u.to = bound(t.from - 1)
    BY <1>8, <2>2
  <2> QED
    BY <2>2, <2>3
<1>14. \A t, u \in steps : t # u => t.from # u.from
  BY <1>10
<1> QED
  BY <1>11, <1>12, <1>13, <1>14 DEF Tile, steps

(* One price that is flat tiles, and so do two halves. *)
LEMMA FlatTiles ==
  ASSUME NEW t, t.from = 0, t.to = Unbounded
  PROVE  Tile({t})
BY DEF Tile, Unbounded

LEMMA HalvesTile ==
  ASSUME NEW t, NEW u, t.from = 0, t.to = u.from, u.from \in 1..Unbounded - 1, u.to = Unbounded
  PROVE  Tile({t, u})
BY DEF Tile, Unbounded

(* So do one free tier and three above it. *)
LEMMA FourTile ==
  ASSUME NEW ts, NEW t0 \in ts, NEW t1 \in ts, NEW t2 \in ts, NEW t3 \in ts,
         ts \subseteq {t0, t1, t2, t3},
         t0.from = 0, t0.to = 1, t1.from = 1, t1.to = 2, t2.from = 2, t2.to = 3,
         t3.from = 3, t3.to = Unbounded
  PROVE  Tile(ts)
<1>1. \A t \in ts : t = t0 \/ t = t1 \/ t = t2 \/ t = t3
  OBVIOUS
<1>2. \A t \in ts : t.from < t.to /\ (t.to = Unbounded \/ \E u \in ts : u.from = t.to)
  BY <1>1 DEF Unbounded
<1>3. \A t \in ts : t.from = 0 \/ \E u \in ts : u.to = t.from
  BY <1>1
<1>4. \A t, u \in ts : t # u => t.from # u.from
  BY <1>1
<1> QED
  BY <1>2, <1>3, <1>4 DEF Tile

LEMMA RungsTile ==
  ASSUME NEW way, NEW ps, Rungable(ps), ps # {}, Rungs(way, ps) # {}
  PROVE  Tile(Rungs(way, ps))
<1> DEFINE rank(p) == Cardinality(Dearer(ps, p))
           paid == {p \in ps : way = "falling" \/ Dearer(ps, p) = {}}
           M == Cardinality(paid)
           free(p) == [p EXCEPT !.from = 0, !.to = 1, !.usd = 0]
           rung(p) == [p EXCEPT !.from = 1 + rank(p),
                                !.to = IF rank(p) + 1 = M THEN Unbounded ELSE 2 + rank(p)]
<1>1. /\ Cardinality(ps) \in Nat
      /\ \A p \in ps : rank(p) \in 0..Cardinality(ps) - 1
      /\ \A p, q \in ps : rank(p) = rank(q) => p = q
      /\ \A k \in 0..Cardinality(ps) - 1 : \E p \in ps : rank(p) = k
      /\ \A p \in ps : Dearer(ps, p) = {} <=> rank(p) = 0
  BY DearerRanks
<1>2. PICK top \in ps : {q \in ps : Dearer(ps, q) = {}} = {top}
  BY FirstOfAll
<1>3. rank(top) = 0
  BY <1>1, <1>2
<1>4. \A p \in ps :
         /\ free(p).from = 0 /\ free(p).to = 1
         /\ rung(p).from = 1 + rank(p)
         /\ rung(p).to = IF rank(p) + 1 = M THEN Unbounded ELSE 2 + rank(p)
  <2> HIDE DEF rank, M
  <2> QED
    BY Bounded DEF Rungable
<1>5. CASE way = "steps"
  BY <1>5, StepsTile
<1>6. CASE way = "lowest"
  <2>1. PICK q \in ps : {x \in ps : Earlier(ps, x) = {}} = {q}
    BY FirstOfAll
  <2>2. Rungs(way, ps) =
          {[p EXCEPT !.from = 0, !.to = Unbounded] : p \in {x \in ps : Earlier(ps, x) = {}}}
    BY <1>6 DEF Rungs, Earlier
  <2>3. Rungs(way, ps) = {[q EXCEPT !.from = 0, !.to = Unbounded]}
    BY <2>1, <2>2
  <2>4. [q EXCEPT !.from = 0, !.to = Unbounded].from = 0
        /\ [q EXCEPT !.from = 0, !.to = Unbounded].to = Unbounded
    BY Bounded DEF Rungable
  <2> QED
    BY <2>3, <2>4, FlatTiles
<1>7. CASE way \notin {"steps", "lowest"}
  <2>1. ~(way = "falling" /\ Cardinality(ps) # 3)
    BY <1>7 DEF Rungs
  <2>2. Rungs(way, ps) = {free(p) : p \in {q \in ps : Dearer(ps, q) = {}}}
                         \union {rung(p) : p \in paid}
    BY <1>7, <2>1 DEF Rungs, Dearer
  <2> HIDE DEF rank, rung, free, paid
  <2>3. Rungs(way, ps) = {free(top)} \union {rung(p) : p \in paid}
    BY <1>2, <2>2
  <2>4. CASE way = "falling"
    <3>1. Cardinality(ps) = 3 /\ paid = ps
      BY <2>1, <2>4 DEF paid
    <3>2. PICK p0 \in ps, p1 \in ps, p2 \in ps : rank(p0) = 0 /\ rank(p1) = 1 /\ rank(p2) = 2
      BY <1>1, <3>1
    <3>3. \A p \in ps : p = p0 \/ p = p1 \/ p = p2
      BY <1>1, <3>1, <3>2
    <3>4. Rungs(way, ps) = {free(top), rung(p0), rung(p1), rung(p2)}
      BY <2>3, <3>1, <3>3
    <3>5. /\ free(top).from = 0 /\ free(top).to = 1
          /\ rung(p0).from = 1 /\ rung(p0).to = 2
          /\ rung(p1).from = 2 /\ rung(p1).to = 3
          /\ rung(p2).from = 3 /\ rung(p2).to = Unbounded
      BY <1>4, <3>1, <3>2
    <3> QED
      BY <3>4, <3>5, FourTile
  <2>5. CASE way # "falling"
    <3>1. paid = {top}
      BY <1>2, <2>5 DEF paid
    <3>2. M = 1
      BY <3>1, FS_Singleton
    <3>3. Rungs(way, ps) = {free(top), rung(top)}
      BY <2>3, <3>1
    <3>4. /\ free(top).from = 0 /\ free(top).to = 1
          /\ rung(top).from = 1 /\ rung(top).to = Unbounded
      BY <1>3, <1>4, <3>2
    <3> QED
      BY <3>3, <3>4, HalvesTile DEF Unbounded
  <2> QED
    BY <2>4, <2>5
<1> QED
  BY <1>5, <1>6, <1>7

-----------------------------------------------------------------------------
(* What a price says of the item it is from. *)
FillTier(how, i, p, t) ==
  /\ p = FillOf(how, i, <<p.row.name, p.dim>>, p.row.region, t)
  /\ p.from = t.from /\ p.to = t.to
  /\ p.dim \in how.paid => t.usd > 0

LEMMA FillSays ==
  ASSUME NEW how, \A x \in Priced(how) : IsPair(x), NEW i, NEW p \in Fills(how, i)
  PROVE  /\ Taken(how, i)
         /\ <<p.row.name, p.dim>> \in how.sells[i.kind]
         /\ p.row.region \in Places(how, i)
         /\ p.row.by = (IF p.row.name \in how.own THEN i.n ELSE Nobody)
         /\ p.n = i.n /\ p.id = i.id /\ p.shared = (Len(i.at) > 1)
         /\ \E t \in Tiers(how, i, p.dim) : FillTier(how, i, p, t)
<1>1. Taken(how, i)
  BY FillsMade
<1>2. PICK s \in how.sells[i.kind] : \E r \in Places(how, i) : \E t \in Tiers(how, i, s[2]) :
        (s[2] \in how.paid => t.usd > 0) /\ Made(how, i, p, s, r, t)
  BY FillsAre
<1>3. PICK r \in Places(how, i) : \E t \in Tiers(how, i, s[2]) :
        (s[2] \in how.paid => t.usd > 0) /\ p = FillOf(how, i, s, r, t)
  BY <1>2 DEF Made
<1>4. PICK t \in Tiers(how, i, s[2]) :
        (s[2] \in how.paid => t.usd > 0) /\ p = FillOf(how, i, s, r, t)
  BY <1>3
<1>5. s = <<s[1], s[2]>>
  BY <1>1 DEF Priced, Range, Taken, IsPair
<1>6. /\ p.row.name = s[1] /\ p.dim = s[2] /\ p.row.region = r
      /\ p.row.by = (IF s[1] \in how.own THEN i.n ELSE Nobody)
      /\ p.n = i.n /\ p.id = i.id /\ p.shared = (Len(i.at) > 1)
      /\ p.from = t.from /\ p.to = t.to
  BY <1>4 DEF FillOf
<1>7. s = <<p.row.name, p.dim>>
  BY <1>5, <1>6
<1>8. FillTier(how, i, p, t)
  BY <1>4, <1>6, <1>7 DEF FillTier
<1> QED
  BY <1>1, <1>2, <1>4, <1>6, <1>7, <1>8

(* An item has one price of a cell and start. *)
LEMMA OneTier ==
  ASSUME IInv, NEW i \in feed.doc, NEW p \in Fills(How, i), NEW q \in Fills(How, i),
         Cell(p) = Cell(q), p.from = q.from
  PROVE  p = q
<1>1. feed.src \in DOMAIN Policy /\ Item(i) /\ How.rate \in Ways
      /\ \A x \in Priced(How) : IsPair(x)
  BY PolicyGiven DEF IInv, TypeOK
<1>2. BoundsRise(How)
  BY <1>1, TiersPlain DEF BoundsRise, How
<1>3. PICK t \in Tiers(How, i, p.dim) : FillTier(How, i, p, t)
  BY <1>1, FillSays
<1>4. PICK u \in Tiers(How, i, q.dim) : FillTier(How, i, q, u)
  BY <1>1, FillSays
<1>5. p.row = q.row /\ p.dim = q.dim
  BY DEF Cell
<1>6. t = u
  BY <1>1, <1>2, <1>3, <1>4, <1>5, TiersApart DEF FillTier
<1> QED
  BY <1>3, <1>4, <1>5, <1>6 DEF FillTier

(* Two items price one cell only where the prices add up. *)
LEMMA MetAddUp ==
  ASSUME AllKept, NEW i \in feed.doc, NEW j \in feed.doc, i # j,
         NEW p \in Fills(How, i), NEW q \in Fills(How, j), Cell(p) = Cell(q)
  PROVE  AddUp(How, p, q)
<1>1. /\ \A x \in Priced(How) : IsPair(x)
      /\ i.n # j.n
  BY PolicyGiven DEF AllKept
<1>2. p.row = q.row /\ p.dim = q.dim
  BY DEF Cell
<1>3. p.row.name \notin How.own
  <2>1. p.row.by = (IF p.row.name \in How.own THEN i.n ELSE Nobody)
    BY <1>1, FillSays
  <2>2. q.row.by = (IF q.row.name \in How.own THEN j.n ELSE Nobody)
    BY <1>1, FillSays
  <2> QED
    BY <1>1, <1>2, <2>1, <2>2
<1>4. ~Contend(How, i, j)
  BY DEF AllKept, Unambiguous
<1> QED
  BY <1>2, <1>3, <1>4 DEF Contend

(* What is kept, once all has been read. *)
LEMMA KeptFrom ==
  ASSUME AllKept
  PROVE  /\ IInv
         /\ \A p : p \in acc <=> \E i \in feed.doc : p \in Fills(How, i)
<1>1. acc = Listed(How, feed.doc \ todo)
  BY DEF AllKept, IInv, Gathered
<1>2. feed.doc \ todo = feed.doc
  BY DEF AllKept
<1>3. acc = Listed(How, feed.doc)
  BY <1>1, <1>2
<1> QED
  BY <1>3 DEF Listed, AllKept

(* Where no tiers are made of several items, a cell has one price of a start. *)
LEMMA OneInCell ==
  ASSUME AllKept, NEW p \in acc, NEW q \in acc, Cell(p) = Cell(q), p.from = q.from,
         p.dim \notin DOMAIN How.ladder
  PROVE  p = q
<1>1. PICK i \in feed.doc : p \in Fills(How, i)
  BY KeptFrom
<1>2. PICK j \in feed.doc : q \in Fills(How, j)
  BY KeptFrom
<1>3. CASE i = j
  BY <1>1, <1>2, <1>3, OneTier DEF AllKept
<1>4. CASE i # j
  <2>1. AddUp(How, p, q)
    BY <1>1, <1>2, <1>4, MetAddUp
  <2> QED
    BY <2>1 DEF AddUp, At
<1> QED
  BY <1>3, <1>4

(* A document has finitely many numbers. *)
LEMMA NumbersFew ==
  ASSUME IInv
  PROVE  IsFiniteSet({i.n : i \in feed.doc})
<1> DEFINE ns == {i.n : i \in feed.doc}
           f == [i \in feed.doc |-> i.n]
<1>1. f \in Surjection(feed.doc, ns)
  BY DEF Surjection
<1>2. IsFiniteSet(feed.doc)
  BY FeedsListed DEF IInv
<1> HIDE DEF f, ns
<1>3. IsFiniteSet(ns)
  BY <1>1, <1>2, FS_Surjection
<1> QED
  BY <1>3 DEF ns

(* Those of a dimension with a ladder are of an item each, and few. *)
LEMMA LadderRungable ==
  ASSUME AllKept, NEW row, NEW d \in DOMAIN How.ladder
  PROVE  Rungable({p \in KeptOf(How, acc, row) : p.dim = d})
<1> DEFINE ps == {p \in KeptOf(How, acc, row) : p.dim = d}
           ns == {i.n : i \in feed.doc}
<1>1. /\ feed.src \in DOMAIN Policy /\ feed \in Feeds /\ How.rate \in Ways
      /\ \A x \in Priced(How) : IsPair(x)
      /\ \A i \in feed.doc : Item(i)
      /\ \A i, j \in feed.doc : i.n = j.n => i = j
  BY PolicyGiven DEF AllKept, IInv, TypeOK
<1>2. How.rate \in {"head", "open"}
  <2>1. How.ladder # <<>>
    OBVIOUS
  <2> QED
    BY <1>1, <2>1, TiersPlain DEF How
<1>3. \A p \in ps : p \in acc /\ p.row = row /\ p.dim = d
  BY DEF KeptOf
<1> HIDE DEF ps
<1>4. ASSUME NEW p \in ps
      PROVE  \E i \in feed.doc : p \in Fills(How, i) /\ p.n = i.n /\ {p.n, p.usd, p.from} \subseteq Nat
  <2>1. PICK i \in feed.doc : p \in Fills(How, i)
    BY <1>3, KeptFrom
  <2>2. p.n = i.n
    <3>1. \A x \in Priced(How) : IsPair(x)
      BY <1>1
    <3> QED
      BY <2>1, <3>1, FillSays
  <2>3. Taken(How, i)
    BY <2>1, FillsMade
  <2>4. PICK t \in Tiers(How, i, p.dim) : FillTier(How, i, p, t)
    BY <1>1, <2>1, FillSays
  <2>5. t.from \in Nat /\ t.usd \in Nat
    <3>1. Head(i.rates) \in [from : 0..Unbounded - 1, to : 1..Unbounded, usd : Nat]
      BY <1>1, <2>3, RatesAre DEF Rate, Taken
    <3>2. t \in Flat(Head(i.rates).usd) \/ t = [Head(i.rates) EXCEPT !.to = Unbounded]
      BY <1>2 DEF Tiers
    <3> QED
      BY <3>1, <3>2 DEF Flat
  <2>6. p.usd \in Nat
    BY <2>4, <2>5 DEF FillOf, FillTier
  <2>7. i.n \in Nat
    BY <1>1 DEF Item
  <2> QED
    BY <2>1, <2>2, <2>4, <2>5, <2>6, <2>7 DEF FillTier
<1>5. ASSUME NEW p \in ps, NEW q \in ps, p.n = q.n PROVE p = q
  <2>1. PICK i \in feed.doc : p \in Fills(How, i) /\ p.n = i.n
    BY <1>4
  <2>2. PICK j \in feed.doc : q \in Fills(How, j) /\ q.n = j.n
    BY <1>4
  <2>3. i = j
    BY <1>1, <1>5, <2>1, <2>2
  <2>4. Cell(p) = Cell(q)
    BY <1>3 DEF Cell
  <2>5. p.from = q.from
    <3>1. PICK t \in Tiers(How, i, p.dim) : FillTier(How, i, p, t)
      BY <1>1, <2>1, FillSays
    <3>2. PICK u \in Tiers(How, j, q.dim) : FillTier(How, j, q, u)
      BY <1>1, <2>2, FillSays
    <3>3. t \in Tiers(How, i, d) /\ u \in Tiers(How, i, d)
      BY <1>3, <2>3, <3>1, <3>2
    <3>4. t = u
      BY <1>2, <3>3 DEF Tiers, Flat
    <3> QED
      BY <3>1, <3>2, <3>4 DEF FillTier
  <2> QED
    BY <2>1, <2>2, <2>3, <2>4, <2>5, OneTier DEF AllKept
<1>6. IsFiniteSet(ns)
  BY NumbersFew DEF AllKept
<1>7. IsFiniteSet(ps)
  <2> DEFINE g == [p \in ps |-> p.n]
  <2>1. \A p \in ps : p.n \in ns
    BY <1>4
  <2> HIDE DEF ps, ns
  <2>2. g \in Injection(ps, ns)
    BY <1>5, <2>1 DEF Injection, IsInjective
  <2> HIDE DEF g
  <2> QED
    BY <1>6, <2>2, FS_Injection
<1>8. \A p \in ps : IsPrice(p)
  BY <1>3, AccKept DEF AllKept, IsKept
<1> HIDE DEF ps
<1>9. Rungable(ps)
  BY <1>4, <1>5, <1>7, <1>8 DEF Rungable
<1> QED
  BY <1>9 DEF ps

(* The prices of one dimension, with its ladder, if it has one. *)
OfDim(ps, d) == {p \in ps : p.dim = d}

LEMMA LadderedOf ==
  ASSUME NEW how, NEW ps, \A p \in ps : IsPrice(p), NEW d
  PROVE  OfDim(Laddered(how, ps), d) =
           IF d \in DOMAIN how.ladder THEN Rungs(how.ladder[d], OfDim(ps, d)) ELSE OfDim(ps, d)
<1>1. Laddered(how, ps) = {p \in ps : p.dim \notin DOMAIN how.ladder} \union
                          UNION {Rungs(how.ladder[e], OfDim(ps, e)) : e \in DOMAIN how.ladder}
  BY DEF Laddered, OfDim
<1>2. ASSUME NEW e, NEW way, NEW p \in Rungs(way, OfDim(ps, e)) PROVE p.dim = e
  <2>1. \A q \in OfDim(ps, e) : IsPrice(q) /\ q.dim = e
    BY DEF OfDim
  <2>2. PICK q \in OfDim(ps, e) : Like(p, q)
    BY <2>1, RungsKeep
  <2> QED
    BY <2>1, <2>2 DEF Like
<1>3. CASE d \in DOMAIN how.ladder
  <2>1. ASSUME NEW p \in Laddered(how, ps), p.dim = d
        PROVE  p \in Rungs(how.ladder[d], OfDim(ps, d))
    <3>1. PICK e \in DOMAIN how.ladder : p \in Rungs(how.ladder[e], OfDim(ps, e))
      BY <1>1, <1>3, <2>1
    <3> QED
      BY <1>2, <2>1, <3>1
  <2>2. ASSUME NEW p \in Rungs(how.ladder[d], OfDim(ps, d))
        PROVE  p \in Laddered(how, ps) /\ p.dim = d
    BY <1>1, <1>2, <1>3
  <2>3. \A p : p \in OfDim(Laddered(how, ps), d) <=> p \in Laddered(how, ps) /\ p.dim = d
    BY DEF OfDim
  <2> QED
    BY <1>3, <2>1, <2>2, <2>3
<1>4. CASE d \notin DOMAIN how.ladder
  <2>1. ASSUME NEW p \in Laddered(how, ps), p.dim = d PROVE p \in ps
    <3>1. \A e \in DOMAIN how.ladder : p \notin Rungs(how.ladder[e], OfDim(ps, e))
      BY <1>2, <1>4, <2>1
    <3> QED
      BY <1>1, <3>1
  <2>2. ASSUME NEW p \in ps, p.dim = d PROVE p \in Laddered(how, ps)
    BY <1>1, <1>4, <2>2
  <2>3. OfDim(Laddered(how, ps), d) = OfDim(ps, d)
    BY <2>1, <2>2 DEF OfDim
  <2> QED
    BY <1>4, <2>3
<1> QED
  BY <1>3, <1>4

(* A row's own prices of one dimension start at different points. *)
LEMMA OwnApart ==
  ASSUME AllKept, NEW row, NEW x \in OwnParts(How, acc, row), NEW y \in OwnParts(How, acc, row),
         x.dim = y.dim, x.from = y.from
  PROVE  x = y
<1> DEFINE d == x.dim
           ps == OfDim(KeptOf(How, acc, row), d)
<1>1. \A p \in KeptOf(How, acc, row) : IsPrice(p) /\ p \in acc /\ p.row = row
  BY AccKept DEF AllKept, KeptOf, IsKept
<1>2. x \in OfDim(OwnParts(How, acc, row), d) /\ y \in OfDim(OwnParts(How, acc, row), d)
  BY DEF OfDim
<1>3. OfDim(OwnParts(How, acc, row), d) =
        IF d \in DOMAIN How.ladder THEN Rungs(How.ladder[d], ps) ELSE ps
  BY <1>1, LadderedOf DEF OwnParts
<1>4. CASE d \in DOMAIN How.ladder
  <2>1. Rungable(ps)
    BY <1>4, LadderRungable DEF OfDim
  <2> HIDE DEF ps, d
  <2>2. x \in Rungs(How.ladder[d], ps) /\ y \in Rungs(How.ladder[d], ps)
    BY <1>2, <1>3, <1>4
  <2>3. ps # {}
    BY <1>1, <2>1, <2>2, RungsKeep DEF Rungable
  <2>4. Tile(Rungs(How.ladder[d], ps))
    BY <2>1, <2>2, <2>3, RungsTile
  <2> QED
    BY <2>2, <2>4 DEF Tile
<1>5. CASE d \notin DOMAIN How.ladder
  <2>1. x \in ps /\ y \in ps
    BY <1>2, <1>3, <1>5
  <2>2. x \in acc /\ y \in acc /\ Cell(x) = Cell(y)
    BY <1>1, <2>1 DEF OfDim, Cell
  <2> QED
    BY <1>5, <2>2, OneInCell
<1> QED
  BY <1>4, <1>5

(* So do those a row has in all. *)
LEMMA PartsApart ==
  ASSUME AllKept, NEW row \in Opened(How, acc),
         NEW x \in Parts(How, acc, row), NEW y \in Parts(How, acc, row),
         x.dim = y.dim, x.from = y.from
  PROVE  x = y
<1> DEFINE own == OwnParts(How, acc, row)
           wide == WideParts(How, acc, row)
<1>1. /\ x \in own \/ x \in wide \/ \E s \in Lacking(How, acc, row) : x = ByDefault(How, row, s)
      /\ y \in own \/ y \in wide \/ \E s \in Lacking(How, acc, row) : y = ByDefault(How, row, s)
  BY PartsAre
<1>2. \A p \in wide : p \in acc /\ p.row = [row EXCEPT !.region = "global"]
                      /\ How.spread # {} /\ \A q \in own : q.dim # p.dim
  BY DEF WideParts
<1>3. \A s \in Lacking(How, acc, row) :
         /\ ByDefault(How, row, s).dim = s[2] /\ s[1] = row.name /\ s = <<s[1], s[2]>>
         /\ \A p \in own \union wide : p.dim # s[2]
  <2>1. \A s \in DOMAIN How.default : IsPair(s)
    BY PolicyGiven DEF AllKept, Priced
  <2> QED
    BY <2>1 DEF Lacking, ByDefault, IsPair
<1> HIDE DEF own, wide
<1>4. CASE x \in own /\ y \in own
  BY <1>4, OwnApart DEF own
<1>5. CASE x \in wide /\ y \in wide
  <2>1. x \in acc /\ y \in acc /\ Cell(x) = Cell(y)
    BY <1>2, <1>5 DEF Cell
  <2>2. How.ladder = <<>>
    BY <1>2, <1>5, PolicyGiven DEF AllKept
  <2> QED
    BY <2>1, <2>2, OneInCell
<1>6. CASE /\ \E s \in Lacking(How, acc, row) : x = ByDefault(How, row, s)
           /\ \E s \in Lacking(How, acc, row) : y = ByDefault(How, row, s)
  <2>1. PICK s \in Lacking(How, acc, row) : x = ByDefault(How, row, s)
    BY <1>6
  <2>2. PICK u \in Lacking(How, acc, row) : y = ByDefault(How, row, u)
    BY <1>6
  <2>3. s = u
    BY <1>3, <2>1, <2>2
  <2> QED
    BY <2>1, <2>2, <2>3
<1> QED
  BY <1>1, <1>2, <1>3, <1>4, <1>5, <1>6

(* Two dimensions of a row are shown as one only where they are a free and  *)
(* a paid tier.                                                            *)
Shown(d) == At(How.shown, d, d)

LEMMA ShownTwice ==
  ASSUME AllKept, NEW row \in Opened(How, acc),
         NEW x \in Parts(How, acc, row), NEW y \in Parts(How, acc, row),
         x.dim # y.dim, Shown(x.dim) = Shown(y.dim)
  PROVE  /\ How.rate = "split" /\ (x.dim = "free") # (y.dim = "free")
         /\ How.spread = {} /\ How.ladder = <<>> /\ How.default = <<>>
         /\ x \in KeptOf(How, acc, row) /\ y \in KeptOf(How, acc, row)
<1>1. /\ IInv /\ feed.src \in DOMAIN Policy
      /\ IsKept(How, acc) /\ IsRow(row)
      /\ \A z \in Priced(How) : IsPair(z)
  BY AccKept, OpenedRows, PolicyGiven DEF AllKept, IInv, TypeOK
<1>2. \A p \in Parts(How, acc, row) : <<row.name, p.dim>> \in Priced(How)
  <2> SUFFICES ASSUME NEW p \in Parts(How, acc, row) PROVE <<row.name, p.dim>> \in Priced(How)
    OBVIOUS
  <2>1. p.dim \in DimsOf(How, row.name)
    BY <1>1, PartDims
  <2> QED
    BY <1>1, <2>1 DEF DimsOf, IsPair
<1>3. /\ How.default = <<>>
      /\ \/ (x.dim \in How.spare) # (y.dim \in How.spare)
         \/ /\ How.rate = "split"
            /\ (x.dim = "free") # (y.dim = "free")
  <2> DEFINE a == <<row.name, x.dim>>
             b == <<row.name, y.dim>>
  <2>1. a \in Priced(How) /\ b \in Priced(How)
    BY <1>2
  <2>2. a[1] = b[1] /\ a[2] = x.dim /\ b[2] = y.dim
    OBVIOUS
  <2> HIDE DEF a, b
  <2>3. a[2] # b[2] /\ At(How.shown, a[2], a[2]) = At(How.shown, b[2], b[2])
    BY <2>2 DEF Shown
  <2>4. /\ How.default = <<>>
        /\ \/ (a[2] \in How.spare) # (b[2] \in How.spare)
           \/ /\ How.rate = "split"
              /\ (a[2] = "free") # (b[2] = "free")
    BY <1>1, <2>1, <2>2, <2>3, ShownApart DEF How
  <2> QED
    BY <2>2, <2>4
<1>4. How.spread = {}
  <2>1. How.spread # {} => How.spare = {} /\ How.rate = "head"
    BY <1>1, PolicyGiven
  <2> QED
    BY <1>3, <2>1
<1>5. x \in OwnParts(How, acc, row) /\ y \in OwnParts(How, acc, row)
  <2>1. WideParts(How, acc, row) = {}
    BY <1>4 DEF WideParts
  <2>2. Lacking(How, acc, row) = {}
    BY <1>3 DEF Lacking
  <2> QED
    BY <2>1, <2>2, PartsAre
<1>6. \A p \in KeptOf(How, acc, row) : IsPrice(p) /\ p \in acc /\ p.row = row
  BY <1>1 DEF KeptOf, IsKept
<1>7. (x.dim \in How.spare) = (y.dim \in How.spare)
  <2>1. PICK a \in KeptOf(How, acc, row) : a.dim = x.dim
    BY <1>5, <1>6, LadderedKeeps DEF OwnParts, Like
  <2>2. PICK b \in KeptOf(How, acc, row) : b.dim = y.dim
    BY <1>5, <1>6, LadderedKeeps DEF OwnParts, Like
  <2> QED
    BY <1>6, <2>1, <2>2 DEF KeptOf
<1>8. How.rate = "split" /\ (x.dim = "free") # (y.dim = "free")
  BY <1>3, <1>7
<1>9. How.ladder = <<>>
  BY <1>1, <1>8, TiersPlain DEF How
<1> QED
  BY <1>3, <1>4, <1>5, <1>8, <1>9, NoLadder DEF OwnParts

(* A free tier starts at 0, a paid one above it. *)
LEMMA SplitStarts ==
  ASSUME AllKept, How.rate = "split", NEW p \in acc
  PROVE  p.from = 0 <=> p.dim = "free"
<1>1. PICK i \in feed.doc : p \in Fills(How, i)
  BY KeptFrom
<1>2. \A x \in Priced(How) : IsPair(x)
  BY PolicyGiven DEF AllKept
<1>3. How.rate \in Ways /\ Item(i)
  BY PolicyGiven DEF AllKept
<1>4. PICK t \in Tiers(How, i, p.dim) : FillTier(How, i, p, t)
  BY <1>1, <1>2, FillSays
<1>5. ~(p.dim \in How.based /\ Head(i.rates).from # 0)
  BY DEF Tiers
<1>6. PICK u \in LastOf(i, p.dim) : t \in {[u EXCEPT !.usd = 0], [u EXCEPT !.to = Unbounded]}
  BY <1>5 DEF Tiers, LastOf, HalfOf
<1>7. u \in Range(i.rates) /\ (u.from = 0 <=> p.dim = "free")
  BY <1>3, RatesAre DEF LastOf, HalfOf
<1>8. u \in [from : 0..Unbounded - 1, to : 1..Unbounded, usd : Nat]
  BY <1>3, <1>7, RatesAre DEF Rate
<1>9. t.from = u.from
  BY <1>6, <1>8
<1> QED
  BY <1>4, <1>7, <1>9 DEF FillTier

(* No two prices of a row have one key. *)
LEMMA PricesTold ==
  ASSUME AllKept, NEW row \in Opened(How, acc),
         NEW p \in PriceList(How, row, Parts(How, acc, row)),
         NEW q \in PriceList(How, row, Parts(How, acc, row)),
         p.dim = q.dim, p.from = q.from
  PROVE  p = q
<1> DEFINE parts == Parts(How, acc, row)
<1>1. CASE row.name \in How.summed
  <2>1. \E total : PriceList(How, row, parts) =
          {[dim |-> "compute", from |-> 0, to |-> Unbounded, n |-> Nobody, usd |-> total]}
    BY <1>1, PricesAre
  <2> QED
    BY <2>1
<1>2. CASE row.name \notin How.summed
  <2>1. PriceList(How, row, parts) = {Published(How, x) : x \in parts}
    BY <1>2, PricesAre
  <2>2. PICK x \in parts : p = Published(How, x)
    BY <2>1
  <2>3. PICK y \in parts : q = Published(How, y)
    BY <2>1
  <2>4. Shown(x.dim) = Shown(y.dim) /\ x.from = y.from
    BY <2>2, <2>3 DEF Published, Shown
  <2>5. CASE x.dim = y.dim
    BY <2>2, <2>3, <2>4, <2>5, PartsApart
  <2>6. CASE x.dim # y.dim
    <3>1. /\ How.rate = "split" /\ (x.dim = "free") # (y.dim = "free")
          /\ x \in KeptOf(How, acc, row) /\ y \in KeptOf(How, acc, row)
      BY <2>4, <2>6, ShownTwice
    <3>2. (x.from = 0 <=> x.dim = "free") /\ (y.from = 0 <=> y.dim = "free")
      BY <3>1, SplitStarts DEF KeptOf
    <3> QED
      BY <2>4, <3>1, <3>2
  <2> QED
    BY <2>5, <2>6
<1> QED
  BY <1>1, <1>2

-----------------------------------------------------------------------------
(* Row names whose sku_id is made of item ids, and what tells them apart. *)
IdNames(how) == {x[1] : x \in Priced(how)} \ how.minted

LEMMA IdsGiven ==
  ASSUME IInv, IdNames(How) # {}
  PROVE  /\ \A x \in DOMAIN How.default : x[1] \in How.minted
         /\ How.spread # {} => How.anchor # {} /\ How.anchor \intersect How.spread = {}
         /\ How.anchor # {} =>
              \A m \in IdNames(How) : How.anchor \intersect At(How.needs, m, {}) # {}
         /\ How.lead = "lowest" => How.rate = "open" /\ How.anchor = {}
         /\ How.lead \in {"all", "first", "lowest"}
         /\ How.unique => IdNames(How) \subseteq How.own
         /\ How.where = "each" \/ How.virtual # {} =>
              How.suffix = "always" \/ (How.suffix = "shared" /\ How.virtual = {})
<1>1. feed.src \in DOMAIN Policy
  BY DEF IInv, TypeOK
<1> QED
  BY <1>1, IdsTell DEF How, IdNames

Teller(x1, d, k) ==
  /\ d \in At(How.needs, x1, {})
  /\ How.lead = "all" /\ (How.anchor = {} \/ d \in How.anchor)
  /\ \A l \in DOMAIN How.sells :
       <<x1, d>> \in How.sells[l] => \A z \in How.sells[l] : z[1] = x1

LEMMA NamesGiven ==
  ASSUME IInv, NEW k \in DOMAIN How.sells, NEW x \in How.sells[k], NEW y \in How.sells[k],
         x[1] # y[1], x[1] \in IdNames(How), y[1] \in IdNames(How)
  PROVE  Label(How, x[1]) # Label(How, y[1]) \/ \E d : Teller(x[1], d, k)
<1>1. feed.src \in DOMAIN Policy
  BY DEF IInv, TypeOK
<1>2. \A kk \in DOMAIN How.sells : \A xx, yy \in How.sells[kk] :
             xx[1] # yy[1] /\ {xx[1], yy[1]} \subseteq IdNames(How) =>
               \/ Label(How, xx[1]) # Label(How, yy[1])
               \/ \E d \in At(How.needs, xx[1], {}) :
                    /\ How.lead = "all" /\ (How.anchor = {} \/ d \in How.anchor)
                    /\ \A l \in DOMAIN How.sells :
                         <<xx[1], d>> \in How.sells[l] => \A z \in How.sells[l] : z[1] = xx[1]
  BY <1>1, IdsTell DEF How, IdNames
<1>3. {x[1], y[1]} \subseteq IdNames(How)
  OBVIOUS
<1> QED
  BY <1>2, <1>3 DEF Teller

(* A row that has parts is of a name the source has. *)
LEMMA RowNamed ==
  ASSUME AllKept, NEW row \in Opened(How, acc), NEW p \in Parts(How, acc, row)
  PROVE  <<row.name, p.dim>> \in Priced(How)
         /\ (row.name \notin How.minted => row.name \in IdNames(How))
<1>1. IsKept(How, acc) /\ IsRow(row) /\ \A z \in Priced(How) : IsPair(z)
  BY AccKept, OpenedRows, PolicyGiven DEF AllKept
<1>2. p.dim \in DimsOf(How, row.name)
  BY <1>1, PartDims
<1>3. PICK x \in Priced(How) : x[1] = row.name /\ x[2] = p.dim
  BY <1>2 DEF DimsOf
<1>4. x = <<row.name, p.dim>>
  BY <1>1, <1>3 DEF IsPair
<1> QED
  BY <1>3, <1>4 DEF IdNames

(* The parts that name a row are its own. *)
LEMMA NamersOwn ==
  ASSUME AllKept, NEW row \in Opened(How, acc), row.name \notin How.minted,
         NEW p \in Parts(How, acc, row), How.anchor = {} \/ p.dim \in How.anchor
  PROVE  p \in OwnParts(How, acc, row) /\ \E x \in KeptOf(How, acc, row) : Like(p, x)
<1>1. IInv /\ IdNames(How) # {}
  BY RowNamed DEF AllKept
<1>2. \A s \in Lacking(How, acc, row) : s[1] = row.name /\ s[1] \in How.minted
  BY <1>1, IdsGiven DEF Lacking
<1>3. How.spread # {} => How.anchor # {} /\ How.anchor \intersect How.spread = {}
  BY <1>1, IdsGiven
<1>4. p \notin WideParts(How, acc, row)
  BY <1>3 DEF WideParts
<1>5. p \in OwnParts(How, acc, row)
  BY <1>2, <1>4, PartsAre
<1>6. \A x \in KeptOf(How, acc, row) : IsPrice(x)
  BY AccKept DEF AllKept, KeptOf, IsKept
<1>7. \E x \in KeptOf(How, acc, row) : Like(p, x)
  BY <1>5, <1>6, LadderedKeeps DEF OwnParts, Like
<1> QED
  BY <1>5, <1>7

LEMMA NamersIn ==
  ASSUME NEW how, NEW parts, NEW p \in Namers(how, parts), how.lead \in {"all", "first", "lowest"}
  PROVE  p \in parts /\ (how.anchor = {} \/ p.dim \in how.anchor)
BY DEF Namers

(* Every row has one. *)
LEMMA NamersThere ==
  ASSUME AllKept, NEW row \in Opened(How, acc), row.name \notin How.minted,
         Whole(How, row, Parts(How, acc, row))
  PROVE  Namers(How, Parts(How, acc, row)) # {}
<1> DEFINE parts == Parts(How, acc, row)
           named == {p \in parts : How.anchor = {} \/ p.dim \in How.anchor}
<1>1. parts # {} /\ At(How.needs, row.name, {}) \subseteq {p.dim : p \in parts}
  BY DEF Whole
<1>2. IInv /\ row.name \in IdNames(How)
  BY <1>1, RowNamed DEF AllKept
<1>3. /\ How.anchor # {} => How.anchor \intersect At(How.needs, row.name, {}) # {}
      /\ How.lead = "lowest" => How.rate = "open" /\ How.anchor = {}
      /\ How.lead \in {"all", "first", "lowest"}
  BY <1>2, IdsGiven
<1>4. PICK p \in named : TRUE
  BY <1>1, <1>3
<1>5. CASE How.lead = "all"
  BY <1>4, <1>5 DEF Namers
<1>6. CASE How.lead = "first"
  <2> DEFINE ns == {q.n : q \in named}
  <2>1. ASSUME NEW q \in named PROVE q.n \in {i.n : i \in feed.doc}
    <3>1. PICK x \in KeptOf(How, acc, row) : Like(q, x)
      BY NamersOwn
    <3>2. PICK i \in feed.doc : x \in Fills(How, i)
      BY KeptFrom DEF KeptOf
    <3>3. \A z \in Priced(How) : IsPair(z)
      BY <1>2, PolicyGiven
    <3>4. x.n = i.n
      BY <3>2, <3>3, FillSays
    <3> QED
      BY <3>1, <3>4 DEF Like
  <2>2. {i.n : i \in feed.doc} \in SUBSET Nat
    BY <1>2, PolicyGiven DEF Item
  <2>3. IsFiniteSet({i.n : i \in feed.doc})
    BY <1>2, NumbersFew
  <2>4. ns \in SUBSET {i.n : i \in feed.doc}
    <3> HIDE DEF named
    <3> QED
      BY <2>1
  <2>5. IsFiniteSet(ns)
    <3> HIDE DEF ns
    <3> QED
      BY <2>3, <2>4, FS_Subset
  <2>6. \E x \in ns : \A y \in ns : x <= y
    <3>1. ns \in SUBSET Nat
      BY <2>2, <2>4
    <3>2. ns # {}
      BY <1>4
    <3> HIDE DEF ns
    <3> QED
      BY <2>5, <3>1, <3>2, Extremes
  <2>7. \E q \in named : \A x \in named : q.n <= x.n
    <3> HIDE DEF named
    <3> QED
      BY <2>6
  <2>8. Namers(How, parts) = {q \in named : \A x \in named : q.n <= x.n}
    BY <1>6 DEF Namers
  <2> QED
    BY <2>7, <2>8
<1>7. CASE How.lead = "lowest"
  <2>1. p \in OwnParts(How, acc, row)
    BY <1>4, NamersOwn
  <2>2. \A x \in KeptOf(How, acc, row) : IsPrice(x) /\ x \in acc /\ x.row = row
    BY AccKept DEF AllKept, KeptOf, IsKept
  <2> DEFINE d == p.dim
             ps == OfDim(KeptOf(How, acc, row), d)
  <2>3. OfDim(OwnParts(How, acc, row), d) =
          IF d \in DOMAIN How.ladder THEN Rungs(How.ladder[d], ps) ELSE ps
    BY <2>2, LadderedOf DEF OwnParts
  <2>4. p \in OfDim(OwnParts(How, acc, row), d)
    BY <2>1 DEF OfDim
  <2>5. CASE d \in DOMAIN How.ladder
    <3>1. Rungable(ps)
      BY <2>5, LadderRungable DEF OfDim
    <3>2. p \in Rungs(How.ladder[d], ps)
      BY <2>3, <2>4, <2>5
    <3> HIDE DEF ps
    <3>3. ps # {}
      BY <3>1, <3>2, RungsKeep DEF Rungable
    <3>4. Tile(Rungs(How.ladder[d], ps))
      BY <3>1, <3>2, <3>3, RungsTile
    <3>5. PICK q \in Rungs(How.ladder[d], ps) : q.from = 0
      BY <3>4 DEF Tile
    <3>6. q \in OwnParts(How, acc, row)
      BY <2>3, <2>5, <3>5 DEF OfDim
    <3>7. q \in named
      BY <1>3, <1>7, <3>6, PartsAre
    <3> QED
      BY <1>7, <3>5, <3>7 DEF Namers
  <2>6. CASE d \notin DOMAIN How.ladder
    <3>1. p \in acc
      BY <2>2, <2>3, <2>4, <2>6 DEF OfDim
    <3>2. PICK i \in feed.doc : p \in Fills(How, i)
      BY <3>1, KeptFrom
    <3>3. \A z \in Priced(How) : IsPair(z)
      BY <1>2, PolicyGiven
    <3>4. PICK t \in Tiers(How, i, p.dim) : FillTier(How, i, p, t)
      BY <3>2, <3>3, FillSays
    <3>5. t.from = 0
      BY <1>3, <1>7, <2>6 DEF Tiers, Flat
    <3>6. p.from = 0
      BY <3>4, <3>5 DEF FillTier
    <3> QED
      BY <1>4, <1>7, <3>6 DEF Namers
  <2> QED
    BY <2>5, <2>6
<1> QED
  BY <1>3, <1>5, <1>6, <1>7

(* What a sku_id is made of. *)
ManyOf(row) ==
  \/ How.suffix = "always"
  \/ How.suffix = "minted" /\ row.name \in How.minted
  \/ How.suffix = "shared" /\ \E p \in Parts(How, acc, row) : p.shared

IdsOf(row) == {p.id : p \in Namers(How, Parts(How, acc, row))}

TwinOf(row) == How.unique /\ \E p \in acc : p.row # row /\ p.id \in IdsOf(row)

SkuOf(row) == SkuId(How, acc, row, Parts(How, acc, row))

LEMMA SkuSays ==
  ASSUME NEW row
  PROVE  /\ SkuOf(row).ids = (IF row.name \in How.minted THEN {} ELSE IdsOf(row))
         /\ SkuOf(row).label =
              (IF row.name \in How.minted THEN row.name ELSE Label(How, row.name))
         /\ SkuOf(row).region = (IF ManyOf(row) THEN row.region ELSE None)
         /\ SkuOf(row).copy = (IF TwinOf(row) THEN row.by ELSE Nobody)
<1> DEFINE sku == [ids    |-> IF row.name \in How.minted THEN {} ELSE IdsOf(row),
                   label  |-> IF row.name \in How.minted THEN row.name ELSE Label(How, row.name),
                   region |-> IF ManyOf(row) THEN row.region ELSE None,
                   copy   |-> IF TwinOf(row) THEN row.by ELSE Nobody]
<1>1. SkuOf(row) = sku
  BY DEF SkuOf, SkuId, ManyOf, IdsOf, TwinOf
<1> QED
  BY <1>1

(* Two rows with one sku_id made of ids have an item in common. *)
Shares(a, b, p, i) ==
  \E x \in KeptOf(How, acc, a), y \in KeptOf(How, acc, b), q \in Parts(How, acc, b) :
    x \in Fills(How, i) /\ y \in Fills(How, i) /\ Like(p, x) /\ Like(q, y)

LEMMA SameItem ==
  ASSUME AllKept, NEW a \in Opened(How, acc), NEW b \in Opened(How, acc), a # b,
         a.name \notin How.minted, b.name \notin How.minted, SkuOf(a) = SkuOf(b),
         IdNames(How) # {}, NEW p \in Namers(How, Parts(How, acc, a))
  PROVE  \E i \in feed.doc : Shares(a, b, p, i)
<1>1. IInv /\ \A z \in Priced(How) : IsPair(z)
  BY PolicyGiven DEF AllKept
<1>2. /\ IdsOf(a) = IdsOf(b)
      /\ (IF ManyOf(a) THEN a.region ELSE None) = (IF ManyOf(b) THEN b.region ELSE None)
      /\ (IF TwinOf(a) THEN a.by ELSE Nobody) = (IF TwinOf(b) THEN b.by ELSE Nobody)
  BY SkuSays
<1>3. PICK q \in Namers(How, Parts(How, acc, b)) : q.id = p.id
  BY <1>2 DEF IdsOf
<1>4. /\ How.lead \in {"all", "first", "lowest"}
      /\ How.unique => IdNames(How) \subseteq How.own
      /\ a.name \in IdNames(How) /\ b.name \in IdNames(How)
  <2>1. How.lead \in {"all", "first", "lowest"} /\ (How.unique => IdNames(How) \subseteq How.own)
    BY <1>1, IdsGiven
  <2>2. p \in Parts(How, acc, a) /\ q \in Parts(How, acc, b)
    BY <2>1, NamersIn
  <2> QED
    BY <2>1, <2>2, RowNamed
<1>5. /\ p \in Parts(How, acc, a) /\ (How.anchor = {} \/ p.dim \in How.anchor)
      /\ q \in Parts(How, acc, b) /\ (How.anchor = {} \/ q.dim \in How.anchor)
  BY <1>4, NamersIn
<1>6. PICK x \in KeptOf(How, acc, a) : Like(p, x)
  BY <1>5, NamersOwn
<1>7. PICK y \in KeptOf(How, acc, b) : Like(q, y)
  BY <1>5, NamersOwn
<1>8. x \in acc /\ x.row = a /\ y \in acc /\ y.row = b
  BY DEF KeptOf
<1>9. PICK i \in feed.doc : x \in Fills(How, i)
  BY <1>8, KeptFrom
<1>10. PICK j \in feed.doc : y \in Fills(How, j)
  BY <1>8, KeptFrom
<1>11. x.id = i.id /\ x.row.by = (IF x.row.name \in How.own THEN i.n ELSE Nobody)
  BY <1>1, <1>9, FillSays
<1>12. y.id = j.id /\ y.row.by = (IF y.row.name \in How.own THEN j.n ELSE Nobody)
  BY <1>1, <1>10, FillSays
<1>13. p.id = x.id /\ q.id = y.id
  BY <1>6, <1>7 DEF Like
<1>14. i = j
  <2> SUFFICES ASSUME i # j PROVE FALSE
    OBVIOUS
  <2>1. ~Contend(How, i, j)
    BY DEF AllKept, Unambiguous
  <2>2. i.id = j.id
    BY <1>3, <1>11, <1>12, <1>13
  <2>3. CASE How.unique
    <3>1. p.id \in IdsOf(a) /\ q.id \in IdsOf(b)
      BY DEF IdsOf
    <3>2. TwinOf(a) /\ TwinOf(b)
      BY <1>3, <1>8, <1>13, <2>3, <3>1 DEF TwinOf
    <3>3. a.by = i.n /\ b.by = j.n
      BY <1>4, <1>8, <1>11, <1>12, <2>3
    <3>4. i.n # j.n
      BY <1>1, PolicyGiven
    <3> QED
      BY <1>2, <3>2, <3>3, <3>4
  <2>4. CASE ~How.unique
    <3>1. How.suffix = "always"
      BY <2>1, <2>2, <2>4 DEF Contend
    <3>2. a.region = b.region
      BY <1>2, <3>1 DEF ManyOf
    <3>3. x.row # y.row /\ x.row.region = y.row.region
      BY <1>8, <3>2
    <3> QED
      BY <1>9, <1>10, <2>1, <2>2, <2>4, <3>3 DEF Contend
  <2> QED
    BY <2>3, <2>4
<1> QED
  BY <1>5, <1>6, <1>7, <1>9, <1>10, <1>14 DEF Shares

(* They are rows of one region. *)
LEMMA SameRegion ==
  ASSUME AllKept, NEW a \in Opened(How, acc), NEW b \in Opened(How, acc),
         a.name \notin How.minted, b.name \notin How.minted, SkuOf(a) = SkuOf(b),
         NEW p \in Parts(How, acc, a), NEW i \in feed.doc, Shares(a, b, p, i)
  PROVE  a.region = b.region
<1>1. IInv /\ (\A z \in Priced(How) : IsPair(z)) /\ Item(i)
  BY PolicyGiven DEF AllKept
<1>2. PICK x \in KeptOf(How, acc, a), y \in KeptOf(How, acc, b), q \in Parts(How, acc, b) :
        x \in Fills(How, i) /\ y \in Fills(How, i) /\ Like(p, x) /\ Like(q, y)
  BY DEF Shares
<1>3. x.row = a /\ y.row = b
  BY DEF KeptOf
<1>4. a.region \in Places(How, i) /\ x.shared = (Len(i.at) > 1)
  BY <1>1, <1>2, <1>3, FillSays
<1>5. b.region \in Places(How, i) /\ y.shared = (Len(i.at) > 1)
  BY <1>1, <1>2, <1>3, FillSays
<1>6. (IF ManyOf(a) THEN a.region ELSE None) = (IF ManyOf(b) THEN b.region ELSE None)
  BY SkuSays
<1>7. How.where = "each" \/ How.virtual # {} =>
        How.suffix = "always" \/ (How.suffix = "shared" /\ How.virtual = {})
  <2>1. IdNames(How) # {}
    BY RowNamed
  <2> QED
    BY <1>1, <2>1, IdsGiven
<1>8. How.suffix = "always" => a.region = b.region
  BY <1>6 DEF ManyOf
<1>9. CASE How.where = "one" \/ i.kind \in How.wide
  BY <1>4, <1>5, <1>9 DEF Places
<1>10. CASE ~(How.where = "one" \/ i.kind \in How.wide) /\ i.at = <<>>
  <2>1. a.region \in How.virtual
    BY <1>4, <1>10 DEF Places
  <2> QED
    BY <1>7, <1>8, <2>1
<1>11. CASE ~(How.where = "one" \/ i.kind \in How.wide) /\ i.at # <<>> /\ How.where # "each"
  BY <1>4, <1>5, <1>11 DEF Places
<1>12. CASE ~(How.where = "one" \/ i.kind \in How.wide) /\ i.at # <<>> /\ How.where = "each"
  <2> SUFFICES ASSUME How.suffix = "shared", a.region # b.region PROVE FALSE
    BY <1>7, <1>8, <1>12
  <2>1. a.region \in Range(i.at) /\ b.region \in Range(i.at)
    BY <1>4, <1>5, <1>12 DEF Places
  <2>2. Len(i.at) > 1
    <3>1. PICK k \in DOMAIN i.at : a.region = i.at[k]
      BY <2>1 DEF Range
    <3>2. PICK l \in DOMAIN i.at : b.region = i.at[l]
      BY <2>1 DEF Range
    <3>3. DOMAIN i.at = 1..Len(i.at) /\ Len(i.at) \in Nat
      BY <1>1 DEF Item
    <3> QED
      BY <3>1, <3>2, <3>3
  <2>3. p.shared /\ q.shared
    BY <1>2, <1>4, <1>5, <2>2 DEF Like
  <2>4. ManyOf(a) /\ ManyOf(b)
    BY <2>3 DEF ManyOf
  <2> QED
    BY <1>6, <2>4
<1> QED
  BY <1>9, <1>10, <1>11, <1>12

(* A row of a name of which items have no rows of their own is nobody's.  *)
LEMMA RowBy ==
  ASSUME AllKept, NEW row \in Opened(How, acc)
  PROVE  /\ IsRow(row)
         /\ row.name \notin How.own => row.by = Nobody
         /\ row.name \in How.own =>
              \E i \in feed.doc : \E x \in Fills(How, i) : x.row = row /\ row.by = i.n
<1>1. /\ IInv /\ feed.src \in DOMAIN Policy /\ IsKept(How, acc)
      /\ \A z \in Priced(How) : IsPair(z)
  BY AccKept, PolicyGiven DEF AllKept, IInv, TypeOK
<1>2. IsRow(row)
  BY <1>1, OpenedRows
<1>3. CASE \E x \in acc : row = x.row
  <2>1. PICK x \in acc : row = x.row
    BY <1>3
  <2>2. PICK i \in feed.doc : x \in Fills(How, i)
    BY KeptFrom
  <2>3. x.row.by = (IF x.row.name \in How.own THEN i.n ELSE Nobody)
    BY <1>1, <2>2, FillSays
  <2> QED
    BY <1>2, <2>1, <2>2, <2>3
<1>4. CASE \E s \in DOMAIN How.default, r \in Tracked :
             row = [name |-> s[1], region |-> r, by |-> Nobody]
  <2>1. \A s \in DOMAIN How.default : s[1] \notin How.own
    BY <1>1, DefaultsShared DEF How
  <2> QED
    BY <1>2, <1>4, <2>1
<1> QED
  BY <1>3, <1>4 DEF Opened

(* Minted or not, no two rows have one sku_id. *)
LEMMA MintedTold ==
  ASSUME AllKept, NEW a \in Opened(How, acc), NEW b \in Opened(How, acc),
         a.name \in How.minted, b.name \in How.minted, SkuOf(a) = SkuOf(b)
  PROVE  a = b
<1>1. /\ IInv /\ feed.src \in DOMAIN Policy
      /\ \A z \in Priced(How) : IsPair(z)
      /\ \A i, j \in feed.doc : i.n = j.n => i = j
  BY PolicyGiven DEF AllKept, IInv, TypeOK
<1>2. a.name = b.name
      /\ (IF ManyOf(a) THEN a.region ELSE None) = (IF ManyOf(b) THEN b.region ELSE None)
  BY SkuSays
<1>3. /\ \/ How.suffix \in {"always", "minted"}
         \/ How.where = "one" /\ How.spread = {} /\ How.default = <<>>
      /\ \A x, y \in Priced(How) :
           x[1] = y[1] /\ x[1] \in How.minted \intersect How.own => x = y /\ x[1] \notin How.append
  BY <1>1, MintedTell DEF How
<1>4. a.region = b.region
  <2>1. CASE How.suffix \in {"always", "minted"}
    BY <1>2, <2>1 DEF ManyOf
  <2>2. CASE How.where = "one" /\ How.spread = {} /\ How.default = <<>>
    <3>1. ASSUME NEW row \in Opened(How, acc) PROVE row.region = "global"
      <4>1. PICK x \in acc : row = x.row
        BY <2>2 DEF Opened
      <4>2. PICK i \in feed.doc : x \in Fills(How, i)
        BY KeptFrom
      <4>3. x.row.region \in Places(How, i)
        BY <1>1, <4>2, FillSays
      <4> QED
        BY <2>2, <4>1, <4>3 DEF Places
    <3> QED
      BY <3>1
  <2> QED
    BY <1>3, <2>1, <2>2
<1>5. IsRow(a) /\ IsRow(b)
  BY RowBy
<1>6. CASE a.name \notin How.own
  BY <1>2, <1>4, <1>5, <1>6, RowBy DEF IsRow
<1>7. CASE a.name \in How.own
  <2>1. PICK i \in feed.doc : \E x \in Fills(How, i) : x.row = a /\ a.by = i.n
    BY <1>7, RowBy
  <2>2. PICK x \in Fills(How, i) : x.row = a
    BY <2>1
  <2>3. PICK j \in feed.doc : \E y \in Fills(How, j) : y.row = b /\ b.by = j.n
    BY <1>2, <1>7, RowBy
  <2>4. PICK y \in Fills(How, j) : y.row = b
    BY <2>3
  <2>5. <<a.name, x.dim>> \in How.sells[i.kind] /\ Taken(How, i)
    BY <1>1, <2>2, FillSays
  <2>6. <<b.name, y.dim>> \in How.sells[j.kind] /\ Taken(How, j)
    BY <1>1, <2>4, FillSays
  <2>7. <<a.name, x.dim>> \in Priced(How) /\ <<b.name, y.dim>> \in Priced(How)
    BY <2>5, <2>6 DEF Priced, Range, Taken
  <2>8. x.dim = y.dim /\ a.name \notin How.append
    BY <1>2, <1>3, <1>7, <2>7
  <2>9. Contend(How, i, j)
    <3>1. ~AddUp(How, x, y)
      BY <2>2, <2>8 DEF AddUp
    <3> QED
      BY <1>2, <1>4, <2>2, <2>4, <2>8, <3>1 DEF Contend
  <2>10. i = j
    BY <2>9 DEF AllKept, Unambiguous
  <2> QED
    BY <1>2, <1>4, <1>5, <2>1, <2>3, <2>10 DEF IsRow
<1> QED
  BY <1>6, <1>7

(* A dimension that tells the name of a row has a part that names the row. *)
LEMMA TellerNames ==
  ASSUME AllKept, NEW row \in Opened(How, acc), Whole(How, row, Parts(How, acc, row)),
         NEW d, NEW k, Teller(row.name, d, k)
  PROVE  \E p \in Namers(How, Parts(How, acc, row)) : p.dim = d
<1>1. d \in At(How.needs, row.name, {})
  BY DEF Teller
<1>2. PICK p \in Parts(How, acc, row) : p.dim = d
  BY <1>1 DEF Whole
<1>3. p \in Namers(How, Parts(How, acc, row))
  BY <1>2 DEF Teller, Namers
<1> QED
  BY <1>2, <1>3

(* What two rows with an item in common have of it. *)
LEMMA SharedSells ==
  ASSUME AllKept, NEW a, NEW b, NEW p, NEW i, Shares(a, b, p, i)
  PROVE  /\ Taken(How, i)
         /\ <<a.name, p.dim>> \in How.sells[i.kind]
         /\ \E e : <<b.name, e>> \in How.sells[i.kind]
         /\ a.by = (IF a.name \in How.own THEN i.n ELSE Nobody)
         /\ b.by = (IF b.name \in How.own THEN i.n ELSE Nobody)
<1>1. \A z \in Priced(How) : IsPair(z)
  BY PolicyGiven DEF AllKept
<1>2. PICK x \in KeptOf(How, acc, a), y \in KeptOf(How, acc, b), q \in Parts(How, acc, b) :
        x \in Fills(How, i) /\ y \in Fills(How, i) /\ Like(p, x) /\ Like(q, y)
  BY DEF Shares
<1>3. x.row = a /\ y.row = b /\ p.dim = x.dim
  BY <1>2 DEF KeptOf, Like
<1>4. /\ Taken(How, i)
      /\ <<x.row.name, x.dim>> \in How.sells[i.kind]
      /\ x.row.by = (IF x.row.name \in How.own THEN i.n ELSE Nobody)
  BY <1>1, <1>2, FillSays
<1>5. /\ <<y.row.name, y.dim>> \in How.sells[i.kind]
      /\ y.row.by = (IF y.row.name \in How.own THEN i.n ELSE Nobody)
  BY <1>1, <1>2, FillSays
<1> QED
  BY <1>3, <1>4, <1>5

LEMMA IdsTold ==
  ASSUME AllKept, NEW a \in Opened(How, acc), NEW b \in Opened(How, acc),
         a.name \notin How.minted, b.name \notin How.minted,
         Whole(How, a, Parts(How, acc, a)), Whole(How, b, Parts(How, acc, b)),
         SkuOf(a) = SkuOf(b)
  PROVE  a = b
<1> SUFFICES ASSUME a # b PROVE FALSE
  OBVIOUS
<1>1. IInv /\ IsRow(a) /\ IsRow(b)
  BY RowBy DEF AllKept
<1>2. a.name \in IdNames(How) /\ b.name \in IdNames(How)
  BY RowNamed DEF Whole
<1>3. How.lead \in {"all", "first", "lowest"}
  BY <1>1, <1>2, IdsGiven
<1>4. PICK p \in Namers(How, Parts(How, acc, a)) : TRUE
  BY NamersThere
<1>5. PICK i \in feed.doc : Shares(a, b, p, i)
  BY <1>2, SameItem
<1>6. p \in Parts(How, acc, a)
  BY <1>3, NamersIn
<1>7. a.region = b.region
  BY <1>5, <1>6, SameRegion
<1>8. /\ Taken(How, i) /\ <<a.name, p.dim>> \in How.sells[i.kind]
      /\ \E e : <<b.name, e>> \in How.sells[i.kind]
      /\ a.by = (IF a.name \in How.own THEN i.n ELSE Nobody)
      /\ b.by = (IF b.name \in How.own THEN i.n ELSE Nobody)
  BY <1>5, SharedSells
<1>9. a.name # b.name
  BY <1>1, <1>7, <1>8 DEF IsRow
<1>10. PICK e : <<b.name, e>> \in How.sells[i.kind]
  BY <1>8
<1>11. Label(How, a.name) = Label(How, b.name)
  BY SkuSays
<1>12. i.kind \in DOMAIN How.sells
  BY <1>8 DEF Taken
<1> DEFINE x == <<a.name, p.dim>>
           y == <<b.name, e>>
<1>13. x[1] = a.name /\ y[1] = b.name
  OBVIOUS
<1>14. x \in How.sells[i.kind] /\ y \in How.sells[i.kind]
  BY <1>8, <1>10
<1> HIDE DEF x, y
<1>15. PICK d : Teller(a.name, d, i.kind)
  BY <1>1, <1>2, <1>9, <1>11, <1>12, <1>13, <1>14, NamesGiven
<1>16. PICK p1 \in Namers(How, Parts(How, acc, a)) : p1.dim = d
  BY <1>15, TellerNames
<1>17. PICK j \in feed.doc : Shares(a, b, p1, j)
  BY <1>2, SameItem
<1>18. /\ Taken(How, j) /\ <<a.name, d>> \in How.sells[j.kind]
       /\ \E f : <<b.name, f>> \in How.sells[j.kind]
  BY <1>16, <1>17, SharedSells
<1>19. j.kind \in DOMAIN How.sells
  BY <1>18 DEF Taken
<1>20. \A z \in How.sells[j.kind] : z[1] = a.name
  BY <1>15, <1>18, <1>19 DEF Teller
<1> QED
  BY <1>9, <1>18, <1>20

LEMMA SkusTold ==
  ASSUME AllKept, NEW a \in Opened(How, acc), NEW b \in Opened(How, acc),
         Whole(How, a, Parts(How, acc, a)), Whole(How, b, Parts(How, acc, b)),
         SkuOf(a) = SkuOf(b)
  PROVE  a = b
<1>1. ASSUME NEW row \in Opened(How, acc), row.name \notin How.minted,
             Whole(How, row, Parts(How, acc, row))
      PROVE  IdsOf(row) # {}
  BY <1>1, NamersThere DEF IdsOf
<1>2. /\ SkuOf(a).ids = (IF a.name \in How.minted THEN {} ELSE IdsOf(a))
      /\ SkuOf(b).ids = (IF b.name \in How.minted THEN {} ELSE IdsOf(b))
  BY SkuSays
<1>3. a.name \in How.minted <=> b.name \in How.minted
  BY <1>1, <1>2
<1> QED
  BY <1>3, MintedTold, IdsTold

(* So the rows fit the tables of a shard. *)
LEMMA RowsTold ==
  ASSUME AllKept
  PROVE  ~KeyClash(RowsOf(How, acc))
<1>1. ASSUME NEW r \in RowsOf(How, acc)
      PROVE  \E row \in Opened(How, acc) :
                /\ Whole(How, row, Parts(How, acc, row))
                /\ r = [sku |-> SkuOf(row), name |-> row.name, region |-> row.region,
                        prices |-> PriceList(How, row, Parts(How, acc, row))]
  BY <1>1 DEF RowsOf, SkuOf
<1>2. ASSUME NEW r \in RowsOf(How, acc), NEW q \in RowsOf(How, acc), r.sku = q.sku
      PROVE  r = q
  <2>1. PICK a \in Opened(How, acc) :
                /\ Whole(How, a, Parts(How, acc, a))
                /\ r = [sku |-> SkuOf(a), name |-> a.name, region |-> a.region,
                        prices |-> PriceList(How, a, Parts(How, acc, a))]
    BY <1>1
  <2>2. PICK b \in Opened(How, acc) :
                /\ Whole(How, b, Parts(How, acc, b))
                /\ q = [sku |-> SkuOf(b), name |-> b.name, region |-> b.region,
                        prices |-> PriceList(How, b, Parts(How, acc, b))]
    BY <1>1
  <2>3. SkuOf(a) = SkuOf(b)
    BY <1>2, <2>1, <2>2
  <2>4. a = b
    BY <2>1, <2>2, <2>3, SkusTold
  <2> QED
    BY <2>1, <2>2, <2>4
<1>3. ASSUME NEW r \in RowsOf(How, acc), NEW p \in r.prices, NEW q \in r.prices,
             p.dim = q.dim, p.from = q.from
      PROVE  p = q
  <2>1. PICK a \in Opened(How, acc) :
                /\ Whole(How, a, Parts(How, acc, a))
                /\ r = [sku |-> SkuOf(a), name |-> a.name, region |-> a.region,
                        prices |-> PriceList(How, a, Parts(How, acc, a))]
    BY <1>1
  <2>2. r.prices = PriceList(How, a, Parts(How, acc, a))
    BY <2>1
  <2> QED
    BY <1>3, <2>2, PricesTold
<1> QED
  BY <1>2, <1>3 DEF KeyClash

(* The rows of an unambiguous document never break the primary keys of a    *)
(* shard, so that the build is not refused for what the ingest wrote: no    *)
(* two rows have one sku_id, no two prices of a row one dimension and start *)
(* (the sku_ids of the ingest modules, and build_shard's tables).           *)
THEOREM ShardBuildsCorrect == Spec => []ShardBuilds
<1>1. IInv => ShardBuilds
  <2> SUFFICES ASSUME IInv, phase = "conflict", Unambiguous(How, feed.doc) PROVE FALSE
    BY DEF ShardBuilds
  <2>1. KeyClash(rows)
    BY DEF IInv, Clashed
  <2>2. rows = RowsOf(How, acc) /\ todo = {}
    BY DEF IInv, RowsMade
  <2>3. AllKept
    BY <2>2 DEF AllKept
  <2> QED
    BY <2>1, <2>2, <2>3, RowsTold
<1> QED
  BY <1>1, Invariance, PTL

-----------------------------------------------------------------------------
(* Tiers that follow each other from 0 to the open end.  Whether they do is *)
(* a matter of where they start and end only.                              *)
LEMMA TileCarried ==
  ASSUME NEW T, Tile(T), NEW U,
         \A u \in U : \E t \in T : u.from = t.from /\ u.to = t.to,
         \A t \in T : \E u \in U : u.from = t.from /\ u.to = t.to,
         \A u, v \in U : u # v => u.from # v.from
  PROVE  Tile(U)
<1>1. \E u \in U : u.from = 0
  BY DEF Tile
<1>2. ASSUME NEW u \in U
      PROVE  /\ u.from < u.to /\ (u.to = Unbounded \/ \E v \in U : v.from = u.to)
             /\ u.from = 0 \/ \E v \in U : v.to = u.from
  <2>1. PICK t \in T : u.from = t.from /\ u.to = t.to
    OBVIOUS
  <2>2. /\ t.from < t.to /\ (t.to = Unbounded \/ \E w \in T : w.from = t.to)
        /\ t.from = 0 \/ \E w \in T : w.to = t.from
    BY DEF Tile
  <2> QED
    BY <2>1, <2>2
<1> QED
  BY <1>1, <1>2 DEF Tile

(* Tiers that end where the next one starts. *)
LEMMA ChainTiles ==
  ASSUME NEW S \in SUBSET (0..Unbounded - 1), 0 \in S, NEW T,
         \A t \in T : t.from \in S /\ t.to = Following(S, t.from),
         \A c \in S : \E t \in T : t.from = c,
         \A t, u \in T : t # u => t.from # u.from
  PROVE  Tile(T)
<1>1. \E t \in T : t.from = 0
  OBVIOUS
<1> DEFINE last == Unbounded - 1
<1>2. last = 8 /\ Unbounded = 9
  BY DEF Unbounded
<1> HIDE DEF last
<1>3. ASSUME NEW c \in S PROVE c \in 0..8 /\ c \in Nat /\ c < 9
  <2>1. c \in 0..last
    BY DEF last
  <2> QED
    BY <1>2, <2>1
<1>4. ASSUME NEW t \in T
      PROVE  t.from < t.to /\ (t.to = Unbounded \/ \E u \in T : u.from = t.to)
  <2>1. t.from \in S /\ t.from \in Nat /\ t.from < 9 /\ t.to = Following(S, t.from)
    BY <1>3
  <2>2. CASE Following(S, t.from) = Unbounded
    BY <1>2, <2>1, <2>2
  <2>3. CASE Following(S, t.from) \in S /\ Following(S, t.from) > t.from
    <3>1. t.to \in S /\ t.to > t.from
      BY <2>1, <2>3
    <3>2. t.to \in Nat
      BY <1>3, <3>1
    <3> QED
      BY <2>1, <3>1, <3>2
  <2> QED
    BY <2>2, <2>3, FollowingIs
<1>5. ASSUME NEW t \in T, t.from # 0
      PROVE  \E u \in T : u.to = t.from
  <2> DEFINE below == {c \in S : c < t.from}
  <2>1. t.from \in S /\ t.from \in 0..8 /\ \A c \in S : c \in 0..8
    BY <1>3
  <2>2. 0 \in below
    BY <1>5, <2>1
  <2>3. below \in SUBSET S
    OBVIOUS
  <2>4. IsFiniteSet(below) /\ below \in SUBSET Nat
    <3>1. IsFiniteSet(0..Unbounded - 1)
      BY StartsFinite
    <3> HIDE DEF below
    <3>2. IsFiniteSet(below)
      BY <2>3, <3>1, FS_Subset
    <3> QED
      BY <2>1, <2>3, <3>2
  <2>5. PICK m \in below : \A c \in below : c <= m
    <3> HIDE DEF below
    <3> QED
      BY <2>2, <2>4, Extremes
  <2>6. m \in S /\ m < t.from /\ m \in 0..8
    BY <2>1
  <2>7. ~(\A c \in S : ~(c > m))
    BY <2>1, <2>6
  <2>8. /\ Following(S, m) \in S /\ Following(S, m) > m
        /\ \A c \in S : c > m => Following(S, m) <= c
    BY <2>7, FollowingIs
  <2>9. Following(S, m) <= t.from
    BY <2>1, <2>6, <2>8
  <2>10. ~(Following(S, m) < t.from)
    <3> SUFFICES ASSUME Following(S, m) < t.from PROVE FALSE
      OBVIOUS
    <3>1. Following(S, m) \in below
      BY <2>8
    <3>2. Following(S, m) <= m /\ Following(S, m) \in 0..8
      BY <2>1, <2>5, <2>8, <3>1
    <3> QED
      BY <2>6, <2>8, <3>2
  <2>11. Following(S, m) = t.from
    <3>1. Following(S, m) \in Nat /\ t.from \in Nat
      BY <1>3, <2>1, <2>8
    <3> QED
      BY <2>9, <2>10, <3>1
  <2>12. PICK u \in T : u.from = m
    BY <2>6
  <2> QED
    BY <2>11, <2>12
<1> QED
  BY <1>1, <1>4, <1>5 DEF Tile

(* An item whose rates do gives such tiers, whichever way they are made,   *)
(* unless the bounds of the source are not as many.                        *)
LEMMA ZippedTile ==
  ASSUME NEW b, b \in Seq(0..Unbounded - 1), b # <<>>, b[1] = 0,
         \A k, l \in DOMAIN b : k < l => b[k] < b[l],
         NEW i, Item(i), Len(i.rates) = Len(b)
  PROVE  Tile({Zipped(b, i, t) : t \in Range(i.rates)})
<1> DEFINE S == StartsOf(i)
           T == {Zipped(b, i, t) : t \in Range(i.rates)}
<1>1. S \in SUBSET Nat /\ IsFiniteSet(S) /\ Cardinality(S) = Len(b)
  BY StartsAre DEF Unbounded
<1>2. DOMAIN b = 1..Len(b) /\ Len(b) \in Nat /\ 1 \in DOMAIN b
  OBVIOUS
<1>3. Range(b) \in SUBSET (0..Unbounded - 1) /\ 0 \in Range(b)
  <2>1. \A k \in DOMAIN b : b[k] \in 0..Unbounded - 1
    <3> DEFINE below == 0..Unbounded - 1
    <3>1. b \in Seq(below)
      OBVIOUS
    <3> HIDE DEF below
    <3>2. \A k \in DOMAIN b : b[k] \in below
      BY <1>2, <3>1
    <3> QED
      BY <3>2 DEF below
  <2>2. \A c \in Range(b) : \E k \in DOMAIN b : c = b[k]
    BY DEF Range
  <2>3. b[1] \in Range(b)
    BY <1>2 DEF Range
  <2> QED
    BY <2>1, <2>2, <2>3
<1>4. ASSUME NEW t \in Range(i.rates)
      PROVE  /\ UpTo(S, t.from) \in DOMAIN b
             /\ Zipped(b, i, t).from = b[UpTo(S, t.from)]
             /\ Zipped(b, i, t).to = Following(Range(b), b[UpTo(S, t.from)])
  <2>1. t.from \in S
    BY DEF StartsOf
  <2>2. Zipped(b, i, t).from = b[UpTo(S, t.from)]
        /\ Zipped(b, i, t).to = Following(Range(b), b[UpTo(S, t.from)])
    BY DEF Zipped
  <2> HIDE DEF S
  <2>3. UpTo(S, t.from) \in 1..Len(b)
    BY <1>1, <2>1, Places1
  <2> QED
    BY <1>2, <2>2, <2>3
<1>5. \A x \in T : x.from \in Range(b) /\ x.to = Following(Range(b), x.from)
  BY <1>4 DEF Range
<1>6. ASSUME NEW c \in Range(b) PROVE \E x \in T : x.from = c
  <2>1. PICK k \in 1..Len(b) : c = b[k]
    BY <1>2 DEF Range
  <2>2. PICK s \in S : UpTo(S, s) = k
    <3> HIDE DEF S
    <3> QED
      BY <1>1, Places1
  <2>3. PICK t \in Range(i.rates) : t.from = s
    BY DEF StartsOf
  <2> QED
    BY <1>4, <2>1, <2>2, <2>3
<1>7. ASSUME NEW x \in T, NEW y \in T, x.from = y.from PROVE x = y
  <2>1. PICK t \in Range(i.rates) : x = Zipped(b, i, t)
    OBVIOUS
  <2>2. PICK u \in Range(i.rates) : y = Zipped(b, i, u)
    OBVIOUS
  <2>3. t = u
    BY <1>7, <2>1, <2>2, ZippedApart
  <2> QED
    BY <2>1, <2>2, <2>3
<1> HIDE DEF T
<1>8. Tile(T)
  BY <1>3, <1>5, <1>6, <1>7, ChainTiles
<1> QED
  BY <1>8 DEF T

LEMMA TiersTileOf ==
  ASSUME NEW how, how.rate \in Ways, how.rate # "split", BoundsRise(how),
         NEW i, Item(i), Tile(Range(i.rates)), NEW d, d \notin DOMAIN how.ladder,
         NEW t \in Tiers(how, i, d), t.to # 0
  PROVE  Tile(Tiers(how, i, d))
<1>1. \A x : Tile(Flat(x))
  BY FlatTiles DEF Flat
<1>2. CASE \E x : Tiers(how, i, d) = Flat(x)
  BY <1>1, <1>2
<1>3. CASE Tiers(how, i, d) = UNION {Flat(i.rates[k].usd) : k \in FirstPaid(i)}
  <2>1. PICK k \in FirstPaid(i) : TRUE
    BY <1>3
  <2>2. FirstPaid(i) = {k}
    BY OneFirstPaid
  <2>3. Tiers(how, i, d) = Flat(i.rates[k].usd)
    BY <1>3, <2>2
  <2> QED
    BY <1>1, <2>3
<1>4. CASE Tiers(how, i, d) = UNION {Flat(v.usd) : v \in Highest(i)}
  <2>1. PICK v \in Highest(i) : TRUE
    BY <1>4
  <2>2. Highest(i) = {v}
    BY OneHighest
  <2>3. Tiers(how, i, d) = Flat(v.usd)
    BY <1>4, <2>2
  <2> QED
    BY <1>1, <2>3
<1>5. CASE Tiers(how, i, d) = Range(i.rates)
  BY <1>5
<1>6. CASE Tiers(how, i, d) = {Chained(i, v) : v \in Range(i.rates)}
  <2> DEFINE S == StartsOf(i)
             T == {Chained(i, v) : v \in Range(i.rates)}
  <2>1. S \in SUBSET (0..Unbounded - 1) /\ \A v, w \in Range(i.rates) : v.from = w.from => v = w
    BY StartsAre
  <2>2. 0 \in S
    BY DEF Tile, StartsOf
  <2>3. \A v \in Range(i.rates) :
          v.from \in S /\ Chained(i, v).from = v.from /\ Chained(i, v).to = Following(S, v.from)
    BY RatesAre DEF Chained, StartsOf, Rate
  <2>4. \A x \in T : x.from \in S /\ x.to = Following(S, x.from)
    BY <2>3
  <2>5. \A c \in S : \E x \in T : x.from = c
    BY <2>3 DEF StartsOf
  <2>6. \A x, y \in T : x # y => x.from # y.from
    BY <2>1, <2>3
  <2> HIDE DEF S, T
  <2>7. Tile(T)
    BY <2>1, <2>2, <2>4, <2>5, <2>6, ChainTiles
  <2> QED
    BY <1>6, <2>7 DEF T
<1>7. CASE Tiers(how, i, d) = {Misfit}
  BY <1>7 DEF Misfit
<1>8. CASE /\ d \in DOMAIN how.bounds /\ Len(i.rates) = Len(how.bounds[d])
           /\ Tiers(how, i, d) = {Zipped(how.bounds[d], i, v) : v \in Range(i.rates)}
  <2> DEFINE b == how.bounds[d]
  <2>1. /\ b \in Seq(0..Unbounded - 1) /\ b # <<>> /\ b[1] = 0
        /\ \A k, l \in DOMAIN b : k < l => b[k] < b[l]
    BY <1>8 DEF BoundsRise
  <2>2. Len(i.rates) = Len(b)
    BY <1>8
  <2> HIDE DEF b
  <2>3. Tile({Zipped(b, i, v) : v \in Range(i.rates)})
    BY <2>1, <2>2, ZippedTile
  <2> QED
    BY <1>8, <2>3 DEF b
<1>9. \/ Tiers(how, i, d) = Flat(Head(i.rates).usd)
      \/ Tiers(how, i, d) = UNION {Flat(i.rates[k].usd) : k \in FirstPaid(i)}
      \/ Tiers(how, i, d) = UNION {Flat(v.usd) : v \in Highest(i)}
      \/ Tiers(how, i, d) = Range(i.rates)
      \/ Tiers(how, i, d) = {Chained(i, v) : v \in Range(i.rates)}
      \/ Tiers(how, i, d) = {Misfit}
      \/ /\ d \in DOMAIN how.bounds /\ Len(i.rates) = Len(how.bounds[d])
         /\ Tiers(how, i, d) = {Zipped(how.bounds[d], i, v) : v \in Range(i.rates)}
  BY TiersAre, Zenon
<1> QED
  BY <1>2, <1>3, <1>4, <1>5, <1>6, <1>7, <1>8, <1>9

(* What the items are asked for. *)
DocTiles ==
  \A i \in feed.doc : Taken(How, i) =>
    Tile(Range(i.rates)) /\ (How.rate = "split" => Len(i.rates) = 2)

(* An item fills in a tier of each dimension it sells a row in. *)
LEMMA FillsHere ==
  ASSUME NEW how, \A x \in Priced(how) : IsPair(x), NEW i, NEW p \in Fills(how, i),
         NEW e, <<p.row.name, e>> \in how.sells[i.kind],
         NEW t \in Tiers(how, i, e), e \in how.paid => t.usd > 0
  PROVE  \E q \in Fills(how, i) : q.row = p.row /\ q.dim = e /\ q.from = t.from /\ q.to = t.to
<1>1. ~(~Taken(how, i) \/ (how.odd = "skip" /\ i.unit = "odd"))
  BY FillsAre
<1>2. p.row.region \in Places(how, i)
      /\ \E u \in Tiers(how, i, p.dim) : FillTier(how, i, p, u)
  BY FillSays
<1> DEFINE s == <<p.row.name, e>>
           r == p.row.region
           q == FillOf(how, i, s, r, t)
<1>3. s \in how.sells[i.kind] /\ s[2] = e
  OBVIOUS
<1>4. Made(how, i, q, s, r, t)
  BY DEF Made
<1>5. q.row = p.row /\ q.dim = e /\ q.from = t.from /\ q.to = t.to
  BY <1>2 DEF FillTier, FillOf
<1> HIDE DEF q, s
<1>6. q \in Fills(how, i)
  BY <1>1, <1>2, <1>3, <1>4, FillsAre
<1> QED
  BY <1>5, <1>6

(* All tiers of a cell it fills in are there. *)
LEMMA CellFills ==
  ASSUME AllKept, DocTiles, How.rate # "split", NEW i \in feed.doc, NEW p \in Fills(How, i),
         p.dim \notin DOMAIN How.ladder, p.to # 0
  PROVE  /\ Tile(Tiers(How, i, p.dim))
         /\ \A t \in Tiers(How, i, p.dim) : \E q \in Fills(How, i) :
              q.row = p.row /\ q.dim = p.dim /\ q.from = t.from /\ q.to = t.to
<1>1. /\ feed.src \in DOMAIN Policy /\ Item(i) /\ How.rate \in Ways
      /\ \A x \in Priced(How) : IsPair(x)
  BY PolicyGiven DEF AllKept, IInv, TypeOK
<1>2. BoundsRise(How) /\ (How.paid # {} => How.rate \in {"head", "positive", "top", "open"})
  BY <1>1, TiersPlain, Zenon DEF BoundsRise, How
<1>3. /\ Taken(How, i) /\ <<p.row.name, p.dim>> \in How.sells[i.kind]
      /\ \E t \in Tiers(How, i, p.dim) : FillTier(How, i, p, t)
  BY <1>1, FillSays
<1>4. PICK t \in Tiers(How, i, p.dim) : FillTier(How, i, p, t)
  BY <1>3
<1>5. t.to # 0 /\ (p.dim \in How.paid => t.usd > 0)
  BY <1>4 DEF FillTier
<1>6. Tile(Range(i.rates))
  BY <1>3 DEF DocTiles
<1>7. Tile(Tiers(How, i, p.dim))
  BY <1>1, <1>2, <1>5, <1>6, TiersTileOf
<1>8. ASSUME NEW u \in Tiers(How, i, p.dim), p.dim \in How.paid PROVE u.usd > 0
  <2>1. How.rate \in {"head", "positive", "top", "open"}
    BY <1>2, <1>8
  <2>2. ASSUME NEW v \in Tiers(How, i, p.dim) PROVE v.from = 0
    <3>1. ASSUME NEW x, NEW w \in Flat(x) PROVE w.from = 0
      BY DEF Flat
    <3>2. CASE How.rate = "head"
      BY <3>1, <3>2, Zenon DEF Tiers
    <3>3. CASE How.rate = "positive"
      BY <3>1, <3>3 DEF Tiers
    <3>4. CASE How.rate = "top"
      BY <3>1, <3>4 DEF Tiers
    <3>5. CASE How.rate = "open"
      BY <3>1, <3>5 DEF Tiers
    <3> QED
      BY <2>1, <3>2, <3>3, <3>4, <3>5
  <2>3. u = t
    BY <1>1, <1>2, <2>2, TiersApart
  <2> QED
    BY <1>5, <1>8, <2>3
<1>9. ASSUME NEW u \in Tiers(How, i, p.dim)
      PROVE  \E q \in Fills(How, i) :
               q.row = p.row /\ q.dim = p.dim /\ q.from = u.from /\ q.to = u.to
  BY <1>1, <1>3, <1>8, FillsHere
<1> QED
  BY <1>7, <1>9

(* So the prices of a cell are of one item, and tile. *)
LEMMA CellTiles ==
  ASSUME AllKept, DocTiles, How.rate # "split", NEW row, NEW d, d \notin DOMAIN How.ladder,
         NEW p \in OfDim(KeptOf(How, acc, row), d),
         \A q \in OfDim(KeptOf(How, acc, row), d) : q.to # 0
  PROVE  Tile(OfDim(KeptOf(How, acc, row), d))
<1> DEFINE ps == OfDim(KeptOf(How, acc, row), d)
<1>1. \A q \in ps : q \in acc /\ q.row = row /\ q.dim = d /\ q.to # 0
  BY DEF OfDim, KeptOf
<1>2. ASSUME NEW q \in acc, q.row = row, q.dim = d PROVE q \in ps
  BY <1>2 DEF OfDim, KeptOf
<1>3. \A x \in Priced(How) : IsPair(x)
  BY PolicyGiven DEF AllKept
<1> HIDE DEF ps
<1>4. p \in ps
  BY DEF ps
<1>5. PICK i \in feed.doc : p \in Fills(How, i)
  BY <1>1, <1>4, KeptFrom
<1>6. /\ Tile(Tiers(How, i, d))
      /\ \A t \in Tiers(How, i, d) : \E q \in Fills(How, i) :
           q.row = row /\ q.dim = d /\ q.from = t.from /\ q.to = t.to
  BY <1>1, <1>4, <1>5, CellFills
<1>7. ASSUME NEW q \in ps PROVE \E t \in Tiers(How, i, d) : q.from = t.from /\ q.to = t.to
  <2>1. PICK j \in feed.doc : q \in Fills(How, j)
    BY <1>1, KeptFrom
  <2>2. j = i
    <3> SUFFICES ASSUME j # i PROVE FALSE
      OBVIOUS
    <3>1. /\ Tile(Tiers(How, j, d))
          /\ \A t \in Tiers(How, j, d) : \E x \in Fills(How, j) :
               x.row = row /\ x.dim = d /\ x.from = t.from /\ x.to = t.to
      BY <1>1, <2>1, CellFills
    <3>2. PICK t \in Tiers(How, i, d) : t.from = 0
      BY <1>6 DEF Tile
    <3>3. PICK x \in Fills(How, i) : x.row = row /\ x.dim = d /\ x.from = 0
      BY <1>6, <3>2
    <3>4. PICK u \in Tiers(How, j, d) : u.from = 0
      BY <3>1 DEF Tile
    <3>5. PICK y \in Fills(How, j) : y.row = row /\ y.dim = d /\ y.from = 0
      BY <3>1, <3>4
    <3>6. Cell(x) = Cell(y)
      BY <3>3, <3>5 DEF Cell
    <3>7. AddUp(How, x, y)
      BY <3>6, MetAddUp
    <3> QED
      BY <3>3, <3>5, <3>7 DEF AddUp, At
  <2>3. PICK t \in Tiers(How, i, q.dim) : FillTier(How, i, q, t)
    BY <1>3, <2>1, <2>2, FillSays
  <2> QED
    BY <1>1, <2>3 DEF FillTier
<1>8. ASSUME NEW t \in Tiers(How, i, d) PROVE \E q \in ps : q.from = t.from /\ q.to = t.to
  <2>1. PICK q \in Fills(How, i) : q.row = row /\ q.dim = d /\ q.from = t.from /\ q.to = t.to
    BY <1>6
  <2>2. q \in acc
    BY KeptFrom
  <2> QED
    BY <1>2, <2>1, <2>2
<1>9. ASSUME NEW x \in ps, NEW y \in ps, x.from = y.from PROVE x = y
  <2>1. Cell(x) = Cell(y) /\ x \in acc /\ y \in acc /\ x.dim \notin DOMAIN How.ladder
    BY <1>1 DEF Cell
  <2> QED
    BY <1>9, <2>1, OneInCell
<1>10. Tile(ps)
  BY <1>6, <1>7, <1>8, <1>9, TileCarried
<1> QED
  BY <1>10 DEF ps

(* An item of two rates gives a free tier and a paid one above it. *)
LEMMA SplitTiers ==
  ASSUME NEW how, how.rate = "split", how.based = {}, NEW i, Item(i),
         Tile(Range(i.rates)), Len(i.rates) = 2
  PROVE  \E u, v \in Range(i.rates) :
           /\ u.from = 0 /\ u.to = v.from /\ v.from \in 1..Unbounded - 1
           /\ Tiers(how, i, "free") = {[u EXCEPT !.usd = 0]}
           /\ \A d : d # "free" => Tiers(how, i, d) = {[v EXCEPT !.to = Unbounded]}
<1>1. DOMAIN i.rates = {1, 2}
  BY DEF Item
<1>2. PICK k \in {1, 2} : i.rates[k].from = 0
  BY <1>1 DEF Tile, Range
<1> DEFINE l == IF k = 1 THEN 2 ELSE 1
           u == i.rates[k]
           v == i.rates[l]
<1>3. l \in {1, 2} /\ l # k /\ \A x \in {1, 2} : x = k \/ x = l
  OBVIOUS
<1>4. u.from # v.from
  BY <1>1, <1>3 DEF Item
<1> HIDE DEF l
<1>5. u \in Rate /\ v \in Rate /\ u \in Range(i.rates) /\ v \in Range(i.rates)
  BY <1>1, <1>3, RatesAre
<1>6. \A t \in Range(i.rates) : t = u \/ t = v
  BY <1>1, <1>3 DEF Range
<1>7. v.from \in 1..Unbounded - 1
  BY <1>2, <1>4, <1>5 DEF Rate, Unbounded
<1>8. u.to = v.from
  <2>1. PICK t \in Range(i.rates) : t.to = v.from
    BY <1>2, <1>4, <1>5 DEF Tile
  <2>2. v.from < v.to
    BY <1>5 DEF Tile
  <2>3. v.to # v.from
    BY <1>5, <2>2 DEF Rate, Unbounded
  <2> QED
    BY <1>6, <2>1, <2>3
<1>9. HalfOf(i, "free") = {k}
  BY <1>1, <1>2, <1>3, <1>4 DEF HalfOf
<1>10. LastOf(i, "free") = {u}
  <2>1. \A x \in HalfOf(i, "free") : x <= k
    BY <1>9
  <2>2. {x \in HalfOf(i, "free") : \A y \in HalfOf(i, "free") : y <= x} = {k}
    BY <1>9, <2>1
  <2> QED
    BY <2>2 DEF LastOf
<1>11. ASSUME NEW d, d # "free" PROVE LastOf(i, d) = {v}
  <2>1. HalfOf(i, d) = {l}
    BY <1>1, <1>2, <1>3, <1>4, <1>11 DEF HalfOf
  <2>2. l <= l
    BY <1>3
  <2>3. {x \in HalfOf(i, d) : \A y \in HalfOf(i, d) : y <= x} = {l}
    BY <2>1, <2>2
  <2> QED
    BY <2>3 DEF LastOf
<1>12. Tiers(how, i, "free") = {[t EXCEPT !.usd = 0] : t \in LastOf(i, "free")}
  BY DEF Tiers, LastOf, HalfOf
<1>13. ASSUME NEW d, d # "free" PROVE Tiers(how, i, d) = {[t EXCEPT !.to = Unbounded] : t \in LastOf(i, d)}
  BY <1>13 DEF Tiers, LastOf, HalfOf
<1>14. Tiers(how, i, "free") = {[u EXCEPT !.usd = 0]}
  BY <1>10, <1>12
<1>15. ASSUME NEW d, d # "free" PROVE Tiers(how, i, d) = {[v EXCEPT !.to = Unbounded]}
  BY <1>11, <1>13, <1>15
<1> QED
  BY <1>2, <1>5, <1>7, <1>8, <1>14, <1>15

(* It fills in both, shown as one. *)
Halves(i, p, f, q) ==
  /\ f \in Fills(How, i) /\ q \in Fills(How, i)
  /\ f.row = p.row /\ q.row = p.row
  /\ f.dim = "free" /\ q.dim # "free" /\ p \in {f, q}
  /\ Shown(f.dim) = Shown(p.dim) /\ Shown(q.dim) = Shown(p.dim)
  /\ f.from = 0 /\ f.to = q.from /\ q.from \in 1..Unbounded - 1 /\ q.to = Unbounded

LEMMA SplitHalves ==
  ASSUME AllKept, DocTiles, How.rate = "split", NEW i \in feed.doc, NEW p \in Fills(How, i)
  PROVE  \E f, q : Halves(i, p, f, q)
<1>1. /\ feed.src \in DOMAIN Policy /\ Item(i)
      /\ \A x \in Priced(How) : IsPair(x)
      /\ How.paid = {}
  BY PolicyGiven DEF AllKept, IInv, TypeOK
<1>2. Taken(How, i) /\ <<p.row.name, p.dim>> \in How.sells[i.kind]
  BY <1>1, FillSays
<1>3. /\ How.based = {}
      /\ \A k \in DOMAIN How.sells : \A x \in How.sells[k] : \E y \in How.sells[k] :
           /\ y[1] = x[1] /\ At(How.shown, y[2], y[2]) = At(How.shown, x[2], x[2])
           /\ (y[2] = "free") # (x[2] = "free")
  BY <1>1, SplitPaired, Zenon DEF How
<1> DEFINE x == <<p.row.name, p.dim>>
<1>4. x[1] = p.row.name /\ x[2] = p.dim
  OBVIOUS
<1> HIDE DEF x
<1>5. PICK y \in How.sells[i.kind] :
        /\ y[1] = p.row.name /\ At(How.shown, y[2], y[2]) = At(How.shown, p.dim, p.dim)
        /\ (y[2] = "free") # (p.dim = "free")
  <2>1. i.kind \in DOMAIN How.sells /\ x \in How.sells[i.kind]
    BY <1>2 DEF Taken, x
  <2> QED
    BY <1>3, <1>4, <2>1
<1>6. <<p.row.name, y[2]>> \in How.sells[i.kind]
  <2>1. y \in Priced(How)
    BY <1>2, <1>5 DEF Priced, Range, Taken
  <2> QED
    BY <1>1, <1>5, <2>1 DEF IsPair
<1>7. Tile(Range(i.rates)) /\ Len(i.rates) = 2
  BY <1>2 DEF DocTiles
<1>8. PICK u \in Range(i.rates), v \in Range(i.rates) :
        /\ u.from = 0 /\ u.to = v.from /\ v.from \in 1..Unbounded - 1
        /\ Tiers(How, i, "free") = {[u EXCEPT !.usd = 0]}
        /\ \A d : d # "free" => Tiers(How, i, d) = {[v EXCEPT !.to = Unbounded]}
  BY <1>1, <1>3, <1>7, SplitTiers
<1>9. u \in Rate /\ v \in Rate
  BY <1>1, RatesAre
<1> DEFINE e == IF p.dim = "free" THEN y[2] ELSE p.dim
<1>10. /\ e # "free" /\ p.dim \in {"free", e}
       /\ <<p.row.name, "free">> \in How.sells[i.kind] /\ <<p.row.name, e>> \in How.sells[i.kind]
       /\ Shown("free") = Shown(p.dim) /\ Shown(e) = Shown(p.dim)
  BY <1>2, <1>5, <1>6 DEF Shown
<1> HIDE DEF e
<1> DEFINE t == [u EXCEPT !.usd = 0]
           w == [v EXCEPT !.to = Unbounded]
<1>11. t \in Tiers(How, i, "free") /\ w \in Tiers(How, i, e)
  BY <1>8, <1>10
<1>12. t.from = 0 /\ t.to = v.from /\ w.from = v.from /\ w.to = Unbounded
  BY <1>8, <1>9 DEF Rate
<1> HIDE DEF t, w
<1>13. PICK f \in Fills(How, i) : f.row = p.row /\ f.dim = "free" /\ f.from = t.from /\ f.to = t.to
  BY <1>1, <1>10, <1>11, FillsHere
<1>14. PICK q \in Fills(How, i) : q.row = p.row /\ q.dim = e /\ q.from = w.from /\ q.to = w.to
  BY <1>1, <1>10, <1>11, FillsHere
<1>15. p \in {f, q}
  <2>1. PICK z \in Tiers(How, i, p.dim) : FillTier(How, i, p, z)
    BY <1>1, FillSays
  <2>2. IInv /\ z.from = p.from /\ p.dim \in {"free", e}
    BY <1>10, <2>1 DEF AllKept, FillTier
  <2>3. CASE p.dim = "free"
    <3>1. z = t
      BY <1>8, <2>1, <2>3 DEF t
    <3>2. Cell(p) = Cell(f) /\ p.from = f.from
      BY <1>13, <2>2, <2>3, <3>1 DEF Cell
    <3> QED
      BY <2>2, <3>2, OneTier
  <2>4. CASE p.dim = e
    <3>1. z = w
      BY <1>8, <1>10, <2>1, <2>4 DEF w
    <3>2. Cell(p) = Cell(q) /\ p.from = q.from
      BY <1>14, <2>2, <2>4, <3>1 DEF Cell
    <3> QED
      BY <2>2, <3>2, OneTier
  <2> QED
    BY <2>2, <2>3, <2>4
<1>16. Halves(i, p, f, q)
  BY <1>8, <1>10, <1>12, <1>13, <1>14, <1>15 DEF Halves
<1> QED
  BY <1>16

(* What a row has that is not its own is flat, and alone in its dimension. *)
LEMMA NotOwnFlat ==
  ASSUME AllKept, NEW row, NEW x \in Parts(How, acc, row), x \notin OwnParts(How, acc, row)
  PROVE  /\ x.from = 0 /\ x.to = Unbounded
         /\ \A y \in OwnParts(How, acc, row) : y.dim # x.dim
<1>1. CASE x \in WideParts(How, acc, row)
  <2>1. x \in acc /\ How.spread # {} /\ \A y \in OwnParts(How, acc, row) : y.dim # x.dim
    BY <1>1 DEF WideParts
  <2>2. How.rate = "head" /\ \A z \in Priced(How) : IsPair(z)
    BY <2>1, PolicyGiven DEF AllKept
  <2>3. PICK i \in feed.doc : x \in Fills(How, i)
    BY <2>1, KeptFrom
  <2>4. PICK t \in Tiers(How, i, x.dim) : FillTier(How, i, x, t)
    BY <2>2, <2>3, FillSays
  <2>5. t.from = 0 /\ t.to = Unbounded
    BY <2>2 DEF Tiers, Flat
  <2> QED
    BY <2>1, <2>4, <2>5 DEF FillTier
<1>2. CASE \E s \in Lacking(How, acc, row) : x = ByDefault(How, row, s)
  BY <1>2 DEF Lacking, ByDefault
<1> QED
  BY <1>1, <1>2, PartsAre

(* What is shown as one dimension of a row tiles. *)
Spans(T, U) ==
  /\ \A u \in U : \E t \in T : u.from = t.from /\ u.to = t.to
  /\ \A t \in T : \E u \in U : u.from = t.from /\ u.to = t.to

ShownAs(row, e) == {y \in Parts(How, acc, row) : Shown(y.dim) = e}

LEMMA HalvesShown ==
  ASSUME AllKept, DocTiles, How.rate = "split", NEW row \in Opened(How, acc),
         NEW x \in OwnParts(How, acc, row)
  PROVE  \E T : Tile(T) /\ Spans(T, ShownAs(row, Shown(x.dim)))
<1>1. feed.src \in DOMAIN Policy /\ (How.spread # {} => How.rate = "head")
  BY PolicyGiven DEF AllKept, IInv, TypeOK
<1>2. How.spread = {} /\ How.ladder = <<>> /\ How.spare = {}
  BY <1>1, TiersPlain, SplitPaired, Zenon DEF How
<1>3. OwnParts(How, acc, row) = {p \in acc : p.row = row}
  <2>1. KeptOf(How, acc, row) = {p \in acc : p.row = row}
    BY <1>2 DEF KeptOf
  <2> QED
    BY <1>2, <2>1, NoLadder DEF OwnParts
<1>4. OwnParts(How, acc, row) \subseteq Parts(How, acc, row)
  BY PartsAre
<1>5. PICK i \in feed.doc : x \in Fills(How, i)
  BY <1>3, KeptFrom
<1>6. PICK f, q : Halves(i, x, f, q)
  BY <1>5, SplitHalves
<1>7. /\ f \in ShownAs(row, Shown(x.dim)) /\ q \in ShownAs(row, Shown(x.dim))
      /\ f \in acc /\ q \in acc /\ f.row = row /\ q.row = row
  BY <1>3, <1>4, <1>6, KeptFrom DEF Halves, ShownAs
<1>8. ASSUME NEW z \in ShownAs(row, Shown(x.dim)) PROVE z = f \/ z = q
  <2>1. z \in OwnParts(How, acc, row)
    <3>1. CASE z.dim = x.dim
      BY <3>1, NotOwnFlat DEF ShownAs
    <3>2. CASE z.dim # x.dim
      <4>1. z \in KeptOf(How, acc, row)
        BY <1>4, <3>2, ShownTwice DEF ShownAs
      <4> QED
        BY <1>3, <4>1 DEF KeptOf
    <3> QED
      BY <3>1, <3>2
  <2>2. z \in acc /\ z.row = row
    BY <1>3, <2>1
  <2>3. PICK j \in feed.doc : z \in Fills(How, j)
    BY <2>2, KeptFrom
  <2>4. PICK g, h : Halves(j, z, g, h)
    BY <2>3, SplitHalves
  <2>5. /\ g \in ShownAs(row, Shown(x.dim)) /\ h \in ShownAs(row, Shown(x.dim))
        /\ g \in acc /\ h \in acc /\ g.row = row /\ h.row = row
    BY <1>3, <1>4, <2>2, <2>4, KeptFrom DEF Halves, ShownAs
  <2>6. "free" \notin DOMAIN How.ladder /\ h.dim \notin DOMAIN How.ladder
    BY <1>2
  <2>7. g = f
    <3>1. Cell(g) = Cell(f) /\ g.from = f.from /\ g.dim = "free"
      BY <1>6, <1>7, <2>4, <2>5 DEF Halves, Cell
    <3> QED
      BY <1>7, <2>5, <2>6, <3>1, OneInCell
  <2>8. h.dim = q.dim
    <3> SUFFICES ASSUME h.dim # q.dim PROVE FALSE
      OBVIOUS
    <3>1. (h.dim = "free") # (q.dim = "free")
      BY <1>7, <2>5, ShownTwice DEF ShownAs
    <3> QED
      BY <1>6, <2>4, <3>1 DEF Halves
  <2>9. h = q
    <3>1. Cell(h) = Cell(q) /\ h.from = q.from
      BY <1>6, <1>7, <2>4, <2>5, <2>7, <2>8 DEF Halves, Cell
    <3> QED
      BY <1>7, <2>5, <2>6, <3>1, OneInCell
  <2> QED
    BY <2>4, <2>7, <2>9 DEF Halves
<1>9. ShownAs(row, Shown(x.dim)) = {f, q}
  BY <1>7, <1>8
<1>10. Tile({f, q})
  BY <1>6, HalvesTile DEF Halves
<1>11. Spans({f, q}, ShownAs(row, Shown(x.dim)))
  BY <1>9 DEF Spans
<1> QED
  BY <1>10, <1>11

LEMMA ShownTiles ==
  ASSUME AllKept, DocTiles, NEW row \in Opened(How, acc), NEW x \in Parts(How, acc, row),
         \A y \in Parts(How, acc, row) : y.to # 0
  PROVE  \E T : Tile(T) /\ Spans(T, ShownAs(row, Shown(x.dim)))
<1> DEFINE own == OwnParts(How, acc, row)
           d == x.dim
<1>1. own \subseteq Parts(How, acc, row)
  BY PartsAre
<1>2. CASE x \notin own
  <2>1. x.from = 0 /\ x.to = Unbounded /\ \A y \in own : y.dim # x.dim
    BY <1>2, NotOwnFlat
  <2>2. ASSUME NEW z \in ShownAs(row, Shown(d)) PROVE z = x
    <3>1. z.dim = x.dim
      <4> SUFFICES ASSUME z.dim # x.dim PROVE FALSE
        OBVIOUS
      <4>1. x \in KeptOf(How, acc, row) /\ How.ladder = <<>>
        BY ShownTwice DEF ShownAs
      <4> QED
        BY <1>2, <4>1, NoLadder DEF OwnParts
    <3>2. z \in Parts(How, acc, row) /\ z \notin own
      BY <2>1, <3>1 DEF ShownAs
    <3>3. z.from = 0
      BY <3>2, NotOwnFlat
    <3> QED
      BY <2>1, <3>1, <3>2, <3>3, PartsApart
  <2>3. x \in ShownAs(row, Shown(d))
    BY DEF ShownAs
  <2>4. ShownAs(row, Shown(d)) = {x}
    BY <2>2, <2>3
  <2>5. Tile({x})
    BY <2>1, FlatTiles
  <2> QED
    BY <2>4, <2>5 DEF Spans
<1>3. CASE x \in own /\ How.rate = "split"
  BY <1>3, HalvesShown
<1>4. CASE x \in own /\ How.rate # "split"
  <2>1. ShownAs(row, Shown(d)) = OfDim(own, d)
    <3>1. ASSUME NEW z \in ShownAs(row, Shown(d)) PROVE z \in own /\ z.dim = d
      <4>1. z \in Parts(How, acc, row) /\ Shown(z.dim) = Shown(x.dim)
        BY DEF ShownAs
      <4>2. z.dim = x.dim
        BY <1>4, <4>1, ShownTwice
      <4> QED
        BY <1>4, <4>1, <4>2, NotOwnFlat
    <3>2. ASSUME NEW z \in own, z.dim = d PROVE z \in ShownAs(row, Shown(d))
      BY <1>1, <3>2 DEF ShownAs
    <3> HIDE DEF own, d
    <3> QED
      BY <3>1, <3>2 DEF OfDim, ShownAs
  <2> DEFINE ps == OfDim(KeptOf(How, acc, row), d)
  <2>2. \A p \in KeptOf(How, acc, row) : IsPrice(p) /\ p \in acc
    BY AccKept DEF AllKept, KeptOf, IsKept
  <2>3. OfDim(own, d) = IF d \in DOMAIN How.ladder THEN Rungs(How.ladder[d], ps) ELSE ps
    BY <2>2, LadderedOf DEF OwnParts
  <2>4. x \in OfDim(own, d)
    BY <1>4 DEF OfDim
  <2>5. Tile(OfDim(own, d))
    <3>1. CASE d \in DOMAIN How.ladder
      <4>1. Rungable(ps)
        BY <3>1, LadderRungable DEF OfDim
      <4>2. x \in Rungs(How.ladder[d], ps)
        BY <2>3, <2>4, <3>1
      <4> HIDE DEF ps, d, own
      <4>3. ps # {}
        BY <4>1, <4>2, RungsKeep DEF Rungable
      <4>4. Tile(Rungs(How.ladder[d], ps))
        BY <4>1, <4>2, <4>3, RungsTile
      <4> QED
        BY <2>3, <3>1, <4>4
    <3>2. CASE d \notin DOMAIN How.ladder
      <4>1. x \in ps /\ OfDim(own, d) = ps
        BY <2>3, <2>4, <3>2
      <4>2. \A q \in ps : q.to # 0
        <5>1. \A q \in OfDim(own, d) : q \in Parts(How, acc, row)
          BY <1>1 DEF OfDim
        <5> QED
          BY <4>1, <5>1
      <4>3. Tile(ps)
        <5> HIDE DEF d
        <5> QED
          BY <1>4, <3>2, <4>1, <4>2, CellTiles
      <4> QED
        BY <4>1, <4>3
    <3> QED
      BY <3>1, <3>2
  <2>6. Spans(OfDim(own, d), OfDim(own, d))
    BY DEF Spans
  <2> QED
    BY <2>1, <2>5, <2>6
<1> QED
  BY <1>2, <1>3, <1>4

(* So do the prices of a row, dimension by dimension. *)
LEMMA PricesTile ==
  ASSUME AllKept, DocTiles, NEW row \in Opened(How, acc),
         \A y \in Parts(How, acc, row) : y.to # 0,
         NEW p \in PriceList(How, row, Parts(How, acc, row))
  PROVE  Tile(OfDim(PriceList(How, row, Parts(How, acc, row)), p.dim))
<1> DEFINE parts == Parts(How, acc, row)
           list == PriceList(How, row, parts)
           U == OfDim(list, p.dim)
<1>1. CASE row.name \in How.summed
  <2>1. PICK total : list = {[dim |-> "compute", from |-> 0, to |-> Unbounded, n |-> Nobody,
                              usd |-> total]}
    BY <1>1, PricesAre
  <2>2. U = {p} /\ p.from = 0 /\ p.to = Unbounded
    BY <2>1 DEF OfDim
  <2> QED
    BY <2>2, FlatTiles
<1>2. CASE row.name \notin How.summed
  <2>1. list = {Published(How, x) : x \in parts}
    BY <1>2, PricesAre
  <2>2. \A x \in parts : /\ Published(How, x).dim = Shown(x.dim)
                         /\ Published(How, x).from = x.from /\ Published(How, x).to = x.to
    BY DEF Published, Shown
  <2>3. PICK x \in parts : p = Published(How, x)
    BY <2>1
  <2>4. p.dim = Shown(x.dim)
    BY <2>2, <2>3
  <2>5. PICK T : Tile(T) /\ Spans(T, ShownAs(row, p.dim))
    BY <2>4, ShownTiles
  <2>6. ASSUME NEW u \in U PROVE \E y \in ShownAs(row, p.dim) : u.from = y.from /\ u.to = y.to
    <3>1. PICK y \in parts : u = Published(How, y)
      BY <2>1 DEF OfDim
    <3>2. u.dim = p.dim
      BY DEF OfDim
    <3> QED
      BY <2>2, <3>1, <3>2 DEF ShownAs
  <2>7. ASSUME NEW y \in ShownAs(row, p.dim) PROVE \E u \in U : u.from = y.from /\ u.to = y.to
    <3>1. y \in parts /\ Shown(y.dim) = p.dim
      BY DEF ShownAs
    <3>2. Published(How, y) \in U
      BY <2>1, <2>2, <3>1 DEF OfDim
    <3> QED
      BY <2>2, <3>1, <3>2
  <2>8. ASSUME NEW u \in U, NEW v \in U, u.from = v.from PROVE u = v
    <3>1. u \in list /\ v \in list /\ u.dim = v.dim
      BY DEF OfDim
    <3> QED
      BY <2>8, <3>1, PricesTold
  <2> HIDE DEF U
  <2>9. \A u \in U : \E t \in T : u.from = t.from /\ u.to = t.to
    BY <2>5, <2>6 DEF Spans
  <2>10. \A t \in T : \E u \in U : u.from = t.from /\ u.to = t.to
    BY <2>5, <2>7 DEF Spans
  <2>11. Tile(U)
    BY <2>5, <2>8, <2>9, <2>10, TileCarried
  <2> QED
    BY <2>11 DEF U
<1> QED
  BY <1>1, <1>2

(* A price published in tiers has one for every amount: where the rates of  *)
(* the items of an unambiguous document follow each other, the tiers of a   *)
(* row do, whichever way a source makes them (the tier loops of the ingest  *)
(* modules).                                                               *)
THEOREM TiersTileCorrect == Spec => []TiersTile
<1>1. IInv => TiersTile
  <2> SUFFICES ASSUME IInv, Written, Unambiguous(How, feed.doc), DocTiles,
                      NEW r \in rows, NEW p \in r.prices
               PROVE  Tile({q \in r.prices : q.dim = p.dim})
    BY DEF TiersTile, DocTiles
  <2>1. rows = RowsOf(How, acc) /\ todo = {} /\ phase # "raised" /\ ~Malformed(How, acc)
    BY DEF IInv, RowsMade, Written
  <2>2. AllKept
    BY <2>1 DEF AllKept
  <2>3. PICK row \in Opened(How, acc) :
           /\ Whole(How, row, Parts(How, acc, row))
           /\ r.prices = PriceList(How, row, Parts(How, acc, row))
    BY <2>1, RowsAre
  <2>4. \A y \in Parts(How, acc, row) : y.to # 0
    BY <2>1, <2>3 DEF Malformed
  <2>5. Tile(OfDim(r.prices, p.dim))
    BY <2>2, <2>3, <2>4, PricesTile
  <2> QED
    BY <2>5 DEF OfDim
<1> QED
  BY <1>1, Invariance, PTL

=============================================================================
