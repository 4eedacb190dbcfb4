----------------------------- MODULE MCUpstream -----------------------------
(* One source of each shape, and of each way to look a price up. *)
EXTENDS Upstream

source(name, shape, parts) ==
  [name |-> name, shape |-> shape, parts |-> parts, twin |-> FALSE, skipped |-> FALSE,
   primary |-> {}]

AllSources ==
  {[source("aws_rds", "offer", {1}) EXCEPT !.twin = TRUE],
   source("aws_ec2", "regions", 1..2),
   [source("gcp_gcs", "pages", {1}) EXCEPT !.primary = {"storage"}],
   source("gcp_gke", "pages", 1..2),
   source("azure", "pages", {1}),
   source("openrouter", "models", 1..2),
   [source("gcp_gce", "pages", {1}) EXCEPT !.skipped = TRUE]}

item(by, id, sku, name, region, dim, usd, part) ==
  [by |-> by, id |-> id, sku |-> sku, meter |-> name, name |-> name, region |-> region,
   dim |-> dim, usd |-> usd, lot |-> 1, tier |-> 0, part |-> part]

\* Version 2 changes little, version 3 changes something.
at(v, first, second, third) == CASE v = 1 -> first [] v = 2 -> second [] v = 3 -> third

\* m5 has two engines in the east, of which one comes to cost nothing; t3 has
\* one, and rises by a half per cent in the west.
Rds(v) ==
  LET rds(id, name, region, usd) == item("alike", id, <<id>>, name, region, "compute", usd, 1)
  IN  {rds("a", "m5", "east", 1000), rds("b", "m5", "east", at(v, 2000, 1000, 0)),
       rds("c", "t3", "west", at(v, 1000, 1005, 1200))}

\* A third product, with another operating system, in the first region.
Ec2(v) ==
  LET ec2(id, region, usd, part) == item("head", id, <<id>>, "m5", region, "compute", usd, part)
  IN  {ec2(1, 1, 1000, 1), ec2(2, 2, at(v, 1000, 1005, 800), 2), ec2(3, 1, 1500, 1)}

\* Four regions; the price of operations is another sku's.  One
\* sku_id is an id with a suffix, one no item has, and one has two rates.
Gcs(v) ==
  LET gcs(id, sku, name, region, dim, usd) ==
        item("sku", <<id>>, sku, name, region, dim, usd, 1)
  IN  {gcs("s1", <<"s1">>, "std", "east", "storage", at(v, 1000, 995, 995)),
       gcs("op", <<"s1">>, "std", "east", "ops", 40),
       gcs("s2", <<"s2", "west">>, "std", "west", "storage", at(v, 300, 300, 290)),
       gcs("s3", <<"made">>, "cold", "north", "storage", 200),
       gcs("s4", <<"s4">>, "cold", "south", "storage", 250),
       [gcs("s4", <<"s4">>, "cold", "south", "storage", 230) EXCEPT !.tier = 1]}

\* One cluster fee for all regions; pods of a region, two things in the west.
Gke(v) ==
  LET gke(by, id, name, region, usd) ==
        item(by, id, <<name, region>>, name, region, "vcpu", usd, IF region = "east" THEN 1 ELSE 2)
  IN  {gke("title", "k", "standard", "east", at(v, 100, 100, 120)),
       gke("title", "k", "standard", "west", at(v, 100, 100, 120)),
       gke("words", "p", "autopilot", "west", at(v, 60, 0, 60)),
       [gke("words", "q", "autopilot", "west", 70) EXCEPT !.sku = <<>>]}

\* A machine by the hour; storage by a hundred; a plan with an id of its own; a
\* free tier, at first; later a database whose meter has another name, and
\* another's meter.
Azure(v) ==
  LET azure(by, id, name, region, usd) == item(by, <<id>>, <<id>>, name, region, "rate", usd, 1)
  IN  {azure("meter", "vm", "D2", "east", at(v, 100, 100, 110)),
       [azure("meter", "st", "LRS", "east", at(v, 2, 2, 3)) EXCEPT !.lot = 100],
       azure("meterid", "p1", "P1", "west", at(v, 80, 80, 90))}
      \union IF v = 1 THEN {azure("free", "f", "aks-free", "west", 0)}
             ELSE {[azure("meter", "db", "Gen5", "west", 300) EXCEPT !.meter = "vCore"],
                   [azure("meter", "x", "Gen5", "west", 77) EXCEPT !.sku = <<>>]}

\* Two endpoints alike, but for the price.
Models(v) ==
  LET model(id, sku, name, dim, usd, part) ==
        item("endpoint", id, sku, name, "", dim, usd, part)
  IN  {model(1, <<"m", "all">>, "m", "prompt", 30, 1),
       model(2, <<"m", "p">>, "m", "prompt", at(v, 30, 30, 60), 2),
       model(3, <<"m", "p">>, "m", "prompt", 50, 2),
       model(2, <<"m", "p">>, "m", "request", at(v, 10, 10, 0), 2)}

Prices ==
  [aws_rds    |-> [v \in Versions |-> Rds(v)],
   aws_ec2    |-> [v \in Versions |-> Ec2(v)],
   gcp_gcs    |-> [v \in Versions |-> Gcs(v)],
   gcp_gke    |-> [v \in Versions |-> Gke(v)],
   azure      |-> [v \in Versions |-> Azure(v)],
   openrouter |-> [v \in Versions |-> Models(v)],
   gcp_gce    |-> [v \in Versions |-> {}]]
=============================================================================
