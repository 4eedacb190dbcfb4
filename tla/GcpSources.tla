----------------------------- MODULE GcpSources -----------------------------
(***************************************************************************)
(* The choices of the Google Cloud ingest modules.  Items are SKUs of the  *)
(* Cloud Billing catalog: payg stands for usage type OnDemand and a price  *)
(* in USD, at for serviceRegions, where "global" may be one.               *)
(***************************************************************************)
EXTENDS Ingest, TLC

\* A SKU prices one dimension of the row of its class.
PerDimension(dims, classes) == [k \in dims \X classes |-> {<<k[2], k[1]>>}]

GcsClasses == {"standard", "nearline", "coldline", "archive"}
GcsDims == {"storage", "read-ops", "write-ops"}

\* Operations are sold globally, per class; storage per region names the row.
GcpGcs ==
  [Plain EXCEPT !.sells = PerDimension(GcsDims, GcsClasses), !.odd = "skip",
                !.spread = {"read-ops", "write-ops"},
                !.needs = [c \in GcsClasses |-> GcsDims], !.anchor = {"storage"}]

\* CPU and memory make a row, requests are added when they cost something.
RequestBilled ==
  [Plain EXCEPT !.sells = PerDimension({"cpu-second", "memory-gb-second", "requests"}, {"x86_64"}),
                !.odd = "skip", !.spread = {"requests"}, !.paid = {"requests"},
                !.needs = [a \in {"x86_64"} |-> {"cpu-second", "memory-gb-second"}],
                !.anchor = {"cpu-second"}]

GcpFunctions == RequestBilled

GcpRun == RequestBilled

FirestoreDims == {"storage", "document_read", "document_write", "document_delete"}

GcpFirestore ==
  [Plain EXCEPT !.sells = PerDimension(FirestoreDims, {"native"}),
                !.needs = [m \in {"native"} |-> FirestoreDims],
                !.minted = {"native"}, !.suffix = "always"]

GeographyRegion ==
  "North America" :> "us-east1" @@ "Other" :> "us-east1" @@ "Europe" :> "europe-west1"
  @@ "Asia" :> "asia-northeast1" @@ "China" :> "asia-east1"
  @@ "Latin America" :> "southamerica-east1" @@ "Oceania" :> "australia-southeast1"
Geographies == DOMAIN GeographyRegion

\* The bounds the rates of an egress SKU are zipped with: 0, 10TB, 150TB, 1PB.
EgressTiers == <<0, 1, 2, 3>>

\* A row per egress SKU, named here for the geography in its sku_id; published
\* they are all "standard", in a region that two of them share.  One for lookups.
GcpCloudCdn ==
  [Plain EXCEPT !.sells = PerDimension({"egress"}, Geographies)
                          @@ PerDimension({"request"}, {"lookups"}),
                !.where = "one", !.rate = "zip", !.bounds = [d \in {"egress"} |-> EgressTiers],
                !.own = Geographies, !.minted = Geographies \union {"lookups"},
                !.filed = GeographyRegion]

\* Zones: 0, 25, 10K; queries: 0, 1B.
DnsTiers == [d \in {"hosted_zone", "query"} |-> IF d = "query" THEN <<0, 2>> ELSE <<0, 1, 3>>]

\* The first SKU of each sort is the one used; there is no row without a zone.
GcpCloudDns ==
  [Plain EXCEPT !.sells = PerDimension({"hosted_zone", "query"}, {"public"}),
                !.where = "one", !.rate = "zip", !.bounds = DnsTiers, !.keep = "first",
                !.needs = [m \in {"public"} |-> {"hosted_zone"}], !.minted = {"public"}]

\* Every basic delivery SKU is a row of its own, all with the same sku_id.
BasicDelivery ==
  [Plain EXCEPT !.sells = PerDimension({"throughput"}, {"throughput"}), !.where = "one",
                !.rate = "top", !.paid = {"throughput"}, !.own = {"throughput"},
                !.minted = {"throughput"}]

GcpPubsubTopics == BasicDelivery

GcpPubsubQueues == BasicDelivery

SpannerEditions == {"spanner-standard", "spanner-enterprise", "spanner-enterprise-plus"}

GcpSpanner ==
  [Plain EXCEPT !.sells = PerDimension({"compute"}, SpannerEditions)
                          @@ PerDimension({"storage"}, {"spanner-storage"}),
                !.own = SpannerEditions \union {"spanner-storage"}]

\* Sizes no table lists: any two stand for them.
Sizes == {"a1", "b1"}

\* A SKU of several regions is a row in each, told apart by the region.
GcpMemorystore ==
  [Plain EXCEPT !.sells = PerDimension({"compute"}, Sizes), !.where = "each",
                !.paid = {"compute"}, !.own = Sizes, !.suffix = "shared"]

GcpCloudSql ==
  [Plain EXCEPT !.sells = PerDimension({"compute"}, Sizes), !.odd = "skip", !.own = Sizes]

\* Two machine types share the core and memory SKUs of their series; the price
\* of a machine is made of both, and its sku_id of the core's and its type.
Machines == {"n1-small", "n1-large"}

GcpGce ==
  [Plain EXCEPT !.sells = [k \in {"cpu", "ram"} \X {"n1"} |-> {<<m, k[1]>> : m \in Machines}],
                !.odd = "skip", !.needs = [m \in Machines |-> {"cpu", "ram"}],
                !.summed = Machines, !.anchor = {"cpu"}, !.labelled = [m \in Machines |-> m],
                !.family = [m \in Machines |-> "n1"]]

BigqueryRows ==
  PerDimension({"slot"}, {"capacity-standard", "capacity-enterprise", "capacity-enterprise-plus"})
  @@ PerDimension({"storage"}, {"storage-active", "storage-long-term"})
  @@ PerDimension({"query"}, {"on-demand"})

\* The first SKU of a row and region is the one used; one of no region is
\* sold in both multi-regions.
GcpBigquery ==
  [Plain EXCEPT !.sells = BigqueryRows, !.where = "each", !.virtual = {"bq-us", "bq-eu"},
                !.rate = "positive", !.paid = {"slot", "storage", "query"}, !.keep = "first",
                !.suffix = "always", !.empty = 0]

AutopilotDims == {"vcpu", "memory", "storage"}
ClusterDefault == 7

\* The control plane has one global SKU and a row in every tracked region,
\* at a default price when the SKU is missing; Autopilot needs all three.
GcpGke ==
  [Plain EXCEPT !.sells = PerDimension(AutopilotDims, {"gke-autopilot"})
                          @@ PerDimension({"cluster"}, {"gke-standard"}),
                !.where = "each", !.spread = {"cluster"}, !.paid = {"cluster"},
                !.default = <<"gke-standard", "cluster">> :> ClusterDefault,
                !.needs = [m \in {"gke-autopilot"} |-> AutopilotDims],
                !.minted = {"gke-standard", "gke-autopilot"}, !.suffix = "always"]
=============================================================================
