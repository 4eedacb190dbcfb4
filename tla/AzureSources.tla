---------------------------- MODULE AzureSources ----------------------------
(***************************************************************************)
(* The choices of the Azure ingest modules.  Items are meters of the       *)
(* Retail Prices API, one region each: payg stands for type Consumption    *)
(* and a price in USD, a rate's from for tierMinimumUnits.                 *)
(***************************************************************************)
EXTENDS Ingest, TLC

\* A meter of class k prices dimension dim of row k.
Metered(dim, classes) == [k \in {dim} \X classes |-> {<<k[2], dim>>}]

\* A source whose every meter is a row.
RowPerMeter(dim, classes) ==
  [Plain EXCEPT !.sells = Metered(dim, classes), !.own = classes, !.paid = {dim}, !.empty = 0]

\* Two sizes stand for those no table lists.
VmSizes == {"a1", "b1"}

\* The first priced meter with an id is the only one used, in any region.
AzureVm ==
  [RowPerMeter("compute", VmSizes) EXCEPT !.odd = "raise", !.once = "priced",
                                          !.family = [t \in VmSizes |-> t]]

HostedDb(empty) ==
  [RowPerMeter("compute", VmSizes) EXCEPT !.odd = "skip", !.paid = {}, !.once = "filled",
                                          !.empty = empty]

AzureSql == HostedDb(0)

AzurePostgres == HostedDb(2)

AzureMysql == HostedDb(2)

AzureMariadb == HostedDb(2)

DiskTypes == {"standard-hdd", "standard-ssd", "premium-ssd"}

AzureDisks ==
  [RowPerMeter("storage", DiskTypes) EXCEPT !.odd = "skip", !.paid = {}, !.empty = 2]

BlobDims == {"storage", "read-ops", "write-ops"}
BlobTiers == {"hot", "cool", "archive"}

AzureBlob ==
  [Plain EXCEPT !.sells = [k \in BlobDims \X BlobTiers |-> {<<k[2], k[1]>>}], !.odd = "raise",
                !.needs = [t \in BlobTiers |-> BlobDims]]

\* The meters have one id in all regions, so the region is added to it.
AzureFunctions ==
  [Plain EXCEPT !.sells = [k \in {"executions", "duration"} \X {"x86_64"} |-> {<<k[2], k[1]>>}],
                !.needs = [a \in {"x86_64"} |-> {"executions", "duration"}], !.suffix = "always"]

AzureCosmosdb ==
  RowPerMeter("ru", {"cosmos-provisioned", "cosmos-serverless", "cosmos-storage"})

\* Ids several meters have are told apart by the meter and a count.
AzureRedis ==
  [RowPerMeter("compute", VmSizes) EXCEPT !.odd = "skip", !.unique = TRUE]

ControlPlanes ==
  (<<"Uptime SLA", "aks">> :> {<<"aks-standard", "cluster">>, <<"aks-free", "cluster">>})
  @@ (<<"Long Term Support", "aks">> :> {<<"aks-premium", "cluster">>})
VirtualNodes ==
  [k \in {"Container Instances"} \X {"vcpu", "memory"} |-> {<<"aks-virtual-nodes-linux", k[2]>>}]

\* The free control plane comes with the standard one; virtual nodes need a
\* price of each sort and keep all of them.
AzureAks ==
  [Plain EXCEPT !.sells = ControlPlanes @@ VirtualNodes,
                !.own = {"aks-standard", "aks-premium"},
                !.free = {<<"aks-free", "cluster">>},
                !.append = {"aks-virtual-nodes-linux"},
                !.needs = [n \in {"aks-virtual-nodes-linux"} |-> {"vcpu", "memory"}],
                !.minted = {"aks-standard", "aks-premium", "aks-free", "aks-virtual-nodes-linux"},
                !.suffix = "always", !.empty = 0]

Provisioned == {"developer", "basic", "standard", "premium", "isolated", "premium-v2"}

\* Consumption: the highest price above a free tier.  The others: the first
\* hourly meter, or the first of another unit where there is none, unless free.
AzureApim ==
  [Plain EXCEPT !.sells = Metered("call", {"consumption"}) @@ Metered("unit_hour", Provisioned)
                          @@ Metered("monthly", Provisioned),
                !.append = {"consumption"}, !.ladder = "call" :> "highest", !.paid = {"call"},
                !.spare = {"monthly"}, !.shown = "monthly" :> "unit_hour",
                !.costs = Provisioned, !.keep = "first", !.empty = 0]

\* Two plans stand for the table of them.
AzureAppservice ==
  [RowPerMeter("instance", {"B1", "P1v3"}) EXCEPT !.odd = "skip"]

\* Standard needs throughput units and events, premium processing units.
AzureEventHubs ==
  [Plain EXCEPT !.sells = Metered("tu_hour", {"standard"}) @@ Metered("event", {"standard"})
                          @@ Metered("ppu_hour", {"premium"}),
                !.paid = {"tu_hour", "event", "ppu_hour"}, !.odd = "skip",
                !.needs = [n \in {"standard"} |-> {"tu_hour", "event"}],
                !.minted = {"standard", "premium"}, !.suffix = "always"]

\* The paid prices of a region are one meter's tiers, told apart by price only.
ServiceBus ==
  [Plain EXCEPT !.sells = Metered("request", {"standard"}) @@ Metered("mu_hour", {"premium"}),
                !.append = {"standard"}, !.ladder = "request" :> "falling", !.keep = "first",
                !.paid = {"request"}, !.odd = "skip",
                !.minted = {"standard", "premium"}, !.suffix = "always"]

AzureServiceBusQueues == ServiceBus

AzureServiceBusTopics == ServiceBus

Modes == "fee" :> "base-fee" @@ "egress" :> "edge-egress" @@ "request" :> "request"
FrontDoorMeters == {"standard", "premium"} \X DOMAIN Modes
FrontDoorRow(k) == k[1] \o ":" \o Modes[k[2]]

ZoneGroup ==
  "Zone 1" :> "us-east" @@ "Zone 2" :> "asia-ne" @@ "Zone 3" :> "sa" @@ "Zone 4" :> "oceania"
  @@ "Zone 5" :> "asia-south" @@ "Zone 6" :> "eu-west" @@ "Zone 7" :> "africa"
  @@ "Zone 8" :> "asia-ne"

\* A row per sku, mode and billing zone, which is what an item lists as its
\* region; published in the group of the zone, which two zones share.  Base fees
\* have one row and keep the first meter; the egress meters of a zone are tiers.
AzureFrontDoor ==
  [Plain EXCEPT !.sells = [k \in FrontDoorMeters |-> {<<FrontDoorRow(k), k[2]>>}],
                !.wide = {k \in FrontDoorMeters : k[2] = "fee"}, !.paid = DOMAIN Modes,
                !.append = {FrontDoorRow(k) : k \in {m \in FrontDoorMeters : m[2] # "fee"}},
                !.keep = "first", !.rate = "open",
                !.ladder = "egress" :> "steps" @@ "request" :> "lowest", !.lead = "lowest",
                !.labelled = [r \in {FrontDoorRow(k) : k \in FrontDoorMeters} |->
                                Modes[CHOOSE d \in DOMAIN Modes :
                                        \E sku \in {"standard", "premium"} : r = FrontDoorRow(<<sku, d>>)]],
                !.suffix = "always", !.filed = ZoneGroup]
=============================================================================
