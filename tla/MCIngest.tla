------------------------------ MODULE MCIngest ------------------------------
(* Every source over small documents, for TLC. *)
EXTENDS Estimate

CONSTANT MaxItems      \* the largest document, before one odd item

AllPolicies ==
  [aws_s3 |-> AwsS3, aws_lambda |-> AwsLambda, aws_dynamodb |-> AwsDynamodb,
   aws_route53 |-> AwsRoute53, aws_sqs |-> AwsSqs, aws_sns |-> AwsSns,
   aws_api_gateway |-> AwsApiGateway, aws_cloudfront |-> AwsCloudfront, aws_eks |-> AwsEks,
   aws_ec2 |-> AwsEc2, aws_ebs |-> AwsEbs, aws_rds |-> AwsRds, aws_aurora |-> AwsAurora,
   aws_elasticache |-> AwsElasticache, aws_opensearch |-> AwsOpensearch,
   gcp_gcs |-> GcpGcs, gcp_functions |-> GcpFunctions, gcp_run |-> GcpRun,
   gcp_firestore |-> GcpFirestore, gcp_cloud_cdn |-> GcpCloudCdn, gcp_cloud_dns |-> GcpCloudDns,
   gcp_pubsub_topics |-> GcpPubsubTopics, gcp_pubsub_queues |-> GcpPubsubQueues,
   gcp_spanner |-> GcpSpanner, gcp_memorystore |-> GcpMemorystore,
   gcp_cloud_sql |-> GcpCloudSql, gcp_gce |-> GcpGce, gcp_bigquery |-> GcpBigquery,
   gcp_gke |-> GcpGke,
   azure_vm |-> AzureVm, azure_sql |-> AzureSql, azure_postgres |-> AzurePostgres,
   azure_mysql |-> AzureMysql, azure_mariadb |-> AzureMariadb, azure_disks |-> AzureDisks,
   azure_blob |-> AzureBlob, azure_functions |-> AzureFunctions,
   azure_cosmosdb |-> AzureCosmosdb, azure_redis |-> AzureRedis, azure_aks |-> AzureAks,
   azure_apim |-> AzureApim, azure_appservice |-> AzureAppservice,
   azure_event_hubs |-> AzureEventHubs, azure_service_bus_queues |-> AzureServiceBusQueues,
   azure_service_bus_topics |-> AzureServiceBusTopics, azure_front_door |-> AzureFrontDoor]

\* The regions the items of a source are listed in: two, or two zones that
\* share a group.
Two(how) == IF "Zone 2" \in DOMAIN how.filed THEN <<"Zone 2", "Zone 8">> ELSE <<"r1", "r2">>
Regions == {"r1", "r2", "Zone 2", "Zone 8"}

\* Of row names that differ in nothing else, one or two are enough, of
\* geographies those that share a region.
Alike ==
  (S3Classes \ {"standard", "intelligent-tiering"}) \union (GcsClasses \ {"standard"})
  \union (Geographies \ {"North America", "Other"}) \union {"spanner-enterprise"}
  \union {"capacity-enterprise", "capacity-enterprise-plus", "storage-long-term"}
  \union {"cool", "archive", "premium-ssd", "basic", "isolated", "premium-v2"}
  \union {FrontDoorRow(<<"premium", d>>) : d \in DOMAIN Modes}

\* Intelligent tiering is sold with the requests of class standard, so the
\* requests listed as its own, which contend with them, may be left out.
Kinds(how) ==
  {k \in DOMAIN how.sells : \E s \in how.sells[k] : s[1] \notin Alike}
    \ {<<q, "intelligent-tiering">> : q \in S3Requests}

\* The places an item of kind k is listed in.
Listings(how, k) ==
  IF how.virtual # {} THEN {<<>>, <<"r1">>}
  ELSE IF k \in how.wide THEN {<<Two(how)[1]>>}
  ELSE {<<r>> : r \in Range(Two(how))}
       \union (IF \E s \in how.sells[k] : s[2] \in how.spread THEN {<<"global">>} ELSE {})

\* The rates of the item with number n, and how many items share a price.
RatesOf(how, k, n) ==
  LET flat(u) == <<[from |-> 0, to |-> Unbounded, usd |-> u]>>
      two(u) == <<[from |-> 0, to |-> 1, usd |-> u], [from |-> 1, to |-> Unbounded, usd |-> n]>>
      dims == {s[2] : s \in how.sells[k]} \intersect DOMAIN how.bounds
  IN  CASE how.rate = "split" -> two(0)
        [] how.rate \in {"stated", "chain", "top", "positive"} -> two(n + 1)
        [] how.rate = "head" /\ \E s \in how.sells[k] : s[2] \in how.based -> two(n + 1)
        [] how.rate = "zip" /\ dims # {} ->
             LET b == how.bounds[CHOOSE d \in dims : TRUE]
             IN  [x \in DOMAIN b |-> [from |-> b[x], usd |-> n,
                                      to |-> IF x = Len(b) THEN Unbounded ELSE b[x + 1]]]
        [] OTHER -> flat(n)

Copies(how, k) ==
  IF \E s \in how.sells[k] : At(how.ladder, s[2], "none") = "falling" THEN 3
  ELSE IF \E s \in how.sells[k] : s[2] \in DOMAIN how.ladder THEN 2
  ELSE 1

\* A document that lists the kinds ks everywhere.
FullDoc(how, ks) ==
  LET names == FoldSet(LAMBDA x, seq : Append(seq, x), <<>>, UNION {{<<k, at, c>> : at \in Listings(how, k), c \in 1..Copies(how, k)}
                                 : k \in ks})
      start(x, n) == IF names[x][3] > 1 /\ how.lead = "lowest"
                     THEN <<[RatesOf(how, names[x][1], n)[1] EXCEPT !.from = names[x][3] - 1]>>
                     ELSE RatesOf(how, names[x][1], n)
  IN  {[n |-> x, kind |-> names[x][1], at |-> names[x][2], payg |-> TRUE, unit |-> "known",
        id |-> IF how.suffix = "always" THEN 1 + Cardinality({y \in DOMAIN names : names[y][1] = names[x][1]}) ELSE x,
        rates |-> start(x, x)] : x \in DOMAIN names}

\* Some item of a document, and what may be wrong with another like it.
\* CloudFront, which raises, lists pay-as-you-go prices only.
OddOnes(how, doc) ==
  LET i == CHOOSE j \in doc : \A k \in doc : j.n <= k.n
      m == 1 + Cardinality(doc)
      new == [i EXCEPT !.n = m, !.id = m,
                       !.rates = [x \in DOMAIN @ |-> [@[x] EXCEPT !.usd = IF @ = 0 THEN 0 ELSE @ + 20]]]
  IN  (IF how.nowhere = "raise" THEN {} ELSE {[new EXCEPT !.payg = FALSE]}) \union
      {[new EXCEPT !.at = <<"nowhere">>],
       [new EXCEPT !.unit = "odd"], [new EXCEPT !.rates = <<>>],
       [new EXCEPT !.rates = [x \in DOMAIN @ |-> [@[x] EXCEPT !.usd = 0]]],
       [new EXCEPT !.rates = <<[@[1] EXCEPT !.from = 1]>>],
       [new EXCEPT !.kind = <<"other", "other">>], [new EXCEPT !.at = <<>>],
       [new EXCEPT !.at = Two(how)], new, [i EXCEPT !.n = m]}

Samples(how) ==
  {{k \in Kinds(how) : \E s \in how.sells[k] : s[1] = m}
     : m \in {s[1] : s \in UNION Range(how.sells)} \ Alike}
  \union {Kinds(how), {k \in Kinds(how) : k[2] \in {"fee", "egress"}}}

Small(how, ks) == ks # {} /\ Cardinality(FullDoc(how, ks)) <= MaxItems

Docs(how, full) ==
  {full} \union {full \ {i} : i \in full} \union {full \union {o} : o \in OddOnes(how, full)}
  \union {{o} : o \in OddOnes(how, full)}
  \union {(full \ {i}) \union {o} : i \in {CHOOSE j \in full : \A k \in full : j.n <= k.n},
                                    o \in OddOnes(how, full)}

\* Each document as a first release, or after a release of the full one.
FeedsOf(s, how, full) ==
  LET prev == {[name |-> r.name, region |-> r.region]
                 : r \in RowsOf(how, UNION {Fills(how, i) : i \in full})}
  IN  {[src |-> s, doc |-> d, first |-> f, prev |-> IF f THEN {} ELSE prev]
         : d \in Docs(how, full), f \in BOOLEAN}

AllFeeds ==
  UNION {UNION {FeedsOf(s, AllPolicies[s], FullDoc(AllPolicies[s], ks))
                  : ks \in {x \in Samples(AllPolicies[s]) : Small(AllPolicies[s], x)}}
           : s \in DOMAIN AllPolicies}
=============================================================================
