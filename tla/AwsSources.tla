----------------------------- MODULE AwsSources -----------------------------
(***************************************************************************)
(* The choices of the AWS ingest modules.  A kind of item is a pair: what  *)
(* the offer file calls the product, and the class or size it is of.       *)
(***************************************************************************)
EXTENDS Ingest, TLC

\* Any two resource names stand for the types a source has no table of.
Types == {"a1", "b1"}

\* A source whose every item is a row of one dimension under its own id.
RowPerItem(what, dim) ==
  [Plain EXCEPT !.sells = [k \in {what} \X Types |-> {<<k[2], dim>>}], !.own = Types, !.empty = 0]

S3Classes == {"standard", "standard-ia", "one-zone-ia", "intelligent-tiering",
              "glacier-instant"}
S3Requests == {"requests-put", "requests-get"}

\* The requests of class standard are sold as intelligent-tiering ones too.
S3Sells ==
  [k \in (S3Requests \union {"storage"}) \X S3Classes |->
     {<<k[2], k[1]>>} \union
       (IF k[1] \in S3Requests /\ k[2] = "standard" THEN {<<"intelligent-tiering", k[1]>>}
        ELSE {})]

AwsS3 ==
  [Plain EXCEPT !.sells = S3Sells, !.based = {"storage"},
                !.needs = [c \in S3Classes |-> S3Requests \union {"storage"}]]

LambdaSells == [k \in {"requests", "duration"} \X {"x86_64", "arm64"} |-> {<<k[2], k[1]>>}]

AwsLambda ==
  [Plain EXCEPT !.sells = LambdaSells,
                !.needs = [arch \in {"x86_64", "arm64"} |-> {"requests", "duration"}]]

DynamoUnits == {"read_request_units", "write_request_units"}
DynamoSells ==
  [k \in (DynamoUnits \union {"storage"}) \X {"standard", "standard-ia"} |-> {<<k[2], k[1]>>}]

AwsDynamodb ==
  [Plain EXCEPT !.sells = DynamoSells, !.based = {"storage"},
                !.needs = [c \in {"standard", "standard-ia"} |-> DynamoUnits \union {"storage"}]]

\* Zones are priced for both rows, queries for the public one only; a row
\* needs the zone price, and the first item of each sort is the one used.
AwsRoute53 ==
  [Plain EXCEPT !.sells = (<<"zone", "any">> :> {<<"public", "hosted_zone">>,
                                                 <<"private", "hosted_zone">>})
                          @@ (<<"query", "any">> :> {<<"public", "query">>}),
                !.where = "one", !.rate = "chain", !.keep = "first",
                !.needs = [z \in {"public", "private"} |-> {"hosted_zone"}],
                !.minted = {"public", "private"}]

\* The tiers of every item of a queue type are appended; the first names the row.
AwsSqs ==
  [Plain EXCEPT !.sells = [k \in {"request"} \X {"standard", "fifo"} |-> {<<k[2], k[1]>>}],
                !.rate = "stated", !.append = {"standard", "fifo"}, !.lead = "first",
                !.sorted = TRUE]

\* A rate from 0 is the free tier, published at 0, any other the paid one.
AwsSns ==
  [Plain EXCEPT !.sells = <<"request", "any">> :> {<<"standard", "free">>, <<"standard", "paid">>},
                !.rate = "split", !.needs = [m \in {"standard"} |-> {"free", "paid"}],
                !.shown = [d \in {"free", "paid"} |-> "request"]]

\* The tiers of the last item of an API type and region replace the others'.
AwsApiGateway ==
  [Plain EXCEPT !.sells = [k \in {"request"} \X {"rest", "http"} |-> {<<k[2], k[1]>>}],
                !.rate = "stated"]

AwsCloudfront ==
  [Plain EXCEPT !.sells = <<"egress", "outbound">> :> {<<"standard", "egress">>},
                !.nowhere = "raise", !.based = {"egress"}]

\* Control planes have a row per item; Fargate prices are appended to one row
\* per region.
EksSells ==
  [k \in {"CreateOperation", "ExtendedSupport"} \X {"cluster"} |->
     {<<IF k[1] = "CreateOperation" THEN "eks-standard" ELSE "eks-extended-support", "cluster">>}]
  @@ [k \in {"Fargate"} \X {"vcpu", "memory"} |-> {<<"eks-fargate", k[2]>>}]

AwsEks ==
  [Plain EXCEPT !.sells = EksSells, !.own = {"eks-standard", "eks-extended-support"},
                !.append = {"eks-fargate"}, !.minted = {"eks-fargate"}, !.suffix = "minted",
                !.needs = [m \in {"eks-fargate"} |-> {"vcpu", "memory"}],
                !.empty = 0]

\* On-demand, license-free, used capacity; the shards of the two share a file.
AwsEc2 == [RowPerItem("Compute Instance", "compute") EXCEPT !.family = [t \in Types |-> t]]

AwsEbs == RowPerItem("Storage", "storage")

AwsRds == RowPerItem("Database Instance", "compute")

AwsAurora ==
  [RowPerItem("Database Instance", "compute") EXCEPT
     !.sells = @ @@ (<<"ServerlessV2", "acu">> :> {<<"aurora-serverless-v2", "compute">>}),
     !.own = @ \union {"aurora-serverless-v2"}]

AwsElasticache == RowPerItem("Cache Instance", "compute")

\* Managed clusters have a row per item; the serverless prices are appended to
\* one row per region, which is published with whatever is there.
ServerlessOperations == {"compute-ocu", "indexing-ocu", "storage"}
OpensearchSells ==
  RowPerItem("Instance", "instance").sells
  @@ [k \in {"Serverless"} \X ServerlessOperations |-> {<<"opensearch-serverless", k[2]>>}]

AwsOpensearch ==
  [RowPerItem("Instance", "instance") EXCEPT
     !.sells = OpensearchSells, !.append = {"opensearch-serverless"},
     !.minted = {"opensearch-serverless"}, !.suffix = "minted",
     !.paid = ServerlessOperations \union {"instance"}]
=============================================================================
