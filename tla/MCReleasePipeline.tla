------------------------- MODULE MCReleasePipeline -------------------------
(* Instances of ReleasePipeline for TLC. *)
EXTENDS ReleasePipeline

CONSTANTS aws, azure, ec2, vm

OnePerProvider == [s \in Shard |-> IF s = ec2 THEN aws ELSE azure]

OnlyEc2Changes == [s \in Shard |-> IF s = ec2 THEN 2 ELSE 1]

OneProvider == [s \in Shard |-> aws]
=============================================================================
