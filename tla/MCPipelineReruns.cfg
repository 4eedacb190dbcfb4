\* One provider over four days, rerun and republished as the runbook says.
SPECIFICATION Spec
CONSTANTS
    aws = aws
    azure = azure
    ec2 = ec2
    vm = vm
    Provider = {aws}
    Shard = {ec2}
    Owner <- OneProvider
    Watched = ec2
    MaxDay = 4
    MaxRevision <- OnlyEc2Changes
    MaxReplaced = 1
    Rerun = {TRUE}
    Unreachable = {"state", "baseline"}
    None = None
    Mixed = Mixed
INVARIANTS
    TypeOK
    ManifestServable
    ChainSound
CHECK_DEADLOCK FALSE
