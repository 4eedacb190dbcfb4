\* Two providers on schedule: failed runs and jobs, stale states, lost downloads.
SPECIFICATION Spec
CONSTANTS
    aws = aws
    azure = azure
    ec2 = ec2
    vm = vm
    Provider = {aws, azure}
    Shard = {ec2, vm}
    Owner <- OnePerProvider
    Watched = ec2
    MaxDay = 3
    MaxRevision <- OnlyEc2Changes
    MaxReplaced = 0
    Rerun = {}
    Unreachable = {"state", "baseline"}
    None = None
    Mixed = Mixed
INVARIANTS
    NothingForgotten
    ClientExact
PROPERTIES
    MirrorAdvances
CHECK_DEADLOCK FALSE
