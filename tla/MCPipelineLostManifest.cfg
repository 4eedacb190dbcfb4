\* The download of the previous manifest fails.
SPECIFICATION Spec
CONSTANTS
    aws = aws
    azure = azure
    ec2 = ec2
    vm = vm
    Provider = {aws, azure}
    Shard = {ec2, vm}
    Owner <- OnePerProvider
    Watched = ec2
    MaxDay = 2
    MaxRevision <- OnlyEc2Changes
    MaxReplaced = 0
    Rerun = {}
    Unreachable = {"manifest"}
    None = None
    Mixed = Mixed
INVARIANT
    ShardsCarriedForward
CHECK_DEADLOCK FALSE
