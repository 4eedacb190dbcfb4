\* A release replaced after the client updated to it.
SPECIFICATION Spec
CONSTANTS
    aws = aws
    azure = azure
    ec2 = ec2
    vm = vm
    Provider = {aws}
    Shard = {ec2}
    Owner <- OneProvider
    Watched = ec2
    MaxDay = 2
    MaxRevision <- OnlyEc2Changes
    MaxReplaced = 1
    Rerun = {TRUE}
    Unreachable = {}
    None = None
    Mixed = Mixed
INVARIANT
    RepublishResetsClient
CHECK_DEADLOCK FALSE
