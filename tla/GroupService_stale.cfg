\* One user logs in while the group a mapping made is deleted: no overlap, no fault.
SPECIFICATION GrpSpec
CONSTANTS
    GrpUsers = {u1}
    GrpNames = {"default", "team"}
    GrpInvalid = {}
    DefaultGroup = "default"
    MaxGroupId = 3
    GrpRequests = {r1}
    GrpOverlap = FALSE
    MaxGrpCalls = 4
    MaxGrpFaults = 0
    Nil = Nil
CHECK_DEADLOCK FALSE
INVARIANT StaleMembershipsRemoved
