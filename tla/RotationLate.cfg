\* Writers with old keys and commits inside the finalizing transaction's snapshot.
SPECIFICATION Spec
CONSTANTS
    ann = ann  bob = bob  cid = cid
    v1 = v1  v2 = v2  i1 = i1  i2 = i2  a1 = a1  p1 = p1  p2 = p2  p3 = p3
    Users = {ann, bob, cid}
    Vaults = {v1}
    Items = {i1}
    Attachments = {a1}
    Plans = {p1}
    Parent <- OneParent
    Policies = {"removal"}
    Founder <- AnnFounds
    TeamRole0 <- AnnLeads
    GrantableRoles = {"admin", "member"}
    MaxVersion = 3
    MaxJoins = 2
    LateWriters = TRUE
    SnapshotGap = TRUE
SYMMETRY Symmetry
INVARIANTS TypeOK NewKeyIsSecret
PROPERTIES RotationKeepsData RotationLeavesNothing
CHECK_DEADLOCK FALSE
