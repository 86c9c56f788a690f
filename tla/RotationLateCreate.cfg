\* An item created with a key opened before the rotation.
SPECIFICATION Spec
CONSTANTS
    ann = ann  bob = bob  cid = cid
    v1 = v1  v2 = v2  i1 = i1  i2 = i2  a1 = a1  p1 = p1  p2 = p2  p3 = p3
    Users = {ann, bob, cid}
    Vaults = {v1}
    Items = {i1}
    Attachments = {}
    Plans = {p1, p2}
    Parent <- OneParent
    Policies = {"removal"}
    Founder <- AnnFounds
    TeamRole0 <- AnnLeads
    GrantableRoles = {"admin", "member"}
    MaxVersion = 2
    MaxJoins = 1
    LateWriters = TRUE
    SnapshotGap = FALSE
SYMMETRY Symmetry
INVARIANTS RevokedCannotRead
CHECK_DEADLOCK FALSE
