\* Two vaults, three users: removals from a vault and departures from both.
SPECIFICATION Spec
CONSTANTS
    ann = ann  bob = bob  cid = cid
    v1 = v1  v2 = v2  i1 = i1  i2 = i2  a1 = a1  p1 = p1  p2 = p2  p3 = p3
    Users = {ann, bob, cid}
    Vaults = {v1, v2}
    Items = {i1}
    Attachments = {}
    Plans = {p1, p2}
    Parent <- OneParent
    Policies = {"removal", "voluntary", "administrative"}
    Founder <- AnnFounds
    TeamRole0 <- AnnLeads
    GrantableRoles = {"member"}
    MaxVersion = 2
    MaxJoins = 1
    LateWriters = FALSE
    SnapshotGap = FALSE
SYMMETRY Symmetry
INVARIANTS OneKey NewKeyIsSecret RevokedCannotRead
PROPERTIES RotationKeepsData DepartureTakesAll
CHECK_DEADLOCK FALSE
