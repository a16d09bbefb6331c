\* Two replicas that share the key; everything can go wrong; what they last exchanged.
CONSTANTS
    user = user
    custom = custom
    noName = noName
    secret = secret
    noPassword = noPassword
    profile = profile
    never = never
    UserNames = {user}
    RoleNames = {custom}
    SystemRoles = {}
    EmptyName = noName
    Passwords = {secret, noPassword}
    EmptyPassword = noPassword
    TooLong = {}
    Permissions = {}
    KnownPermissions = {}
    SystemPermissions <- MCNoPermissions
    Profiles = {profile}
    Expirations = {never}
    InitialDocs <- MCInitialDocs
    NoUser = NoUser
    NoRole = NoRole
    Replicas = {r1, r2}
    NoDoc = NoDoc
    NoRequest = NoRequest
    CreateAdmin = TRUE
    AdminRequest <- MCAdminRequest
    Faults = {"lost", "ackLost", "late", "getFail", "crash"}
    MaxLate = 1
SPECIFICATION HistorySpec
SYMMETRY ReplicaSymmetry
INVARIANTS NoDirtyRead
