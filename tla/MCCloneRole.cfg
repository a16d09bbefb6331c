\* No faults: a clone takes the name of a built-in role.
CONSTANTS
    admin = admin
    user = user
    administrator = administrator
    custom = custom
    noName = noName
    secret = secret
    noPassword = noPassword
    tooLong = tooLong
    allowed = allowed
    extra = extra
    unknown = unknown
    profile = profile
    never = never
    monday = monday
    UserNames = {admin, user, noName}
    RoleNames = {administrator, custom}
    SystemRoles = {administrator}
    EmptyName = noName
    Passwords = {secret, noPassword, tooLong}
    EmptyPassword = noPassword
    TooLong = {tooLong}
    Permissions = {allowed, extra}
    KnownPermissions = {allowed, extra}
    SystemPermissions <- MCSystemPermissions
    Profiles = {profile}
    Expirations = {never, monday}
    InitialDocs = {}
    NoUser = NoUser
    NoRole = NoRole
    EnabledProfiles = {profile}
    NoAccount = NoAccount
    Replicas = {r1}
    NoDoc = NoDoc
    NoRequest = NoRequest
    CreateAdmin = TRUE
    AdminRequest <- MCAdminRequest
    Faults = {}
    MaxLate = 0
SPECIFICATION Spec
INVARIANTS SystemRolesCannotChange
