\* One replica whose rollbacks can fail: users vanish that nobody deleted.
CONSTANTS
    admin = admin
    user = user
    administrator = administrator
    custom = custom
    noName = noName
    secret = secret
    noPassword = noPassword
    tooLong = tooLong
    allowed = allowed
    extra = extra
    unknown = unknown
    profile = profile
    never = never
    monday = monday
    UserNames = {admin, user, noName}
    RoleNames = {administrator, custom}
    SystemRoles = {administrator}
    EmptyName = noName
    Passwords = {secret, noPassword, tooLong}
    EmptyPassword = noPassword
    TooLong = {tooLong}
    Permissions = {allowed, unknown}
    KnownPermissions = {allowed}
    SystemPermissions <- MCSystemPermissions
    Profiles = {profile}
    Expirations = {never, monday}
    InitialDocs = {}
    NoUser = NoUser
    NoRole = NoRole
    EnabledProfiles = {profile}
    NoAccount = NoAccount
    Replicas = {r1}
    NoDoc = NoDoc
    NoRequest = NoRequest
    CreateAdmin = FALSE
    AdminRequest <- MCAdminRequest
    Faults = {"lost", "getFail"}
    MaxLate = 0
SPECIFICATION Spec
PROPERTIES OnlyDeletedUsersGo
