\* One replica, two users; stores and acknowledgements get lost, processes die.
CONSTANTS
    admin = admin
    user = user
    administrator = administrator
    custom = custom
    noName = noName
    secret = secret
    noPassword = noPassword
    tooLong = tooLong
    allowed = allowed
    extra = extra
    unknown = unknown
    profile = profile
    never = never
    monday = monday
    UserNames = {admin, user, noName}
    RoleNames = {administrator, custom}
    SystemRoles = {administrator}
    EmptyName = noName
    Passwords = {secret, noPassword, tooLong}
    EmptyPassword = noPassword
    TooLong = {tooLong}
    Permissions = {allowed, unknown}
    KnownPermissions = {allowed}
    SystemPermissions <- MCSystemPermissions
    Profiles = {profile}
    Expirations = {never, monday}
    InitialDocs = {}
    NoUser = NoUser
    NoRole = NoRole
    EnabledProfiles = {profile}
    NoAccount = NoAccount
    Replicas = {r1}
    NoDoc = NoDoc
    NoRequest = NoRequest
    CreateAdmin = TRUE
    AdminRequest <- MCAdminRequest
    Faults = {"lost", "ackLost", "crash"}
    MaxLate = 0
SPECIFICATION Spec
INVARIANTS TypeOK DocsWellFormed CacheIsStored
PROPERTIES ImplementsRegistry AccountsChangeOnce OnlyDeletedUsersGo EveryRequestEnds
