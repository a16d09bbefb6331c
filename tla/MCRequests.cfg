\* Two calls of every kind, by either of two users.
CONSTANTS
    admin = admin
    member = member
    role1 = role1
    role2 = role2
    entity1 = entity1
    reader = reader
    editor = editor
    p1 = p1
    v1 = v1
    Calls = {c1, c2}
    Users = {admin, member}
    Roles = {role1, role2}
    Entities = {entity1, entity2}
    Rules = {rule1}
    Status = Status
    Administrator = Administrator
    Passwords = {p1, p2}
    Profiles = {reader, editor}
    GrantsOf <- MCGrantsOf
    Contents = {v1, v2}
    Missing = Missing
    Nobody = Nobody
    FirstWorld <- MCFirstWorld
SYMMETRY Symmetric
SPECIFICATION Spec
INVARIANTS TypeOK Authorised OwnPasswordOnly RefusalChangesNothing AcknowledgedIsDone AnswersAreTrue ExportIsComplete
PROPERTY EndsAlone
CHECK_DEADLOCK FALSE
