\* Administrators and logins of one tenant under its dashboard key.
CONSTANTS
    Emails = {ann, bob}
    Slots = {s1, s2}
    KeyOf <- OneKey
    Roles = {"owner", "viewer"}
    AdminRoles = {"owner"}
    Policies <- PolicySet
    DefaultPolicy <- Shipped
    KeyItself = KeyItself
    MaxInvitations = 2
SPECIFICATION Spec
INVARIANTS
    TypeOK
    InvitationsAreSingular
    AuditExplainsUsers
PROPERTIES
    OwnerRemains
    FounderIsFirst
    DisabledStaysOut
    ActorStillAdministers
SYMMETRY Symmetry
