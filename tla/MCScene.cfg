SPECIFICATION MCSpec
CONSTANTS
    User <- MCUser
    RoleOf <- MCRoleOf
    Token = {"hero", "ghoul"}
    Place <- MCPlace
    Door <- MCDoor
    DoorAt <- MCDoorAt
    AccessLevel <- MCAccessLevel
    MaxSeq = 3
    MaxGrants = 1
INVARIANTS
    TypeOK
    Converges
PROPERTIES
    ReadsShowTheVisible
