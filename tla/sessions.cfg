SPECIFICATION Spec
CONSTANTS
    SyncStarters = {s1, s2}
    AsyncStarters = {a1}
    Copies = {app, crate}
    App = app
    Lib = crate
    Libraries <- MCLibraries
    Types <- MCTypes
    Parachute = "P"
    Users = {u1, u2}
    MaxProcesses = 3
INVARIANTS
    StartsOK
    RegistryOK
    PrecompiledLoads
PROPERTIES
    OneIdentity
CHECK_DEADLOCK FALSE
