\* The store under concurrent admin and gateway threads.
CONSTANTS
    Admins = {a1, a2}
    Gateways = {g1}
    Actions = {"get"}
    ReqActions = {"get"}
    Policies = {p1, p2}
    NoneVal = NoneVal
    NoThread = NoThread
    QueryOrder <- MCQueryOrder
    Uris <- StoreUris
    Requests <- StoreRequests

SPECIFICATION Spec

INVARIANTS
    TypeOK
    RegistryMirrorsTrie
    NoDeadNodes
    NoLockCycle

PROPERTY
    ImplementsStore
