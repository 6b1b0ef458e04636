\* One admin removes a resource it never added, before init_res.
CONSTANTS
    Admins = {a1}
    Gateways = {}
    Actions = {"get"}
    ReqActions = {"get"}
    Policies = {p1}
    NoneVal = NoneVal
    NoThread = NoThread
    QueryOrder <- MCQueryOrder
    Uris <- RemoveUris
    Requests <- StoreRequests

SPECIFICATION Spec
INVARIANT RemovalIsLenient
