\* One admin adds and removes one resource under two spellings of its URI.
CONSTANTS
    Admins = {a1}
    Gateways = {}
    Actions = {"get"}
    ReqActions = {"get"}
    Policies = {p1}
    NoneVal = NoneVal
    NoThread = NoThread
    QueryOrder <- MCQueryOrder
    Uris <- SpellingUris
    Requests <- StoreRequests

SPECIFICATION Spec
INVARIANT RegistryMirrorsTrie
