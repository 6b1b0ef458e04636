\* The matcher against its reference, over every trie one admin can build.
CONSTANTS
    Admins = {a1}
    Gateways = {}
    Actions = {"get", "*"}
    ReqActions = {"get", "post"}
    Policies = {p1}
    NoneVal = NoneVal
    NoThread = NoThread
    QueryOrder <- MCQueryOrder
    Uris <- MatchUris
    Requests <- MatchRequests

SPECIFICATION Spec

INVARIANTS
    NoMissedPolicy
    NoSpuriousPolicy
