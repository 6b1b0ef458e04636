\* Two callers add, modify, delete and instantiate one fact key while column
\* confs are added and a dimension comes online; two callers change and
\* reset one account's password while logins issue tokens (their
\* steps are fired here; SessionsFollowSecret is MCSessionRace.cfg's).
CONSTANTS
    Admins = {a1, a2}
    Keys = {"k1"}
    Dims = {"d1"}
    Cols <- MCCols
    Vals = {"v1", "v2"}
    PwdAccounts = {u1}
    PwdCallers = {p1, p2}
    ConfIds = {c1}
    ConfVals = {cv1}
    MaxSk = 3

SPECIFICATION AdminSpec
INVARIANT AdminTypeOK InstTablesPaired
