\* A password change through modify_cert_user_pwd against concurrent logins.
CONSTANTS
    PwdAccounts = {u1}
    PwdCallers = {p1}
    ConfIds = {c1}
    ConfVals = {cv1}
    MaxSk = 2

SPECIFICATION PwdSpec
INVARIANT SessionsFollowSecret
