\* Two accounts of one tenant and two addresses: activation, binding and
\* login codes for both addresses interleave with send_bind_mail's check.
CONSTANTS
    Accounts = {a1, a2}
    Mails = {m1, m2}
    OwnPaths = "t1"
    MaxIssues = 3
    MaxCerts = 2

SPECIFICATION Spec
INVARIANT VCodeSingleUse CertStatusRoundTrip
