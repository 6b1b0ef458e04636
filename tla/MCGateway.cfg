CONSTANTS
    W = 2
    DayParts = 4
    ValidNs = {"t", "a"}
    Texts = {"200", "201", "500"}
    ParseI64 <- MCParseI64
    Reqs = {r1, r2}
    ClientIps = {1, 2}
    Paths = {"/api", "/starsysApi/apis"}
    Svcs = {"a", "no_ns"}
    Bodies <- MCBodies
    IpConfigs <- MCIpConfigs
    NsConfigs <- MCNsConfigs
    AlConfigs <- MCAlConfigs
INIT Init
NEXT Next
INVARIANT IpTimeAdmission RoutedByIpList LogSuccessAgreesWithCode
SYMMETRY ReqSym
