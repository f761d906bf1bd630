SPECIFICATION Spec
CONSTANTS
    IPs = {proxy, client, other}
    TrustedIPs = {proxy}
    MaxTTL = 2
    Malformed = Malformed
    Invalid = Invalid
    NULL = NULL
INVARIANTS
    TypeOK
    AcceptedOnlyFromTrusted
