SPECIFICATION FairSpec
CONSTANTS
    r1 = r1
    r2 = r2
    lan = lan
    c1 = c1
    c2 = c2
    Nobody = Nobody
    Requests <- MCRequests
    IPs <- MCIPs
    Clis <- MCClis
    FAIL_MAX = 1
    CLAIM_MAX = 2
    MaxSerial = 4
INVARIANTS
    OldCredentialsDie
    SignedOutStaysOut
    GuessesLimited
PROPERTIES
    OldPasswordStaysOld
    NeverWedged
