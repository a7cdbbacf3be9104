SPECIFICATION Spec
CONSTANTS
    alice = alice
    bob = bob
    r1 = r1
    r2 = r2
    System = System
    None = None
    Users = {alice, bob}
    Requests = {r1, r2}
    Owner <- OwnerAlice
    AutoApprovers = {alice}
    Approvers = {alice, bob}
    SelfApprovers = {}
    Instances = {1}
    Provider = "kubernetes"
    MaxTime = 1
    Faults = {"auto", "review", "reserve", "lookup", "secret", "create",
              "createLost", "rollback", "metadata", "check", "issue",
              "crash"}
    MaxFaults = 2
INVARIANTS
    CertificateNeedsApproval
    RecordsRealCertificate
    OneCertificatePerRequest
    PemMatchesIdentifier
PROPERTIES
    ImplementsIssuance
    RejectionStands
CHECK_DEADLOCK FALSE
