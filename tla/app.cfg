SPECIFICATION AppSpec
CONSTANTS
    User = {u1, u2}
    Process = {p1, p2}
    Nobody = Nobody
    Operator = Operator
    MaxGen = 2
    MaxClaims = 2
    MaxOps = 3
    MaxFaults = 1
    Email = {e1, e2}
    Quishing = {e2}
    None = None
    Limits = {1, 2}
    MaxCases = 3
    Torn = Torn
    MaxUses = 4
    MaxRestarts = 1
    Channel = {telegram, whatsapp}
    Recipient = {r1, r2}
    HasWorker = {r1}
    MaxSigns = 3
    Address = {a1, a2, a3, a4}
    Private = {a1}
    V6 = {a2}
    Offline = {a3}
    Vpn = {a2, a4}
    Cloud = {a3, a4}
    Tor = {a3}
    Botnet = {a4}
    Feed = {a3}
    Nowhere = Nowhere
    MaxNamed = 2
CONSTRAINT Budget
SYMMETRY Interchangeable
INVARIANTS AppTypeOK  RevocationHolds  SessionIsOwn 
           VaultHolds 
           AuthenticatedTextIsLow LowIsNoThreat 
           HeadersOutrankText 
PROPERTY ActsOnTheShown
CHECK_DEADLOCK FALSE
