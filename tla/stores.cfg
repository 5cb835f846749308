SPECIFICATION Spec
CONSTANTS
    Tab = {t1, t2}
    Worker = worker
    Case = {c1, c2}
    Note = {n1}
    Demo = {c2}
    Critical = {c1}
    KpiLimit = 1
    QueueLimit = 1
    QueueScan = 2
    MaxCopies = 2
    User = {u1, u2}
    Kept = {k1}
    Evidence = {e1}
    Report = {r1}
    DemoUser = {u1, u2}
    MaxCrashes = 1
SYMMETRY Interchangeable
INVARIANTS TypeOK  IndicatorsFollow DashboardAgrees 
PROPERTIES  SparesTheRest
CHECK_DEADLOCK FALSE
