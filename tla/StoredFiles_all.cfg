\* Two requests on each part, every fault.
CONSTANTS
    r1 = r1 r2 = r2 a1 = a1 a2 = a2 p1 = p1 w1 = w1 w2 = w2 n1 = n1 n2 = n2 d1 = d1 d2 = d2 j17 = j17 t10 = t10
    Request = {r1, r2}
    App = {a1}
    Instance = {a1, a2}
    Faults = {"io", "tool", "kill"}
    DbKey = {"url", "password"}
    OtherKey = {"port", "opts"}
    PortKey = "port"
    MaxTrees = 2
    Profile = {p1}
    Upload = {w1, w2}
    Process = {n1, n2}
    Domain = {d1, d2}
    Attempts = 2
    Jdk = {j17}
    Tomcat = {t10}
SPECIFICATION StoredSpec
INVARIANTS HardeningRestored CronFollows SettingsWhole RootKept
PROPERTIES MergesKept FailedAttachRestores WipeSparesUsed
VIEW View
SYMMETRY Symmetry
ACTION_CONSTRAINT OneDomainAtATime
CHECK_DEADLOCK FALSE
