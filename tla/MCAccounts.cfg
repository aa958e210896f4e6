\* Two accounts in two browsers, one of which a candidate uses as well; two
\* colleagues created, two reset links; two codes of each kind; one session
\* of CVs of any generation, two deliveries, a second seat; two
\* visitors of the demo with one run each.
SPECIFICATION Spec
CONSTANTS
    Recruiters = {r1, r2}
    Devices = {d1, d2}
    Shared = {d1}
    Requests = {q1, q2}
    MaxSessions = 3
    None = None
    Admin = Admin
    Colleagues = {s1, s2}
    Handlers = {q1, q2}
    MaxLinks = 2
    MaxCodes = 2
    MaxAttempts = 2
    Administrator = Administrator
    Staff = {s1}
    Triages = {t1}
    Welcome = 2
    Pack = 1
    MaxPacks = 1
    MaxPile = 2
    MaxDrops = 2
    MaxShare = 0
    Null = Null
    Visitors = {v1, v2}
    Calls = {k1, k2}
    Allowance = 1
    MaxRuns = 2
    MaxEras = 2
    Nobody = Nobody
SYMMETRY AccountsSymmetry
INVARIANTS
    PasswordsAreSound
    CodesAreSound
    TriageWalletIsSound
PROPERTIES
    SessionsAreSound
    DemoIsSound
    CodesAreOneTime
CHECK_DEADLOCK FALSE
