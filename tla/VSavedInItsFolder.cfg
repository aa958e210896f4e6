\* The instances of MCWorkspace.cfg; two searches and two folders are enough.
SPECIFICATION Spec
CONSTANTS
    Uploads = {q1, q2}
    MaxFiles = 2
    MaxWords = 1
    People = {c1, c2}
    Requests = {q1, q2}
    PageSize = 1
    Editors = {c1}
    Leavers = {c2}
    Cap = 1
    MaxVersion = 2
    MaxSessions = 2
    Misses = {m1, m2, m3, m4, m5}
    Concurrency = 2
    Team = {q1, q2}
    Candidates = {p1, p2}
    Applicants = {a1}
    Briefs = {b1}
    MaxFolders = 2
    MaxChats = 1
    MaxMessages = 2
    MaxThreads = 2
    MaxInstant = 3
    Silences = {0, 35}
    Bonuses = {0, 8}
    Penalties = {4}
    MaxNudge = 8
    Unknown = Unknown
    Pooled = {q1, q2}
    Parts = 2
    Absent = Absent
    Requirements = {1, 2, 3}
SYMMETRY WorkspaceSymmetry
PROPERTIES
    SavedInItsFolder
CHECK_DEADLOCK FALSE
