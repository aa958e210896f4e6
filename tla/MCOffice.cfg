\* Two colleagues; neither the welcome nor a pack divides by three seats.
\* A session of three CVs over three days; one analysis and two Triage rows before
\* two runs; three applicants and one who is added, in pages of one, before two
\* requests; two profiles of any age, two mailboxes and two numbers, one mailbox on
\* a list.
SPECIFICATION OfficeSpec
CONSTANTS
    Admin = Admin
    Colleagues = {s1, s2}
    Candidates = {d1, d2}
    Requests = {r1}
    Welcome = 2
    Pack = 1
    MaxPacks = 2
    MaxShare = 0
    Null = Null
    Piles = {p1}
    Senders = {n1}
    CloseDays = 1
    AgeDays = 2
    MaxCvs = 3
    LastDay = 2
    NoDate = NoDate
    Analyses = {1}
    Graded = {2, 3}
    Movable = {1, 2}
    Migrators = {m1}
    MaxMigrations = 2
    MaxDial = 2
    NoScore = NoScore
    Pile = {1, 3, 4}
    Arrivals = {2}
    Quick <- QuickScores
    RowsAPage = 1
    Opening = 2
    Rung = 1
    Wires = {1, 2}
    Profiles = {1, 2}
    Mailboxes = {m1, m2}
    Numbers = {n1, n2}
    Aliased = {m2}
    Lists = {{}, {m1}}
    Server = Server
    Script = Script
    Unset = Unset
INVARIANTS
    ContactsAreSound
    RetentionIsSound
    MigrationIsSound
    
    SharesAreTheBalance
PROPERTIES
    CreditLowersNobody
CHECK_DEADLOCK FALSE
