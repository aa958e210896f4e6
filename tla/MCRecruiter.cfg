\* One colleague, two candidates, two requests; a welcome of one reveal and two
\* packs of one, so the wallet runs empty between any two reveals.  Two briefs, two
\* calls of the page at a time, one file being read and two searches ever saved.
SPECIFICATION RecruiterSpec
CONSTANTS
    Admin = Admin
    Colleagues = {s1}
    Candidates = {d1, d2}
    Requests = {r1, r2}
    Welcome = 1
    Pack = 1
    MaxPacks = 2
    MaxShare = 1
    Null = Null
    Texts = {t1, t2}
    Found = {f1}
    MaxSaved = 2
    Errands = {1, 2}
    MaxReading = 1
    Empty = Empty
SYMMETRY WalletSymmetry
INVARIANTS
    BalanceIsSound
    PaidOnce
    OpenedIsHeld
    AllowanceHeld
    SearchScreenIsSound
CHECK_DEADLOCK FALSE
