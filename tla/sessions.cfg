SPECIFICATION Spec
CONSTANTS
    r1 = r1
    r2 = r2
    Requests = {r1, r2}
    MaxSessions = 3
    MaxPasswords = 1
    LockAfter = 2
    MaxWrong = 2
    MaxEvents = 3
SYMMETRY Interchangeable
INVARIANTS TypeOK OneLivePerSignIn ResetEndsSessions FailuresAreCounted RefreshKeepsSignedIn
