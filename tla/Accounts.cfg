SPECIFICATION AccountsSpec
CONSTANTS
    w1 = w1  w2 = w2
    admin = admin  alice = alice
    None = None
    User = {alice}
    Worker = {w1, w2}
    MaxSessions = 4
    MaxChanges = 1
    MaxAttempts = 2
    Null = null
    Name = {admin, alice}
    Bootstrap = {admin}
    Thread = {w1, w2}
    AdminThread = {w1, w2}
SYMMETRY Threads
INVARIANTS TypeOK RotationRevokesParent SuccessorsBounded StaleIssuesBounded GuessesPerLockout
PROPERTIES LastAdminGoesByARace WritesOnlyWhatItWasAsked RegistrationKeepsAccounts
