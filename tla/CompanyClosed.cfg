CONSTANTS
 Parts = {"directory"}
 DirectoryMixes <- Reopening
 Mixes <- EverydayPermissions
 Projects = {"p", "q"}
 Wide = "wide"
 MaxRows = 3
 Companies = {c1, c2}
 Phones = {"p1"}
 MaxPersons = 3
 Slots = {s1, s2}
 Plans <- EverydayPlans
 Numbers = {"p1", "p2", "r1"}
 Reviewers = {"r1"}
 Users = {"u1", "u2"}
 LastClock = 6
 MaxCodes = 4
 MaxAttempts = 2
 HourlyMax = 2
 GuessBudget = 3
 ReviewerHourlyMax = 4
 Ttl = 2
 Resend = 1
 ReviewerResend = 0
 Hour = 3
 Retention = 4
 MaxTokens = 3
 MaxChain = 1
 Horizon = 5
 Grace = 2
 RefreshLife = 3
 Workers = {w1, w2}
 Addresses = {a}
 People = {p, q}
 None = None
 Absent = None
 MaxInvitations = 2
SYMMETRY Symmetry
SPECIFICATION MCSpec
INVARIANT ClosedStaysEmpty
CHECK_DEADLOCK FALSE
