CONSTANTS
 Parts = {"attendance", "roster", "pay", "row"}
 RosterMixes <- Everyday
 Slots = {s1, s2}
 Workers <- Crew
 Site <- SiteOf
 Person <- Behind
 Hours = {0, 1}
 Mixes <- Attending
 Projects = {"A", "B"}
 Persons = {"x", "y"}
 LaborRoles = {"r1"}
 Holders = {"x"}
 Texts = {a, b}
 Users = {u, v}
 MaxRows = 2
 None = None
SYMMETRY Symmetry
SPECIFICATION MCSpec
INVARIANTS AttendanceHolds OneCrew SumsAgree FailsOnlyOverClear
PROPERTIES DaysKept StopHolds PastIsSettled
CHECK_DEADLOCK FALSE
