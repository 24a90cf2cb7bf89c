CONSTANTS
 Parts = {"refunds", "spent", "returns"}
 Amounts = {0, 1, 2}
 RefundMixes <- EverydayRefunds
 Ids = {1, 2, 3, 4}
 Bought = {1, 2}
 Others = {}
 Largest = 2
 ReturnMixes <- Everyday
 Slots = {s1, s2}
 None = None
 Keep = Keep
SYMMETRY Symmetry
SPECIFICATION Spec
INVARIANTS RefundsHold SpentAddsUp ReturnsHold NoDeadlock
PROPERTIES Converges OwedEach NeverUnlinked
CHECK_DEADLOCK FALSE
