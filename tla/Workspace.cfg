CONSTANTS
 Parts = {"quotes", "boards", "files", "chat", "stock", "library"}
 QuoteMixes <- EverydayQuotes
 BoardMixes <- EverydayBoards
 FileMixes <- EverydayFiles
 StockMixes <- EverydayStock
 LibraryMixes <- EverydayLibrary
 Slots = {s1, s2}
 Users = {u, v}
 None = None
 Keep = Keep
 Gone = Gone
 Shops = {"x", "y"}
 ShopNames = {"n1", "n2"}
 MaxQuotes = 3
 Files = {1, 2}
 Retention = 1
 Grace = 1
 MaxDay = 4
 MaxName = 3
 Window = 2
 MaxTime = 4
 Blocking = {TRUE}
 Faults = {}
 Warehouses = {"v", "w"}
 Items = {"i"}
 Sites = {"p"}
 StockNames = {"n1", "n2"}
 Lines = {1, 2}
 MaxMade = 3
SYMMETRY Symmetry
SPECIFICATION Spec
INVARIANTS QuotesHold DropHolds FilesKept NobodyMissed ShelvesHold
PROPERTIES ImportsOnce
CHECK_DEADLOCK FALSE
