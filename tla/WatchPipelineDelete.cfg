SPECIFICATION MCSpec
CONSTANTS
    a = a  b = b  big = big  bad = bad
    Sources = {p1}
    Contents = {a, b}
    Edits <- OrdinaryEdits
    TooBig = {}
    TooLong = {}
    Unparsable = {}
    Plain = {}
    MaxWrites = 2
    NoContent = NoContent
    NoPath = NoPath
    Unseen = Unseen
PROPERTIES DeletedLeavesIndex
CHECK_DEADLOCK FALSE
