SPECIFICATION MCSpec
CONSTANTS
    a = a  b = b  big = big  bad = bad
    Sources = {p1, p2}
    Contents = {a, b, big, bad}
    Edits <- OrdinaryEdits
    TooBig = {big}
    TooLong = {big}
    Unparsable = {bad}
    Plain = {p2}
    MaxWrites = 2
    NoContent = NoContent
    NoPath = NoPath
    Unseen = Unseen
INVARIANT PipelineSound
PROPERTY ChangesCatchUp
CHECK_DEADLOCK FALSE
