SPECIFICATION Spec
CONSTANT MaxHeight = 6
INVARIANTS TypeOK NoUnderflow ResultSuitable LinearFindsFirst GaplessFindsFirst
PROPERTY Terminates
\* the search returns
CHECK_DEADLOCK FALSE
