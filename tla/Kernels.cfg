\* Five to eight pixels in a tile of eight, sorted by four work-items; images of
\* up to 12 rows, from limits that hold the image to ones below a row; groups of
\* four work-items in an image of four by four pixels.
SPECIFICATION MCSpec
CONSTANTS
    LogLength = 3
    Counts = {5, 6, 8}
    Values = {0, 1}
    Pad = 2
    Heights = {1, 2, 3, 4, 5, 6, 7, 8, 9, 10, 11, 12}
    RowBytes = {1, 2, 3, 5, 8}
    Limits = {3, 4, 5, 7, 8, 11, 15, 16, 24, 31, 50, 96}
    NoRow = NoRow
    GroupX = 2
    GroupY = 2
    Shift = 2
    Half = 2
    Groups = 2
INVARIANTS
    PairUntouched
    ResultIsOrdinal
    SortedAtEnd
    EveryRowComputed
    RowsStayRight
    WindowExact
