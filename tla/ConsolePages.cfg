\* Two rows, so that a dialog is opened for another one while an answer is out; one text entered,
\* so that two requests for a row carry different ones when the dialog is left and opened again
\* meanwhile; three clicks: two for one row and one between.
\* Four rows make four pages of the smallest and two of the usual size of a table.  Two writes
\* of a query and one fault: an older answer, an invalidation and a newer answer meet.
\* A viewer at a table that changes no more has nothing left to do: no deadlock check.
SPECIFICATION Spec
CONSTANTS
    Agents = {a1, a2}
    Items = {r1, r2}
    Words = {x, y}
    Blank = Blank
    New = New
    Closed = Closed
    NoRow = NoRow
    MaxEdits = 2
    MaxOutages = 1
    MaxTyped = 1
    MaxChanges = 1
    MaxClicks = 3
    MaxOthers = 1
    TableRows = 4
    TableSizes = {1, 2, 3}
    Colos <- Three
    Jobs = {}
    Ranges = {"24h"}
    Searches = {}
    DefaultRange = "24h"
    Empty = ""
    MaxPage = 2
    Filters = {f1, f2}
    MaxTotal = 4
    ListSizes = {1, 2}
    InitialSize = 2
    MaxListChanges = 2
    Followed <- Few
    MaxWrites = 2
    MaxPending = 2
    MaxFaults = 1
INVARIANTS
    SubmissionHonoured
    LastSaveWins
    PagesCoverRows
    LastToggleWins
    SwitchesKeepEdits
    CascadeHasResults
    OwnWritesShown
PROPERTIES
    EditsAreKept
    ReaderKeepsPlace
SYMMETRY Symmetry
CHECK_DEADLOCK FALSE
