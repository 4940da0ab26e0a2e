SPECIFICATION FairSpec
CONSTANTS
    a = a
    b = b
    r = r
    bare = bare
    w1 = w1
    w2 = w2
    date = date
    here = here
    there = there
    NoKey = NoKey
    Candidates = {a, b, r, bare}
    Sources <- CitedDocuments
    Label <- Labels
    FactKey <- Questions
    Subjects <- About
    Malformed = {}
    AutoWriteSources = 2
    Workers = {w1, w2}
    BatchSize = 2
    MaxAttempts = 2
    MaxEvents = 3
    MaxFaults = 1
CHECK_DEADLOCK FALSE
INVARIANTS ClosedByLater OneLiveAnswer LaterAnswerWins
PROPERTIES BacklogDrains
