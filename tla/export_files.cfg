SPECIFICATION FilesSpec
CONSTANTS
    s1 = s1  s2 = s2  c1 = c1  c2 = c2  full = full  delta = delta
    Client = {c1, c2}
    Path = {full, delta}
    Indexed = {full}
    Block = {1, 2}
    Stem = {s1, s2}
    Content <- MCContent
    Exclusive = TRUE
    MaxCalls = 3
INVARIANTS FilesTypeOK HeaderNeverLies AnswerStands
CHECK_DEADLOCK FALSE
