SPECIFICATION FairSpec
CONSTANTS
    Requests = {q1, q2}
    Sources = {s1, s2}
    file = file
    Finals = {u}
    None = None
    FileOf <- OneFile
    FinalOf <- Origin
PROPERTIES
    AnswerFits
    Answered
    DeadLeaves
    Settles
CHECK_DEADLOCK FALSE
