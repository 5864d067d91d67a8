CONSTANTS
    Case = {t1, t2}
    NoCase = nc
    Reader = {r1}
    BornAs = {"RESOLVED"}
    MaxTexts = 3
    MaxStirs = 0
SPECIFICATION DialogueSpec
INVARIANT ClosesWhatWasAgreed
CHECK_DEADLOCK FALSE
