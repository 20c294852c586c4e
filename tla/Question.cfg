SPECIFICATION FairSpec
CONSTANTS
  c1 = c1  c2 = c2  w1 = w1  w2 = w2
  Cards = {c1, c2}
  WithTTL = {c2}
  Workers = {w1, w2}
  MaxInputs = 2
  MaxFaults = 1
INVARIANT AnswerKept
PROPERTY AnswerResumes
CHECK_DEADLOCK FALSE
