SPECIFICATION FairSpec
CONSTANTS
  p1 = p1
  p2 = p2
  Poll <- Two
  MaxCommits = 2
  MaxDrops = 1
INVARIANT NoMissedWake
PROPERTY AnsweredPromptly
