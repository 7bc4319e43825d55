SPECIFICATION FairSpec
CONSTANTS
  Handlers = {h1, h2}
  Requesters = {h1}
  Visitors = {h2}
  Elsewhere = {"serial"}
  MaxJobs = 2
  Browsers = {b1, b2, b3}
  MaxCount = 3
  Nothing = Nothing
INVARIANTS TypeOK ChromiumIsWhole AnswerIsExact OldCrashIsHidden
PROPERTIES ChecksReturn
