SPECIFICATION FairSpec
CONSTANTS
  Paths = {pa, pb}
  Bytes = {b1}
  MaxSize = 3
INVARIANTS AnswersMatch UploadIsFaithful
PROPERTY Answered
