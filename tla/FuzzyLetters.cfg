\* URLs, in which a line may end right after "&".
CONSTANTS
  MaxLine = 3
  BufSize = 14
  HttpsLen = 5
  MaxSum = 10
  HostMax = 5
  Failsafe = 8
  Greetings <- MCGreetings
  WordMax = 4
  MinLen = 1
  MinWords = 4
  FewWords = 5
  TagMax = 5
  FromSeq <- MCFromSeq
  Langs <- MCLangs
  Dict <- MCDict
  CsetOf <- MCCsetOf
  Kinds = {"hosts"}
  Alphabet <- MCAlphabet
  Entities <- MCEntities
  MaxBytes <- MCMaxBytes
  Decoded = {"/", ".", "nul", "<", ">"}
  NlInRef = TRUE
SPECIFICATION Spec
CHECK_DEADLOCK FALSE
INVARIANTS
  OnlyLettersSummed
