SPECIFICATION ProgramsSpec
CONSTANTS
  LOWER = 100
  UPPER = 140
  Exponents = {65537, 3}
  Messages <- MCMessages
  Keys <- MCKeys
  Texts <- MCTexts
  delim = 0
  NUL = 9
  max_tokens_size = 3
  Docs <- MCDocs
  LINE_SIZE = 4
  MAX_UNIQUE_WORDS = 3
  TOP = 2
  Mails <- MCMails
  Verbs <- MCVerbs
  OUT_SIZE = 8
  NAMES = 2
  ADVERBS = 1
  ADJECTIVES = 2
  COUNT = 3
  Requests <- MCRequests
  EMPTY = ""
  WithColon <- MCWithColon
  MAX_HEADERS = 2
INVARIANT
  PaddingIsUnambiguous
CHECK_DEADLOCK FALSE
