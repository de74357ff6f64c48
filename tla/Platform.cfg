SPECIFICATION Spec
CONSTANTS
  s1 = s1  u1 = u1  u2 = u2  r1 = r1  r2 = r2  x = x  tok = tok
  None = None
  Slugs <- MCSlugs
  Users <- MCUsers
  Requests <- MCRequests
  Secrets <- MCSecrets
  ServiceTokens <- MCTokens
  ServiceToken = tok
  RlsEnforced = FALSE
  OpenAiEnabled = TRUE
  FileRows = 2
  ChunkSize = 2
  MaxWords = 3
  MaxArrivals = 2
  MaxOperations = 2
SYMMETRY Symmetry
INVARIANTS
  FoundedOnce
  EntryWasAllowed
  RefusalHasACause
  ReceiptsAreHonest
  MailIsGuarded
  PaidOnlyInNeed
  ChunksKeepTheText
CHECK_DEADLOCK FALSE
