SPECIFICATION LiveSpec
CONSTANTS
  p1 = p1
  p2 = p2
  t1 = t1
  t2 = t2
  Transcripts = {t1}
  Files = {1}
  Pushers = {p1, p2}
  TranscriptOf <- OneSession
  MaxChunk = 2
  MaxUser = 2
  FirstCut = 3
  MinCut = 1
  MaxResync = 1
  Retention = TRUE
  MaxLines = 3
  MaxPurges = 1
  MaxAbandoned = 2
  NoPusher = NoPusher
  MaxFaults = 2
INVARIANTS LogInv Restorable SentIsPulled Quota
PROPERTIES PurgeTakesAll PushEnds ImplementsLog EverythingArrives
