SPECIFICATION Spec
CONSTANTS
  p1 = p1
  p2 = p2
  t1 = t1
  t2 = t2
  Transcripts = {t1}
  Files = {1}
  Pushers = {p1, p2}
  TranscriptOf <- OneSession
  MaxChunk = 1
  MaxUser = 2
  FirstCut = 1
  MinCut = 1
  MaxResync = 0
  Retention = TRUE
  MaxLines = 2
  MaxPurges = 1
  MaxAbandoned = 0
  NoPusher = NoPusher
PROPERTY RetentionSparesFresh
