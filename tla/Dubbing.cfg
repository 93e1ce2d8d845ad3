\* Three lines in batches of two, with earlier clips for some of them; a call fails any way.
CONSTANTS
  NLines = 3
  BatchSize = 2
  MaxAttempts = 2
  MaxGap = 1
  MaxLength = 15
  TtsWorkers = 2
  TtsRetries = 2
  MaxFailures = 2
  Durations <- MCDurations
  Scripts <- MCScripts
  Setups <- MCSetups
  Redone <- MCRedone
  Made <- MCMade
SPECIFICATION Spec
INVARIANTS TypeOK TranslationsInPlace ClipsSayTheirLines OnePlaceEach LateOnlyAfterLong RequiredVoiceIsCloned CallsBounded
PROPERTIES DubbingEnds
\* A finished run is a state the system rests in.
CHECK_DEADLOCK FALSE
