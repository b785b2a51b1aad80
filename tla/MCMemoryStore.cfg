CONSTANTS
  k1 = k1
  k2 = k2
  Keys = {k1, k2}
  KeyBytes <- MCKeyBytes
  Sizes = {0, 900}
  TTLs = {1}
  MaxBytes = 1000
  Handlers = {h1, h2}
  StreamSubscribers = 1
  StreamQueueSize = 1
  StreamSnapshotEntries = 1
  StreamSnapshotBytes = 20000
  StreamPreviewBytes = 4096
  StreamEventBytes = 16384
  MaxSequence = 2
  MaxNow = 2
SPECIFICATION LiveSpec
INVARIANTS TypeOK Accounting StreamMirror StreamSlots
PROPERTIES ReadableUntilExpiry StreamsEnd ExpiredReclaimed
