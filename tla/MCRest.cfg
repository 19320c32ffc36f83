SPECIFICATION RestFairSpec
CONSTANT MaxSequence = 4
INVARIANTS RestTypeOK ReadyMeansProcessed RoundsProcessedOnce DownloadNotLost RequestsBounded
PROPERTY EventuallyReady
CHECK_DEADLOCK FALSE
