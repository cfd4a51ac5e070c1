CONSTANTS
  Profiles <- Separate
  FlushMax = 1
  MaxSamples = 2
  MaxSamplers = 2
  MaxRestarts = 1
  PageLimit = 1
  Limits <- SomeLimits
SPECIFICATION FairSpec
CHECK_DEADLOCK FALSE
INVARIANT ExpiredIsTrue
INVARIANT SilenceIsTrue
INVARIANT NothingLeftOut
INVARIANT UsageIsFinal
PROPERTY SamplingEnds
