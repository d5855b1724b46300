SPECIFICATION MCSpec
CONSTANTS
  RetryBackoff = 2
  DefaultBackoff = 1
  maxBackoff = 12
  MaxDuration = 64
  JitterSteps = 3
  ChatRequests <- MCRequests
  Completions <- MCCompletions
  ErrorStatuses = {400, 403, 429, 503}
  RetryAfters <- MCRetryAfters
  MaxAttempt = 6
  MaxNoise = 1
  Providers = {p1, p2, p3}
  MaxLen = 3
  Weights <- MCWeights
  Prices = {0, 1, 2}
  Draws = 12
  captureBodyLimit = 3
  Sizes <- MCSizes
  Statuses <- MCStatuses
  MaxWrites = 4
CHECK_DEADLOCK FALSE
INVARIANT CleanCloseIsWhole BrokenStreamIsPrefix ConversationKept BackoffHonest RankedPickIsBest WeightedSharesProportional
INVARIANT Transparent CountedIfItFits
