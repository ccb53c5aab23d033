\* Two concurrent requests of every kind, on a clock that crosses a day.
CONSTANTS
  Window = 1
  Day = 3
  Calls = {1, 2}
  Batch = {2}
  MaxConcurrency = 1
  Requests <- MCRequests
  Environment = {"GEMINI_API_KEY", "GROQ_API_KEY"}
  GeminiNames <- MCGeminiNames
  GeminiKeys = {"GEMINI_API_KEY_1", "GEMINI_API_KEY_2"}
  KeyOf <- MCKeyOf
  RouterKeyOf <- MCRouterKeyOf
  LlmOrder <- MCLlmOrder
  TierToOrder <- MCTierToOrder
  RouterOrder <- MCRouterOrder
  EmbedNames <- MCEmbedNames
  Limits <- MCLimits
  Client <- MCClient
  Model <- MCModel
  RouterTokens = 1
  Failures = {"bad_request", "upstream"}
  Backoff <- MCBackoff
  TokenCounts = {2}
  PinnedWait = 2
  LongestSleep = 1
  Ttl = 4
  Margin = 1
  EmbedLimits <- MCEmbedLimits
  BackoffSteps <- MCBackoffSteps
  Boots = {2}
  LastBegin = 2
  MaxTime = 5
SPECIFICATION Spec
INVARIANTS PicksWithinLimits CachedNameAlive
PROPERTIES UnavailableIsTrue RequestsEnd
CHECK_DEADLOCK FALSE
