\* ToolLoop
SPECIFICATION FairCalls
CONSTANTS
  Providers = {"anthropic", "ollama"}
  SearchProviders = {"tavily", "perplexity"}
  Skills = {"memory_store", "memory_recall", "url_fetch", "web_search"}
  Unknown = {"bogus"}
  MaxToolRounds = 2
  MaxRetryAttempts <- RetryLimit
  InitialDelay <- RetryFirstDelay
  MaxDelay <- RetryLongestDelay
  Multiplier <- RetryFactor
  MaxCalls = 2
  MaxResponseSize = 1
  MaxTextOutput = 1
  MaxResults = 1
INVARIANTS
  WellPaired
  ExecutedOnce
  ReadAsMeant
  TruthfulOutput
PROPERTIES
  Ends
