SPECIFICATION Spec
CONSTANTS
  Providers = {"openai", "ollama", "anthropic", "gemini", "plain"}
  Clients <- MCClients
  Systems <- MCSystems
  RoutePrompts <- MCRoutePrompts
  Openings <- MCOpenings
  SaidBy <- MCSaidBy
  Results <- MCResults
  Cuts = {"apart", "bundled", "woven"}
  MaxRounds = 2
INVARIANTS
  RequestUnderstood
  ResultsFindTheirCall
  AnswerHeard
  SharedChunksHeard
CHECK_DEADLOCK FALSE
