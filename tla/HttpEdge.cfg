SPECIFICATION EdgeSpec
CONSTANTS
  garon = garon
  elara = elara
  list = list
  health = health
  scrape = scrape
  Clients = {c1}
  Requests = {garon, elara, list, health, scrape}
  ExemptRequests = {health, scrape}
  Scrapes = {scrape}
  PathOf <- MCPathOf
  MaxRequests = 1
  WindowSeconds = 1
  TicksPerSecond = 1
  Horizon = 1
INVARIANT AnswersAreAccountedFor
CHECK_DEADLOCK FALSE
