SPECIFICATION MCLiveSpec
CONSTANTS
  Feeds = {"openai"}
  Ollama = "ollama"
  OllamaSet = TRUE
  Replies = {"none", "major", "ok", "slow"}
  Refreshers = {"j1", "j2"}
  Polls = {"h"}
  StatusTTL = 2
  ProbeTimeout = 1
  Publishers = {"p", "q"}
  Clients = {"c", "d"}
  ChannelSize = 2
  MaxEvents = 2
INVARIANTS ProbesNeverOverlap NoSendOnClosed NothingMissed
PROPERTIES CardsAreTrue CardsCatchUp PublishEnds
CHECK_DEADLOCK FALSE
