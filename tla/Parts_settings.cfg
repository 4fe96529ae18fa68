SPECIFICATION Spec
CONSTANTS
  Foci = {"settings"}
  MaxClicks = 5
  Names = {"a", "b"}
  Whitelist <- TheWhitelist
  MaxHistory = 2
  MaxEvents = 2
  Tabs = {"q", "t"}
  TrTabs = {"t"}
  Hashes = {"h1", "h2"}
  Feeders = {"a", "b"}
  Guests = {"t"}
  FeedNames = {"y"}
  Library <- TheLibrary
  RuleServers = {"a", "b"}
  Fifth = {"a"}
  Numbered <- TheNumbered
  OtherRule = "other"
  Kinds = {"qbt", "tr"}
  Machines = {"m1", "m2"}
  SettingTabs = {"speed", "queue"}
  Unreported <- TheUnreported
  Inputs = {"u"}
  McpNames = {"a", "b", "c"}
  MaxBlocks = 2
  McpAtFirst <- TheServers
  Putters = {"p1", "p2"}
  BotConfigs = {"b1", "b2"}
  Disabled = "disabled"
  NoHash = "none"
  MaxRuns = 3
  MaxSaves = 2
  Chats = {"k1", "k2"}
  Savers = {"h1"}
  McpConfs = {"m1", "m2"}
  Off = "off"
  MaxEntries = 2
  MaxSessions = 2
  MaxMoves = 3
INVARIANT QbtUnsavedKept
CHECK_DEADLOCK FALSE
