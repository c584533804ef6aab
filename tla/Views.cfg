SPECIFICATION PageSpec
CONSTANTS
  Events <- MCEvents
  Runs = {"a", "b"}
  Feeds <- MCFeeds
  Reports <- MCReports
  Prompts = {"p"}
  Levels = {1, 2, 3}
  InitialLevel = 2
  InitialDepth = 1
  Depths = {1, 2}
  Speeds = {1, 2}
  NearEnd = 1
  Now = 20
  MaxClicks = 3
  MaxDrops = 1
  Family <- MCFamily
  Apart = {"observation/http", "meta"}
CHECK_DEADLOCK FALSE
INVARIANTS
  PageIsWhole
  RowsTellTheMoment
  ViewsAreSound
PROPERTIES
  ClicksAreObeyed
  PlaybackEnds
