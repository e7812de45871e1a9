SPECIFICATION MCSpec
CONSTANTS
  ana = ana
  bob = bob
  hq = hq
  site = site
  badge = badge
  team = team
  x = x
  y = y
  never = never
  unset = unset
  leave = leave
  mark = mark
  daily = daily
  pending = pending
  feed = feed
  s1 = s1
  upload = upload
  People = {ana, bob}
  Units = {hq, site}
  Keys = {badge, team}
  SelfKeys = {team}
  Values = {x, y}
  Unset = unset
  FirstRows <- MCFirstRows
  Patches <- MCPatches
  LastDay = 1
  Never = never
  Sessions = {s1}
  Nobody = nobody
  MaxWrites = 2
  Rules = {mark, leave}
  RuleOf <- MCRuleOf
  Jobs = {daily, pending}
  Bulk = {pending}
  MaxFaults = 1
  Importers = {feed, upload}
  Feeds = {feed}
  Files <- MCFiles
  Threshold = 20
  Floor = 1
  MaxRuns = 1
  MaxCrashes = 1
  whole = whole
  part = part
  nested = nested
  key = key
  name = name
  Fetchers = {h1}
  Clerks = {c1}
  Records = {whole, part, nested}
  FirstFeeds <- MCFirstFeeds
  Shape <- MCShape
  Fields = {key, name}
  Settings <- MCSettings
  PageSize = 2
  PageCeiling = 4
  MaxBytes = 4
  MaxFeedEdits = 1
  MaxFetches = 1
  MaxPatches = 1
INVARIANTS RulesFireOnce GuardBoundsTheRun StillFeedsArriveWhole
PROPERTIES RulesKeepOtherEdits LeaversLeave
CHECK_DEADLOCK FALSE
