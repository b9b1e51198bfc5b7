CONSTANTS
  Requests = {r1, r2}
  Tenants = {"t", "u"}
  Aids = {"a", "b", "x"}
  Refused = {"x"}
  Batches <- SomeBatches
  None = None
  PageSize = 1
  MaxDeaths = 1
  Incidents = {"i", "j"}
  Statuses = {"open", "confirmed"}
  Users = {"u1", "u2"}
  Rows <- OneRow
  Log <- OneEntry
  MaxFailures = 1
  Sessions = {s1, s2}
  MaxAlerts = 1
  Listed <- SomeListed
  MaxListed = 2
SPECIFICATION ApiSpec
INVARIANTS PagesComplete RequestsSound ConsolesSound
PROPERTIES OwnRowsOnly KeepsContract  TerminalRecovers
