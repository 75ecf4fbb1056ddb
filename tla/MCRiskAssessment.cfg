SPECIFICATION FairSpec
CONSTANTS
  a1 = a1
  u1 = u1
  q1 = q1
  q2 = q2
  w1 = w1
  None = None
  NotANumber = NotANumber
  Alert = {a1}
  Analyst = {u1}
  Profile = {q1, q2}
  Sweeper = {w1}
  GivenSeverity = {"critical"}
  Watched <- MCWatched
  Config <- MCConfig
  MaxEdits = 2
  MaxIncidents = 1
  MaxClusters = 0
  MaxFaults = 1
INVARIANTS
  TypeOK
  HighScoresWerePublished
PROPERTIES
  ActiveProfilesAreRescored
