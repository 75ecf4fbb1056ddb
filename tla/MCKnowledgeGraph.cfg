SPECIFICATION GraphSpec
CONSTANTS
  e1 = e1
  e2 = e2
  e3 = e3
  r1 = r1
  r2 = r2
  owns = owns
  person = person
  m1 = m1
  m2 = m2
  v1 = v1
  None = None
  Entity = {e1, e2, e3}
  Relationship = {r1, r2}
  RelType = {owns}
  Merger = {m1, m2}
  Reader = {v1}
  TypeOf <- MCTypeOf
  MaxDepth = 2
  MaxNodes = 3
  MaxMerges = 2
  MaxEdits = 1
  Word = {2, 3, 4}
  Honorific = {}
  LegalSuffix = {4}
  Spelling <- MCSpelling
  PoolSize = 2
  MaxCandidates = 1
  MaxWords = 2
  MaxRows = 3
SYMMETRY MCSymmetry
INVARIANTS
  EndsFollowMerges
  NamesSurviveMerges
  AnswersAreGraphs
  PersonsAreRecognised
