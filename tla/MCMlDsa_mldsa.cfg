SPECIFICATION FairSpec
CONSTANTS
  s1 = s1
  s2 = s2
  None = None
  Undecodable = Undecodable
  Calls = {c1, c2, c3}
  c1 = c1
  c2 = c2
  c3 = c3
  Seeds = {s1, s2}
  Kids = {"a", "b"}
  Asks <- MCAsks
  ImportMayFail = TRUE
INVARIANTS
  TypeOK
  AnswerIndependentOfRuntime
  SameFate
PROPERTIES
  CallsEnd
