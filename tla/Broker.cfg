SPECIFICATION Spec
CONSTANTS
  Users = {u1, u2}
  Clients = {c1}
  Keys = {k1}
  Replicas = {r1}
  Browsers = {b1, b2}
  Reqs = {q1, q2}
  MaxLogins = 1
  MaxTokens = 2
  MaxAdmin = 2
SYMMETRY Interchangeable
INVARIANTS
  SecretNamesItsUser
  CodeIsSingleUse
  OnlyRefusedIsMarked
PROPERTIES
  GoneClientActsForNobody
