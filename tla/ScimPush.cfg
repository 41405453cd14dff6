SPECIFICATION Spec
CONSTANTS
  u1 = u1
  u2 = u2
  g = g
  n1 = n1
  n2 = n2
  n3 = n3
  h1 = h1
  Users = {u1, u2}
  Group = g
  UserNames = {n1, n2, n3}
  GroupNames = {h1}
  Tasks = {t1}
  Night = night
  Everything = everything
  First <- MCFirst
  MaxRetries = 3
  MaxEdits = 1
  MaxFaults = 1
INVARIANTS
  PushedIsCurrent
  RosterIsWhole
PROPERTIES
  DivergenceIsTold
