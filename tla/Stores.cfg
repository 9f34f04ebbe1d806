SPECIFICATION MCSpec
CONSTANTS
  Jobs = {j1, j2}
  Defrags = {d1}
  Comfys = {p0, p1, p2}
  Prior = p0
  NoComfy = noComfy
  NoUser = noUser
  Workers = {w1, w2}
  Docs = {f1, f2}
  NameOf <- MCNameOf
  Texts = {x1, x2}
  NoText = noText
  NoDoc = noDoc
  MaxIds <- MCMaxIds
  Blocks = 3
  MaxRetries = 2
  Releases = 2
  Askers = {q1, q2, q3}
  NoAsker = noAsker
  Closer = q3
  Room = 3
  MaxRequests = 4
INVARIANTS
  NoStrayComfy
  StartingIsSomeones
  ReadyServes
  VectorsDescribeRows
  PartIsPrefix
  RequestsInTransit
CHECK_DEADLOCK FALSE
