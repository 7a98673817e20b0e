SPECIFICATION Spec
CONSTANTS
  Requests = {r1, r2}
  Forms <- MCForms
  Consumers = {k1, k2}
  Users = {u1, u2}
  Ids = {i1}
  Conns = {c1, c2}
  NoPacket = NoPacket
  Nobody = Nobody
INVARIANTS
  AnswerBeatsTimeout
  PacketOnce
  OwnedOnce
PROPERTY RequestEnds
