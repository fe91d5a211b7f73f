SPECIFICATION Spec
CONSTANTS
  Clients = {c1, c2}
  NoClient = NoClient
  NoRoom = NoRoom
  MaxLogins = 3
  MaxRooms = 1
  MaxPlayers = 2
SYMMETRY Symmetry
CONSTRAINT Explored
INVARIANTS SessionsFindable  IndicesDistinct RemovalsCompatible
CHECK_DEADLOCK FALSE
