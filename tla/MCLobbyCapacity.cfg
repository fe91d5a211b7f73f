SPECIFICATION Spec
CONSTANTS
  Clients = {c1, c2}
  NoClient = NoClient
  NoRoom = NoRoom
  MaxLogins = 3
  MaxRooms = 1
  MaxPlayers = 1
SYMMETRY Symmetry
CONSTRAINT Explored
INVARIANT RoomWithinCapacity
CHECK_DEADLOCK FALSE
