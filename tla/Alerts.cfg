SPECIFICATION Spec
CONSTANTS
  Callers = {ui, ftp}
  NOTIF_MAX = 6
INVARIANTS RoomMade
