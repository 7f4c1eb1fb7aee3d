SPECIFICATION Spec
CONSTANTS
  Fds = {f1, f2, f3, f4, f5}
  NoFd = NoFd
  Clients = {c1}
  MaxHeld = 1
  MaxBacklog = 1
SYMMETRY Symmetry
PROPERTIES IsService StrayOnlyInStop ForgottenOnlyInStop
