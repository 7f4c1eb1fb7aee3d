SPECIFICATION FairSpec
CONSTANTS
  Fds = {f1, f2, f3, f4}
  NoFd = NoFd
  Clients = {c1}
  MaxHeld = 0
  MaxBacklog = 1
PROPERTIES StopReturns QueuedGreetedIfClientsYield
