SPECIFICATION GatewaySpec
CONSTANTS Clients = {c1, c2} Sockets = {s1, s2} MaxTimers = 1
INVARIANTS QuitEndsReceiving
CHECK_DEADLOCK FALSE
