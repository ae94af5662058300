\* What the comment in nego_connect says of a client that does not negotiate.
SPECIFICATION NegoSpec
CONSTANT MaxConnects = 1
INVARIANT DirectAttempted
CHECK_DEADLOCK FALSE
