\* Room for one connection: a client that closes its end is removed.
CONSTANTS
    l = l
    c1 = c1
    c2 = c2
    c3 = c3
    Listener <- l
    Conns <- MC_Conns
    MaxPollables = 2
SPECIFICATION Spec
INVARIANT SocketsReleased
