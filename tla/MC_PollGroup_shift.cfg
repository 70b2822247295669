CONSTANTS
    l = l
    c1 = c1
    c2 = c2
    c3 = c3
    Listener <- l
    Conns <- MC_Conns
    MaxPollables = 3
SPECIFICATION Spec
PROPERTY HealthyNeverRemoved
