CONSTANTS
    w1 = w1
    w2 = w2
    r1 = r1
    r2 = r2
    r3 = r3
    None = None
    Workers <- MC_Workers
    Reqs <- MC_Reqs
SPECIFICATION Spec
PROPERTY BrokerRefinement
PROPERTY TermSignalStopsServer
