SPECIFICATION Spec
CONSTANTS
    FirstNetwork = 0
    LastNetwork = 242
    Networks <- MCAllNetworks
    Alphas <- MCAlphasOfBothSigns
    Algos = {"Dijkstra", "CHDijkstra"}
    MaxQueries <- MCMaxQueries
INVARIANTS
    TypeOK
    BestPath
    VisitedIsFinal
    MeetingIsConnected
    TouchedCoversVectors
PROPERTY
    Answered
