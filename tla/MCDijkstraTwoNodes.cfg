SPECIFICATION Spec
CONSTANTS
    FirstNetwork = 0
    LastNetwork = 242
    Networks <- MCTwoNodes
    Alphas <- MCAlphas
    Algos = {"Dijkstra", "CHDijkstra"}
    MaxQueries <- MCMaxQueries
INVARIANT
    NeverPanics
