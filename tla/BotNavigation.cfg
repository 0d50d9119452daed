SPECIFICATION FairSpec
CONSTANT Grids <- Maps
PROPERTIES StepsLeadThere ExplorationEnds
