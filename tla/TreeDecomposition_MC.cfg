CONSTANTS
    Inputs <- MCInputs
    Infinity = 100
SPECIFICATION Spec
INVARIANTS DecompositionValid PartitionValid CentroidHalves DistancesRight
PROPERTIES Terminates
