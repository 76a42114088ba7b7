CONSTANTS
    Installers = {i1, i2}
    MaxBuild = 4
    MaxFaults = 2
SPECIFICATION Spec
SYMMETRY Symmetric
INVARIANTS
    TypeOK ReadersAreServed InstallEndsWell
CHECK_DEADLOCK FALSE
