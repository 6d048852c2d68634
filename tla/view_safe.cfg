SPECIFICATION Spec
CONSTANTS
    still = still
    turned = turned
    broken = broken
    Cameras <- SomeCameras
    Broken <- Refused
    Structs = 2
    LastPass = 2
SYMMETRY Interchangeable
INVARIANTS
    HeadIsAddedOnce
    CameraIsNotFrozen
    WeaponFovIsBorrowed
PROPERTIES
    EachPassHasItsView
