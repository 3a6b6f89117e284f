SPECIFICATION Spec
CONSTANTS
    Names = {"p", "q"}
    Tasks = {t1, t2}
    Packages <- MCPackages
    Manifests <- MCManifests
    Stored <- MCStored
    Imports <- MCImports
    MaxOperations = 3
SYMMETRY Symmetry
INVARIANTS
    ProfilesSound
    OrderCorrect
CHECK_DEADLOCK FALSE
