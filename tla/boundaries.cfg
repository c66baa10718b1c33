CONSTANTS
    Form <- MCForm
    Role = {"user", "admin", "guest"}
    Domain = {"personal", "office"}
    DataClass = {"D1", "D3"}
    ClientField = {"action", "id", "text"}
    ClientValue = {"2", "complete"}
    Builder = {b1, b2}
    Kind <- MCKind
    MaxBuild = 3
SYMMETRY Interchangeable
SPECIFICATION Spec
INVARIANT NamedItemWins
INVARIANT BundleIsWhatItSays
 
CHECK_DEADLOCK FALSE
