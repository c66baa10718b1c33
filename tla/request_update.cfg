CONSTANTS
    Form = {"set to-do 1 high", "set to-do 1 completed"}
    Role = {"user"}
    Domain = {"personal"}
    DataClass = {"D1"}
    ClientField = {"action"}
    ClientValue = {"complete"}
SPECIFICATION ReaderSpec
INVARIANT UpdatesAreServed
CHECK_DEADLOCK FALSE
