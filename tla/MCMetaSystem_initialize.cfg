SPECIFICATION FairSpec
CONSTANTS
    void = void
    sys = sys
    c1 = c1
    c2 = c2
    c3 = c3
    num = num
    o1 = o1
    o2 = o2
    f1 = f1
    NoClass = NoClass
    NoObject = NoObject
    VoidClass = void
    SystemClass = sys
    Classes <- MCClasses
    Types <- MCTypes
    MaxClasses = 6
    Objects <- MCObjects
    ClassOf <- MCClassOf
    Functions = {f1}
    FunctionClass <- MCFunctionClass
    FunctionTypes <- MCFunctionTypes
CHECK_DEADLOCK FALSE
INVARIANTS
    TypeOK
    BaseListsAreAncestors
    TableInvertsIds
    ObjectsNeverMisresolve
    SignaturesUseCopies
PROPERTIES
    IdsAreWrittenOnce
    ReadyIsForever
    InitializeEnds
    ImplementsHierarchy
