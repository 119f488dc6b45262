SPECIFICATION Spec
CONSTANTS
    void = void
    sys = sys
    c1 = c1
    c2 = c2
    c3 = c3
    num = num
    o1 = o1
    o2 = o2
    f1 = f1
    NoClass = NoClass
    NoObject = NoObject
    VoidClass = void
    SystemClass = sys
    Classes <- MCClasses
    Types <- MCClasses
    MaxClasses = 4
    Objects <- MCSystemObject
    ClassOf <- MCSystemClassOf
    Functions = {}
    FunctionClass <- NoFunctionClass
    FunctionTypes <- NoFunctionTypes
CHECK_DEADLOCK FALSE
INVARIANTS
    CapacityIsChecked
