SPECIFICATION CastSpec
CONSTANTS
    void = void
    sys = sys
    c1 = c1
    c2 = c2
    num = num
    o1 = o1
    o2 = o2
    NoClass = NoClass
    NoObject = NoObject
    VoidClass = void
    SystemClass = sys
    Classes <- MCClasses
    Types <- MCTypes
    MaxClasses = 4
    Objects <- MCObjects
    ClassOf <- MCClassOf
    Functions = {}
    FunctionClass <- NoFunctionClass
    FunctionTypes <- NoFunctionTypes
    Offsets = {0, 1}
    Foreign <- OnlyVoid
    Addresses = {0}
    LuaClassBound = 1
    LuaValueBound = 1
CHECK_DEADLOCK FALSE
INVARIANT OtherClassesAreRefused
