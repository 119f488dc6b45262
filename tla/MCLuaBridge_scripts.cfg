SPECIFICATION BridgeSpec
CONSTANTS
    void = void
    sys = sys
    root = root
    base = base
    derived = derived
    heap = heap
    o1 = o1
    o2 = o2
    o3 = o3
    h1 = h1
    NoClass = NoClass
    NoObject = NoObject
    VoidClass = void
    SystemClass = sys
    Classes <- MCClasses
    Types <- MCClasses
    MaxClasses = 6
    Objects <- MCObjects
    ClassOf <- MCClassOf
    Functions = {}
    FunctionClass <- NoFunctionClass
    FunctionTypes <- NoFunctionTypes
    Offsets = {0, 1}
    Foreign <- MCForeign
    Addresses = {0}
    LuaClassBound = 3
    LuaValueBound = 2
    Parent <- MCParent
    Numbering <- MCNumbering
    Heaps = {h1}
    HeapClass = heap
    RootClass = root
    Abstract <- MCAbstract
CHECK_DEADLOCK FALSE
INVARIANTS
    DeletesFreeTheBlock
    SameObjectIsEqual
