SPECIFICATION ApplySpec
CONSTANTS
    NumberTypes <- MCNumberTypes
    Integral = {"int"}
    ValuesOf <- MCValuesOf
    One = 2
    Doubles <- MCDoubles
    Numerals <- MCNumerals
    LuaNumerals <- MCLuaNumerals
    Texts <- MCTexts
    Scripts <- MCScripts
    Slots = {"a", "b"}
    Nobody = Nobody
    Functions <- MCFunctions
    Params <- MCParams
    Result <- MCResult
    MaxArgs = 2
CHECK_DEADLOCK FALSE
INVARIANTS
    NumbersArrive
    LuaReadsBack
    ArgumentsArrive
PROPERTIES
    ResultsArrive
    TextsStay
