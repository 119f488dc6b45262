----------------------------- MODULE MetaValue -----------------------------
(* The metatypes of values: numbers, bool, const char* (cstring) and        *)
(* std::string (TgcString). A Variable is a typed place of the program.     *)
(* Whatever two types it lies between, a conversion goes through a double   *)
(* (ToNumber) or through text (ToString), and text is passed as a pointer:  *)
(* to a literal, to the characters of a string, or to the one static buffer *)
(* each number type prints into.                                            *)
(*                                                                          *)
(* Numbers are counted in fractions of 1/One. Which of them a double holds  *)
(* and which "%g" prints are constants: 53 bits and six digits in the code. *)
(* Infinities and NaN are left out.                                         *)
EXTENDS Integers

CONSTANTS
    NumberTypes,    \* the registered number types
    Integral,       \* those that hold whole numbers only
    ValuesOf,       \* the numbers each of them holds
    One,            \* the number 1, in the fractions numbers are counted in
    Doubles,        \* the numbers a double holds
    Numerals,       \* the numbers "%g" prints exactly
    LuaNumerals,    \* the numbers Lua prints exactly
    Texts,          \* the texts of the program's literals and strings
    Scripts,        \* what scripts leave on the Lua stack by themselves
    Slots,          \* the Variables of the program
    Nobody          \* the owner of a place that belongs to no slot or type

OtherTypes == {"bool", "cstring", "TgcString", "void"}
ValueTypes == NumberTypes \cup OtherTypes
StringTypes == {"cstring", "TgcString"}

(* What characters say: a number, or a word atof makes 0 of.                *)
Numeral(x) == [word |-> "numeral", number |-> x]
Word(w)    == [word |-> w, number |-> 0]
NoText     == Word("")

ASSUME ValueAssumption ==
    /\ NumberTypes \cap OtherTypes = {}
    /\ Integral \subseteq NumberTypes
    /\ One \in Nat \ {0}
    /\ Doubles \subseteq Int /\ {0, One} \subseteq Doubles
    /\ Numerals \subseteq Int /\ Numerals # {}
    /\ LuaNumerals \subseteq Int /\ LuaNumerals # {}
    /\ \A t \in NumberTypes : ValuesOf[t] \subseteq Int /\ ValuesOf[t] # {}
    /\ \A t \in Integral : \A x \in ValuesOf[t] : x % One = 0
    /\ \A t \in NumberTypes \ Integral : ValuesOf[t] \subseteq Doubles
    /\ Texts \subseteq [word : STRING, number : Int]
    /\ Scripts \subseteq [kind : {"nil", "number", "boolean", "string"},
                         number : Int, text : [word : STRING, number : Int]]
    /\ \A l \in Scripts : l.kind = "number" => l.number \in Doubles

VARIABLES
    slots,      \* the Variables, each with what it holds
    buffer,     \* the static buffer of each number type's ToString
    luaTop      \* the value on top of the Lua stack

valueVars == <<slots, buffer, luaTop>>

(* Places text can be at. A place that is gone was freed or belongs to a    *)
(* call that returned.                                                      *)
Literal(t) == [region |-> "literal", text |-> t, owner |-> Nobody]
Buffer(n)  == [region |-> "buffer", text |-> NoText, owner |-> n]
Inside(s)  == [region |-> "string", text |-> NoText, owner |-> s]
InLua      == [region |-> "lua", text |-> NoText, owner |-> Nobody]
Gone       == [region |-> "gone", text |-> NoText, owner |-> Nobody]

(* Variables of each type; fields a type does not use are left empty.       *)
Number(t, x)  == [type |-> t, number |-> x, text |-> NoText, at |-> Gone]
Bool(b)       == [type |-> "bool", number |-> IF b THEN 1 ELSE 0,
                  text |-> NoText, at |-> Gone]
CString(p)    == [type |-> "cstring", number |-> 0, text |-> NoText, at |-> p]
TgcString(t)  == [type |-> "TgcString", number |-> 0, text |-> t, at |-> Gone]
Void          == [type |-> "void", number |-> 0, text |-> NoText, at |-> Gone]

(* A Variable whose pointer and type were reset: what it was may hold text  *)
(* others point to.                                                         *)
Cleared(v) == [Void EXCEPT !.text = v.text]

(* What a program can initialize a Variable to. Storage that was created    *)
(* but not initialized holds any of these.                                  *)
InitialVariables ==
    (UNION {{Number(t, x) : x \in ValuesOf[t]} : t \in NumberTypes})
      \cup {Bool(b) : b \in BOOLEAN}
      \cup {CString(Literal(t)) : t \in Texts}
      \cup {TgcString(t) : t \in Texts}

NoLua         == [kind |-> "none", number |-> 0, text |-> NoText]
LuaNil        == [kind |-> "nil", number |-> 0, text |-> NoText]
LuaNumber(x)  == [kind |-> "number", number |-> x, text |-> NoText]
LuaBoolean(n) == [kind |-> "boolean", number |-> n, text |-> NoText]
LuaString(t)  == [kind |-> "string", number |-> 0, text |-> t]

ValueInit ==
    /\ slots = [s \in Slots |-> Void]
    /\ buffer = [t \in NumberTypes |-> NoText]
    /\ luaTop = NoLua
-----------------------------------------------------------------------------
Abs(x) == IF x < 0 THEN -x ELSE x

(* Rounding to a member of S; between two equally near ones it is left open.*)
Nearest(S, x) == CHOOSE y \in S : \A z \in S : Abs(x - y) <= Abs(x - z)

ToDouble(x) == Nearest(Doubles, x)

Truncate(x) == IF x < 0 THEN -(((-x) \div One) * One) ELSE (x \div One) * One

TextAt(p) ==
    CASE p.region = "literal" -> p.text
      [] p.region = "buffer"  -> buffer[p.owner]
      [] p.region = "string"  -> slots[p.owner].text
      [] p.region = "lua"     -> luaTop.text
      [] OTHER                -> NoText

(* Nothing may look at a cstring whose characters are gone.                 *)
IsAlive(v) == v.type = "cstring" => v.at # Gone

Printed(t, x) == Numeral(Nearest(Numerals, ToDouble(x)))

(* The text ToString makes of v.                                            *)
Said(v) ==
    CASE v.type \in NumberTypes -> Printed(v.type, v.number)
      [] v.type = "bool"        -> Word(IF v.number = 0 THEN "false" ELSE "true")
      [] v.type = "cstring"     -> TextAt(v.at)
      [] v.type = "TgcString"   -> v.text
      [] v.type = "void"        -> NoText

(* Where that text is, when v lies at the place self.                       *)
TextPlace(v, self) ==
    CASE v.type \in NumberTypes -> Buffer(v.type)
      [] v.type = "cstring"     -> v.at
      [] v.type = "TgcString"   -> self
      [] OTHER                  -> Literal(Said(v))

\* Slip: one buffer serves all number types.
Prints_SharedBuffer(v) ==
    IF v.type \in NumberTypes
    THEN [t \in NumberTypes |-> Printed(v.type, v.number)]
    ELSE buffer

(* The buffers once v was printed.                                          *)
Prints(v) ==
    IF v.type \in NumberTypes
    THEN [buffer EXCEPT ![v.type] = Printed(v.type, v.number)]
    ELSE buffer

ToNumber(v) ==
    CASE v.type \in NumberTypes -> ToDouble(v.number)
      [] v.type = "bool"        -> v.number * One
      [] v.type \in StringTypes -> ToDouble(Said(v).number)
      [] v.type = "void"        -> 0

\* Slip: the number is rounded instead of cut off.
Casts_Rounding(t, x) == {((x + One \div 2) \div One) * One}

(* (T)x for a double x. It is undefined when T holds no such number.        *)
Casts(t, x) ==
    IF t \notin Integral                THEN {Nearest(ValuesOf[t], x)}
    ELSE IF Truncate(x) \in ValuesOf[t] THEN {Truncate(x)}
    ELSE ValuesOf[t]

(* DynamicCast of v, which lies at self, to the type t: what t may hold     *)
(* then. Only a cast to a string type prints.                               *)
DynamicCast(t, v, self) ==
    CASE t \in NumberTypes -> {Number(t, x) : x \in Casts(t, ToNumber(v))}
      [] t = "bool"        -> {Bool(ToNumber(v) # 0)}
      [] t = "cstring"     -> {CString(TextPlace(v, self))}
      [] t = "TgcString"   -> {TgcString(Said(v))}

BuffersAfterCast(t, v) == IF t \in StringTypes THEN Prints(v) ELSE buffer

(* v stored in the slot s. A string that is assigned to or destroyed may    *)
(* free its characters.                                                     *)
Assign(s, v) ==
    [x \in Slots |-> IF x = s                       THEN v
                     ELSE IF slots[x].at = Inside(s) THEN CString(Gone)
                     ELSE slots[x]]

(* The program gives the Variable s another type or value.                  *)
SetVariable(s, v) ==
    /\ slots' = Assign(s, v)
    /\ UNCHANGED <<buffer, luaTop>>

(* A script leaves a value on the stack.                                    *)
RunScript(l) ==
    /\ luaTop = NoLua
    /\ luaTop' = l
    /\ UNCHANGED <<slots, buffer>>

Written(v) ==
    CASE v.type \in NumberTypes -> LuaNumber(ToDouble(v.number))
      [] v.type = "bool"        -> LuaBoolean(v.number)
      [] v.type \in StringTypes -> LuaString(Said(v))

WriteType(s) ==
    /\ luaTop = NoLua
    /\ slots[s].type # "void"
    /\ IsAlive(slots[s])
    /\ luaTop' = Written(slots[s])
    /\ UNCHANGED <<slots, buffer>>

(* Lua's own conversions: a number from text that is one, text from a       *)
(* number. Reading text turns a number on the stack into its text.          *)
IsNumberInLua(l) == l.kind = "number" \/ (l.kind = "string" /\ l.text.word = "numeral")
NumberInLua(l) == IF l.kind = "number" THEN l.number ELSE ToDouble(l.text.number)
TextInLua(l) ==
    IF l.kind = "number" THEN Numeral(Nearest(LuaNumerals, l.number)) ELSE l.text

\* Slip: booleans are read by their number.
Reads_BoolAsNumber(t, v, l) ==
    CASE t \in NumberTypes /\ IsNumberInLua(l) ->
            {Number(t, x) : x \in Casts(t, NumberInLua(l))}
      [] t = "bool" -> {Bool(NumberInLua(l) = One)}
      [] t = "cstring" /\ l.kind \in {"number", "string"} -> {CString(InLua)}
      [] t = "TgcString" /\ l.kind \in {"number", "string"} ->
            {TgcString(TextInLua(l))}
      [] t \in StringTypes /\ l.kind \notin {"number", "string"} -> {v}
      [] OTHER -> {}

(* What ReadType of the type t leaves in storage that held v: nothing when  *)
(* it raises a Lua error, and v when t is a string type and l is no text.   *)
Reads(t, v, l) ==
    CASE t \in NumberTypes /\ IsNumberInLua(l) ->
            {Number(t, x) : x \in Casts(t, NumberInLua(l))}
      [] t = "bool" -> {Bool(~(l = LuaNil \/ l = LuaBoolean(0)))}
      [] t = "cstring" /\ l.kind \in {"number", "string"} -> {CString(InLua)}
      [] t = "TgcString" /\ l.kind \in {"number", "string"} ->
            {TgcString(TextInLua(l))}
      [] t \in StringTypes /\ l.kind \notin {"number", "string"} -> {v}
      [] OTHER -> {}

StackAfterRead(t, l) ==
    IF t \in StringTypes /\ l.kind = "number" THEN LuaString(TextInLua(l)) ELSE l

ReadType(s) ==
    /\ luaTop # NoLua
    /\ slots[s].type # "void"
    /\ \E v \in Reads(slots[s].type, slots[s], luaTop) : slots' = Assign(s, v)
    /\ luaTop' = StackAfterRead(slots[s].type, luaTop)
    /\ UNCHANGED buffer

(* The value leaves the stack, after it was used or because of an error;    *)
(* its characters may be collected.                                         *)
Pop ==
    /\ luaTop # NoLua
    /\ luaTop' = NoLua
    /\ slots' = [s \in Slots |-> IF slots[s].at = InLua THEN CString(Gone)
                                 ELSE slots[s]]
    /\ UNCHANGED buffer

ValueNext ==
    \/ \E s \in Slots, v \in InitialVariables : SetVariable(s, v)
    \/ \E s \in Slots : WriteType(s) \/ ReadType(s)
    \/ \E l \in Scripts : RunScript(l)
    \/ Pop
-----------------------------------------------------------------------------
(* The reference meaning of a cast between numbers, and of a trip through   *)
(* text: a number every part of the way holds arrives unchanged; a fraction *)
(* is cut off, never rounded up or away from zero; text that prints a       *)
(* number exactly reads back as it.                                         *)
NumbersArrive ==
    \A s \in Slots, t \in NumberTypes :
        LET v == slots[s]
            x == v.number
            direct == Casts(t, ToNumber(v))
            viaText == Casts(t, ToNumber(TgcString(Said(v))))
        IN  v.type \in NumberTypes =>
              /\ x \in Doubles \cap ValuesOf[t] => direct = {x}
              /\ x \in Doubles \cap Numerals \cap ValuesOf[t] => viaText = {x}
              /\ x \in Doubles /\ t \in Integral /\ direct # ValuesOf[t] =>
                    \A y \in direct : /\ Abs(y) <= Abs(x)
                                      /\ Abs(x) - Abs(y) < One
                                      /\ x * y >= 0

(* What WriteType puts on the stack ReadType of the same type takes off it  *)
(* unchanged: booleans, texts, and the numbers a double holds.              *)
LuaReadsBack ==
    \A s \in Slots :
        LET v == slots[s]
        IN  v.type # "void" /\ IsAlive(v) =>
              \A w \in Reads(v.type, v, Written(v)) :
                 /\ v.type = "bool" => w = v
                 /\ v.type = "TgcString" => w = v
                 /\ v.type \in NumberTypes /\ v.number \in Doubles => w = v
=============================================================================
