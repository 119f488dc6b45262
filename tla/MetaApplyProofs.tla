-------------------------- MODULE MetaApplyProofs --------------------------
(* Theorems about conversions and calls: what arrives in a number, in Lua,  *)
(* in a parameter and in a result, for any number types, any precision of   *)
(* doubles and numerals and any functions.                                  *)
EXTENDS MetaApply, WellFoundedInduction, TLAPS

-----------------------------------------------------------------------------
(* Every set of naturals has a least element: the distances to a number     *)
(* among them, so that a nearest number exists.                             *)
LEMMA LeastNat ==
    ASSUME NEW T \in SUBSET Nat, T # {}
    PROVE  \E x \in T : \A y \in T : x <= y
<1>1. IsWellFoundedOn(OpToRel(<, Nat), Nat)
  BY NatLessThanWellFounded
<1>2. PICK x \in T : \A y \in T : ~ (<<y, x>> \in OpToRel(<, Nat))
  BY <1>1, WFMin
<1>3. \A y \in T : ~(y < x)
  BY <1>2 DEF OpToRel
<1> QED
  BY <1>3

(* Rounding stays in the set, however coarse it is.                         *)
LEMMA NearestIsIn ==
    ASSUME NEW S \in SUBSET Int, S # {}, NEW x \in Int
    PROVE  Nearest(S, x) \in S
<1> DEFINE T == {Abs(x - y) : y \in S}
<1>1. T \in SUBSET Nat /\ T # {}
  <2>1. \A y \in S : Abs(x - y) \in Nat
    BY DEF Abs
  <2> QED
    BY <2>1
<1>2. PICK d \in T : \A e \in T : d <= e
  BY <1>1, LeastNat
<1>3. PICK y \in S : d = Abs(x - y)
  OBVIOUS
<1>4. \A z \in S : Abs(x - z) \in T
  OBVIOUS
<1> HIDE DEF T
<1>5. \A z \in S : Abs(x - y) <= Abs(x - z)
  BY <1>2, <1>3, <1>4
<1> QED
  BY <1>5 DEF Nearest

(* A number of the set is its own rounding, and only it.                    *)
LEMMA NearestToSelf ==
    ASSUME NEW S \in SUBSET Int, NEW x \in S
    PROVE  Nearest(S, x) = x
<1>1. \A z \in S : Abs(x - x) <= Abs(x - z)
  BY DEF Abs
<1>2. ASSUME NEW y \in S, \A z \in S : Abs(x - y) <= Abs(x - z)
      PROVE  y = x
  BY <1>2 DEF Abs
<1> QED
  BY <1>1, <1>2 DEF Nearest

(* The sets of numbers the instance gives are sets of integers, none empty. *)
LEMMA NumbersAre ==
    /\ One \in Nat \ {0}
    /\ Doubles \in SUBSET Int /\ Doubles # {}
    /\ Numerals \in SUBSET Int /\ Numerals # {}
    /\ LuaNumerals \in SUBSET Int /\ LuaNumerals # {}
    /\ \A t \in NumberTypes : ValuesOf[t] \in SUBSET Int /\ ValuesOf[t] # {}
  BY ValueAssumption

(* A double is what it is made from, when there is such a double.           *)
LEMMA ToDoubleIs ==
    ASSUME NEW x \in Int
    PROVE  /\ ToDouble(x) \in Doubles /\ ToDouble(x) \in Int
           /\ x \in Doubles => ToDouble(x) = x
  BY NumbersAre, NearestIsIn, NearestToSelf DEF ToDouble

(* Dividing a natural by One and multiplying again loses less than One.     *)
LEMMA WholePart ==
    ASSUME NEW x \in Nat
    PROVE  /\ (x \div One) * One \in Nat
           /\ (x \div One) * One <= x
           /\ x - (x \div One) * One < One
<1>1. /\ x \div One \in Nat /\ x % One \in 0 .. One - 1
      /\ x = One * (x \div One) + (x % One)
  BY NumbersAre
<1>2. One * (x \div One) = (x \div One) * One /\ (x \div One) * One \in Nat
  BY <1>1, NumbersAre
<1> QED
  BY <1>1, <1>2, NumbersAre

(* A cast to a whole number cuts the fraction off, towards zero.            *)
LEMMA TruncateCutsOff ==
    ASSUME NEW x \in Int
    PROVE  LET y == Truncate(x) IN
           /\ y \in Int /\ Abs(y) <= Abs(x) /\ Abs(x) - Abs(y) < One
           /\ x * y >= 0
<1>1. CASE x >= 0
  <2> DEFINE y == (x \div One) * One
  <2>1. y \in Nat /\ y <= x /\ x - y < One
    BY <1>1, WholePart
  <2>2. Truncate(x) = y
    BY <1>1 DEF Truncate
  <2> HIDE DEF y
  <2>3. x * y >= 0
    BY <1>1, <2>1
  <2> QED
    BY <1>1, <2>1, <2>2, <2>3, NumbersAre DEF Abs
<1>2. CASE x < 0
  <2> DEFINE m == -x
             y == (m \div One) * One
  <2>1. m \in Nat /\ y \in Nat /\ y <= m /\ m - y < One
    BY <1>2, WholePart
  <2>2. Truncate(x) = -y
    BY <1>2 DEF Truncate
  <2>3. x = -m
    OBVIOUS
  <2> HIDE DEF y, m
  <2>4. m * y >= 0 /\ (-m) * (-y) = m * y
    BY <2>1
  <2> QED
    BY <1>2, <2>1, <2>2, <2>3, <2>4, NumbersAre DEF Abs
<1> QED
  BY <1>1, <1>2

(* A whole number has no fraction to lose.                                  *)
LEMMA TruncateWhole ==
    ASSUME NEW x \in Int, x % One = 0
    PROVE  Truncate(x) = x
<1>1. PICK q \in Int : x = q * One
  <2> DEFINE q == x \div One
  <2>1. q \in Int /\ x = (One * q) + (x % One)
    BY NumbersAre
  <2>2. One * q = q * One /\ q * One \in Int
    BY <2>1, NumbersAre
  <2> HIDE DEF q
  <2>3. x = q * One
    BY <2>1, <2>2
  <2> QED
    BY <2>1, <2>3
<1>2. ASSUME NEW m \in Nat, NEW n \in Int, m = n * One
      PROVE  (m \div One) * One = m
  <2> DEFINE p == m \div One
             k == n - p
  <2>1. p \in Nat /\ p * One \in Nat /\ p * One <= m /\ m - p * One < One
    BY WholePart, NumbersAre
  <2>2. k \in Int /\ k * One = n * One - p * One
    BY <2>1, NumbersAre
  <2> HIDE DEF p
  <2>3. k * One >= 0 /\ k * One < One
    BY <1>2, <2>1, <2>2, NumbersAre
  <2> HIDE DEF k
  <2>4. ~(k >= 1)
    <3> SUFFICES ASSUME k >= 1 PROVE FALSE
      OBVIOUS
    <3>1. (k - 1) * One >= 0 /\ (k - 1) * One = k * One - One
      BY <2>2, NumbersAre
    <3> QED
      BY <2>2, <2>3, <3>1, NumbersAre
  <2>5. ~(k <= -1)
    <3> SUFFICES ASSUME k <= -1 PROVE FALSE
      OBVIOUS
    <3>1. (-k - 1) * One >= 0 /\ (-k - 1) * One = -(k * One) - One
      BY <2>2, NumbersAre
    <3> QED
      BY <2>2, <2>3, <3>1, NumbersAre
  <2>6. k = 0
    BY <2>2, <2>4, <2>5
  <2>7. k * One = 0
    BY <2>6, NumbersAre
  <2> QED
    BY <1>2, <2>1, <2>2, <2>7, NumbersAre DEF p
<1>3. CASE x >= 0
  BY <1>1, <1>2, <1>3 DEF Truncate
<1>4. CASE x < 0
  <2>1. -x \in Nat /\ -q \in Int /\ -x = (-q) * One
    BY <1>1, <1>4, NumbersAre
  <2>2. ((-x) \div One) * One = -x
    BY <1>2, <2>1
  <2> QED
    BY <1>4, <2>2 DEF Truncate
<1> QED
  BY <1>3, <1>4

(* What a cast may give is what the type holds, and a number it holds comes *)
(* out as itself.                                                           *)
LEMMA CastsStayInType ==
    ASSUME NEW t \in NumberTypes, NEW x \in Int
    PROVE  /\ Casts(t, x) \subseteq ValuesOf[t]
           /\ x \in ValuesOf[t] => Casts(t, x) = {x}
<1>1. CASE t \notin Integral
  BY <1>1, NumbersAre, NearestIsIn, NearestToSelf DEF Casts
<1>2. CASE t \in Integral
  <2>1. x \in ValuesOf[t] => Truncate(x) = x
    BY <1>2, TruncateWhole, ValueAssumption
  <2> QED
    BY <1>2, <2>1 DEF Casts
<1> QED
  BY <1>1, <1>2
-----------------------------------------------------------------------------

(* A text counts as a number.                                               *)
IsText(t) == t.number \in Int

(* Where the text of a Variable can be.                                     *)
IsPlace(p) ==
    \/ p = Literal(p.text) /\ IsText(p.text)
    \/ p = Buffer(p.owner) /\ p.owner \in NumberTypes
    \/ p = Inside(p.owner) /\ p.owner \in Slots
    \/ p = InLua
    \/ p = Gone

(* What a Variable can be: it is determined by the field its type uses.     *)
IsVariable(v) ==
    \/ /\ v = Number(v.type, v.number)
       /\ v.type \in NumberTypes /\ v.number \in ValuesOf[v.type]
    \/ v = Bool(TRUE) \/ v = Bool(FALSE)
    \/ v = CString(v.at) /\ IsPlace(v.at)
    \/ v = TgcString(v.text) /\ IsText(v.text)
    \/ v = Cleared(v) /\ IsText(v.text)

(* The Variables, the buffers and the stack hold what they can. A cstring   *)
(* read from Lua points to characters that are still on the stack.          *)
ValueInv ==
    /\ DOMAIN slots = Slots /\ \A s \in Slots : IsVariable(slots[s])
    /\ slots = [s \in Slots |-> slots[s]]
    /\ buffer = [n \in NumberTypes |-> buffer[n]]
    /\ \A n \in NumberTypes : IsText(buffer[n])
    /\ luaTop.number \in Int /\ IsText(luaTop.text)
    /\ \A s \in Slots : slots[s].at = InLua => luaTop.kind = "string"

(* A call has Variables for the parameters of its function, and a typed one *)
(* for the result; nothing in it points into Lua.                           *)
CallInv ==
    /\ step \in {"idle", "convert", "return", "halted"}
    /\ step \in {"convert", "return"} =>
         /\ luaTop = NoLua
         /\ function \in Functions /\ retval \in Slots
         /\ args \in [1 .. Len(Params[function]) -> Slots]
         /\ DOMAIN params = DOMAIN args /\ DOMAIN given = DOMAIN args
         /\ \A i \in DOMAIN args :
               \/ params[i] = Void
               \/ /\ IsVariable(params[i]) /\ params[i].at # InLua
                  /\ params[i].type = Params[function][i]
         /\ Result[function] # "void" => slots[retval].type # "void"
    /\ step = "return" =>
         /\ IsVariable(result) /\ result.at # InLua
         /\ result.type = Result[function] /\ result.type # "void"

(* What the conversions keep: an argument that is a number, or that nothing *)
(* is printed over, says what it said; a parameter holds that, and a        *)
(* cstring points where the text of its argument is.                        *)
ArrivalInv ==
    step = "convert" =>
        \A i \in DOMAIN args :
            LET v == slots[args[i]] IN
            /\ v.type \in NumberTypes => given[i] = Meaning(v)
            /\ params[i].type = "cstring" =>
                  params[i].at = TextPlace(v, Inside(args[i]))
            /\ Undisturbed(i) =>
                  /\ given[i] = Meaning(v)
                  /\ params[i] # Void => Holds(params[i], given[i])
-----------------------------------------------------------------------------
(* The text nobody printed is a text.                                       *)
LEMMA NoTextIs == IsText(NoText)
<1>1. NoText.number = 0
  BY DEF NoText, Word
<1> QED
  BY <1>1 DEF IsText

(* What the type of a Variable says about its fields.                       *)
LEMMA VariableIs ==
    ASSUME NEW v, IsVariable(v)
    PROVE  /\ v.type \in ValueTypes
           /\ IsText(v.text) /\ v.number \in Int /\ IsPlace(v.at)
           /\ v.type # "cstring" => v.at = Gone
           /\ v.type = "cstring" => v = CString(v.at) /\ v.text = NoText
           /\ v.type \in NumberTypes =>
                 v = Number(v.type, v.number) /\ v.number \in ValuesOf[v.type]
           /\ v.type = "bool" => v = Bool(TRUE) \/ v = Bool(FALSE)
           /\ v.type = "TgcString" => v = TgcString(v.text)
<1>1. \A t \in OtherTypes : t \notin NumberTypes
  BY ValueAssumption
<1>2. IsText(NoText)
  BY NoTextIs
<1>3. IsPlace(Gone)
  BY DEF IsPlace
<1>4. CASE /\ v = Number(v.type, v.number)
           /\ v.type \in NumberTypes /\ v.number \in ValuesOf[v.type]
  <2>1. v.number \in Int /\ v.type \in ValueTypes /\ v.type \notin OtherTypes
    BY <1>1, <1>4, NumbersAre DEF ValueTypes
  <2>2. v.text = NoText /\ v.at = Gone
    BY <1>4 DEF Number
  <2> QED
    BY <1>2, <1>3, <1>4, <2>1, <2>2 DEF OtherTypes
<1>5. CASE v = Bool(TRUE) \/ v = Bool(FALSE)
  <2>1. /\ v.type = "bool" /\ v.text = NoText /\ v.at = Gone
        /\ v.number \in Int
    BY <1>5 DEF Bool
  <2>2. v.type \in ValueTypes /\ v.type \notin NumberTypes
    BY <1>1, <2>1 DEF ValueTypes, OtherTypes
  <2> QED
    BY <1>2, <1>3, <1>5, <2>1, <2>2
<1>6. CASE v = CString(v.at) /\ IsPlace(v.at)
  <2>1. v.type = "cstring" /\ v.text = NoText /\ v.number = 0
    BY <1>6 DEF CString
  <2> QED
    BY <1>1, <1>2, <1>6, <2>1 DEF ValueTypes, OtherTypes
<1>7. CASE v = TgcString(v.text) /\ IsText(v.text)
  <2>1. v.type = "TgcString" /\ v.number = 0 /\ v.at = Gone
    BY <1>7 DEF TgcString
  <2> QED
    BY <1>1, <1>3, <1>7, <2>1 DEF ValueTypes, OtherTypes
<1>8. CASE v = Cleared(v) /\ IsText(v.text)
  <2>1. v.type = "void" /\ v.number = 0 /\ v.at = Gone
    BY <1>8 DEF Cleared, Void
  <2> QED
    BY <1>1, <1>3, <1>8, <2>1 DEF ValueTypes, OtherTypes
<1> QED
  BY <1>4, <1>5, <1>6, <1>7, <1>8 DEF IsVariable

(* Variables and places the operators make.                                 *)
LEMMA MadeVariables ==
    /\ \A t \in NumberTypes, x \in Int : x \in ValuesOf[t] => IsVariable(Number(t, x))
    /\ \A b \in BOOLEAN : IsVariable(Bool(b))
    /\ \A p : IsPlace(p) => IsVariable(CString(p))
    /\ \A t : IsText(t) => IsVariable(TgcString(t)) /\ IsPlace(Literal(t))
    /\ \A t \in NumberTypes : IsPlace(Buffer(t))
    /\ \A s \in Slots : IsPlace(Inside(s))
    /\ IsPlace(InLua) /\ IsPlace(Gone)
    /\ IsVariable(Void)
    /\ \A v : IsVariable(v) => IsVariable(Cleared(v))
<1>1. \A t \in NumberTypes, x \in Int : x \in ValuesOf[t] => IsVariable(Number(t, x))
  BY DEF IsVariable, Number
<1>2. \A b \in BOOLEAN : IsVariable(Bool(b))
  BY DEF IsVariable
<1>3. \A p : IsPlace(p) => IsVariable(CString(p))
  <2> SUFFICES ASSUME NEW p, IsPlace(p) PROVE IsVariable(CString(p))
    OBVIOUS
  <2> DEFINE v == CString(p)
  <2>1. v.at = p
    BY DEF CString
  <2> QED
    BY <2>1 DEF IsVariable
<1>4. \A t : IsText(t) => IsVariable(TgcString(t)) /\ IsPlace(Literal(t))
  <2> SUFFICES ASSUME NEW t, IsText(t)
               PROVE  IsVariable(TgcString(t)) /\ IsPlace(Literal(t))
    OBVIOUS
  <2> DEFINE v == TgcString(t)
             p == Literal(t)
  <2>1. v.text = t /\ p.text = t
    BY DEF TgcString, Literal
  <2> QED
    BY <2>1 DEF IsVariable, IsPlace
<1>5. \A t \in NumberTypes : IsPlace(Buffer(t))
  BY DEF IsPlace, Buffer
<1>6. \A s \in Slots : IsPlace(Inside(s))
  BY DEF IsPlace, Inside
<1>7. IsPlace(InLua) /\ IsPlace(Gone)
  BY DEF IsPlace
<1>8. ASSUME NEW v, IsText(v.text) PROVE IsVariable(Cleared(v))
  <2> DEFINE w == Cleared(v)
  <2>1. w.text = v.text /\ w = Cleared(w)
    BY DEF Cleared, Void
  <2> QED
    BY <1>8, <2>1 DEF IsVariable
<1>9. IsVariable(Void)
  <2> DEFINE w == Cleared(Void)
  <2>1. w = Void
    BY DEF Cleared, Void
  <2>2. Void.text = NoText
    BY DEF Void
  <2> QED
    BY <1>8, <2>1, <2>2, NoTextIs
<1> QED
  BY <1>1, <1>2, <1>3, <1>4, <1>5, <1>6, <1>7, <1>8, <1>9, VariableIs

(* Characters are text, wherever they are.                                  *)
LEMMA TextAtIs ==
    ASSUME ValueInv, NEW p, IsPlace(p)
    PROVE  IsText(TextAt(p))
<1>1. IsText(NoText)
  BY NoTextIs
<1>2. \A s \in Slots : IsText(slots[s].text)
  BY VariableIs DEF ValueInv
<1>3. CASE p = Literal(p.text) /\ IsText(p.text)
  BY <1>3 DEF TextAt, Literal
<1>4. CASE p = Buffer(p.owner) /\ p.owner \in NumberTypes
  BY <1>4 DEF TextAt, Buffer, ValueInv
<1>5. CASE p = Inside(p.owner) /\ p.owner \in Slots
  BY <1>2, <1>5 DEF TextAt, Inside
<1>6. CASE p = InLua
  BY <1>6 DEF TextAt, InLua, ValueInv
<1>7. CASE p = Gone
  BY <1>1, <1>7 DEF TextAt, Gone
<1> QED
  BY <1>3, <1>4, <1>5, <1>6, <1>7 DEF IsPlace

(* So is what a Variable says, and it counts as a number.                   *)
LEMMA MeaningIs ==
    ASSUME ValueInv, NEW v, IsVariable(v)
    PROVE  IsText(Said(v)) /\ ToNumber(v) \in Int
<1>1. \A t \in OtherTypes : t \notin NumberTypes
  BY ValueAssumption
<1>2. \A x \in Int : IsText(Numeral(x))
  BY DEF Numeral, IsText
<1>3. CASE v.type \in NumberTypes
  <2>1. ToDouble(v.number) \in Int
    BY VariableIs, ToDoubleIs
  <2>2. Nearest(Numerals, ToDouble(v.number)) \in Int
    BY <2>1, NearestIsIn, NumbersAre
  <2>3. Said(v) = Printed(v.type, v.number) /\ ToNumber(v) = ToDouble(v.number)
    BY <1>1, <1>3 DEF Said, ToNumber, OtherTypes, StringTypes
  <2> QED
    BY <1>2, <2>1, <2>2, <2>3 DEF Printed
<1>4. CASE v.type = "bool"
  <2>1. v.number \in Int /\ One \in Int
    <3>1. v.number \in Int
      BY VariableIs
    <3>2. One \in Int
      BY ValueAssumption
    <3> QED
      BY <3>1, <3>2
  <2>2. /\ Said(v) = Word(IF v.number = 0 THEN "false" ELSE "true")
        /\ ToNumber(v) = v.number * One
    BY <1>1, <1>4 DEF Said, ToNumber, OtherTypes, StringTypes
  <2>3. v.number * One \in Int
    BY <2>1
  <2> QED
    BY <2>2, <2>3 DEF Word, IsText
<1>5. CASE v.type = "cstring"
  <2>1. Said(v) = TextAt(v.at) /\ ToNumber(v) = ToDouble(Said(v).number)
    BY <1>1, <1>5 DEF Said, ToNumber, OtherTypes, StringTypes
  <2>2. IsText(Said(v))
    BY <2>1, TextAtIs, VariableIs
  <2> QED
    BY <2>1, <2>2, ToDoubleIs DEF IsText
<1>6. CASE v.type = "TgcString"
  <2>1. Said(v) = v.text /\ ToNumber(v) = ToDouble(Said(v).number)
    BY <1>1, <1>6 DEF Said, ToNumber, OtherTypes, StringTypes
  <2>2. IsText(Said(v))
    BY <2>1, VariableIs
  <2> QED
    BY <2>1, <2>2, ToDoubleIs DEF IsText
<1>7. CASE v.type = "void"
  <2>1. Said(v) = NoText /\ ToNumber(v) = 0
    BY <1>1, <1>7 DEF Said, ToNumber, OtherTypes, StringTypes
  <2> QED
    BY <2>1, NoTextIs
<1> QED
  BY <1>3, <1>4, <1>5, <1>6, <1>7, VariableIs DEF ValueTypes, OtherTypes

(* A text lies in a place; it is Lua's own only if the Variable's was.      *)
LEMMA TextPlaceIs ==
    ASSUME ValueInv, NEW v, IsVariable(v), NEW self, IsPlace(self), self # InLua
    PROVE  /\ IsPlace(TextPlace(v, self))
           /\ TextPlace(v, self) = InLua => v.at = InLua
<1>1. \A t \in OtherTypes : t \notin NumberTypes
  BY ValueAssumption
<1>2. Literal(Said(v)) # InLua /\ IsPlace(Literal(Said(v)))
  BY MeaningIs, MadeVariables DEF Literal, InLua
<1>3. v.type \in NumberTypes => Buffer(v.type) # InLua /\ IsPlace(Buffer(v.type))
  BY MadeVariables DEF Buffer, InLua
<1>4. v.type = "cstring" => IsPlace(v.at)
  BY VariableIs
<1> QED
  BY <1>1, <1>2, <1>3, <1>4 DEF TextPlace, OtherTypes

(* A cast makes a Variable of the type asked for.                           *)
LEMMA CastIs ==
    ASSUME ValueInv, NEW v, IsVariable(v), NEW self, IsPlace(self), self # InLua,
           NEW t \in ValueTypes, t # "void", NEW w \in DynamicCast(t, v, self)
    PROVE  /\ IsVariable(w) /\ w.type = t /\ w # Void
           /\ w.at = InLua => v.at = InLua
<1>1. \A u \in OtherTypes : u \notin NumberTypes
  BY ValueAssumption
<1>2. IsText(Said(v)) /\ ToNumber(v) \in Int
  BY MeaningIs
<1>3. CASE t \in NumberTypes
  <2>1. PICK x \in Casts(t, ToNumber(v)) : w = Number(t, x)
    BY <1>1, <1>3 DEF DynamicCast, OtherTypes
  <2>2. x \in ValuesOf[t] /\ x \in Int
    BY <1>2, <1>3, CastsStayInType, NumbersAre
  <2>3. IsVariable(w)
    BY <1>3, <2>1, <2>2, MadeVariables
  <2> QED
    BY <1>1, <1>3, <2>1, <2>3 DEF Number, Void, Gone, InLua, OtherTypes
<1>4. CASE t = "bool"
  <2>1. w = Bool(ToNumber(v) # 0)
    BY <1>1, <1>4 DEF DynamicCast, OtherTypes
  <2>2. IsVariable(w)
    BY <2>1, MadeVariables
  <2> QED
    BY <1>4, <2>1, <2>2 DEF Bool, Void, Gone, InLua
<1>5. CASE t = "cstring"
  <2>1. w = CString(TextPlace(v, self))
    BY <1>1, <1>5 DEF DynamicCast, OtherTypes
  <2>2. IsVariable(w)
    BY <2>1, MadeVariables, TextPlaceIs
  <2> QED
    BY <1>5, <2>1, <2>2, TextPlaceIs DEF CString, Void
<1>6. CASE t = "TgcString"
  <2>1. w = TgcString(Said(v))
    BY <1>1, <1>6 DEF DynamicCast, OtherTypes
  <2>2. IsVariable(w)
    BY <1>2, <2>1, MadeVariables
  <2> QED
    BY <1>6, <2>1, <2>2 DEF TgcString, Void, Gone, InLua
<1> QED
  BY <1>3, <1>4, <1>5, <1>6 DEF ValueTypes, OtherTypes

(* Printing changes one buffer at most, to what the number says.            *)
LEMMA PrintsOneBuffer ==
    ASSUME ValueInv, NEW t, NEW v, IsVariable(v)
    PROVE  LET b == BuffersAfterCast(t, v) IN
           /\ b = [n \in NumberTypes |-> b[n]]
           /\ \A n \in NumberTypes : IsText(b[n])
           /\ \A n \in NumberTypes :
                 \/ b[n] = buffer[n]
                 \/ t \in StringTypes /\ v.type = n /\ b[n] = Said(v)
           /\ v.type \notin NumberTypes => b = buffer
           /\ t \in StringTypes /\ v.type \in NumberTypes => b[v.type] = Said(v)
<1>1. /\ buffer = [n \in NumberTypes |-> buffer[n]]
      /\ \A n \in NumberTypes : IsText(buffer[n])
  BY DEF ValueInv
<1>2. v.type \in NumberTypes => Said(v) = Printed(v.type, v.number)
  BY ValueAssumption DEF Said, OtherTypes
<1>3. IsText(Said(v))
  BY MeaningIs
<1> QED
  BY <1>1, <1>2, <1>3 DEF BuffersAfterCast, Prints
-----------------------------------------------------------------------------
(* Storing a Variable in a slot touches only the cstrings that point into   *)
(* it, and those are gone: no text of another slot is lost.                 *)
LEMMA AssignIs ==
    ASSUME ValueInv, NEW s \in Slots, NEW v, IsVariable(v), slots' = Assign(s, v)
    PROVE  /\ DOMAIN slots' = Slots /\ slots' = [x \in Slots |-> slots'[x]]
           /\ \A x \in Slots : IsVariable(slots'[x])
           /\ slots'[s] = v
           /\ \A x \in Slots \ {s} :
                 /\ \/ slots'[x] = slots[x]
                    \/ slots'[x] = CString(Gone) /\ slots[x].at = Inside(s)
                 /\ slots'[x].text = slots[x].text
                 /\ slots'[x].at = InLua => slots[x].at = InLua
<1>1. slots' = [x \in Slots |-> IF x = s THEN v
                                ELSE IF slots[x].at = Inside(s) THEN CString(Gone)
                                ELSE slots[x]]
  BY DEF Assign
<1>2. \A x \in Slots : IsVariable(slots[x])
  BY DEF ValueInv
<1>3. IsVariable(CString(Gone))
  BY MadeVariables
<1>4. Inside(s) # Gone /\ Gone # InLua
  BY DEF Inside, Gone, InLua
<1>5. CString(Gone).text = NoText /\ CString(Gone).at = Gone
  BY DEF CString
<1>6. \A x \in Slots : slots[x].at = Inside(s) => slots[x].text = NoText
  BY <1>2, <1>4, VariableIs
<1> QED
  BY <1>1, <1>2, <1>3, <1>4, <1>5, <1>6

(* The Variables a program starts with are Variables.                       *)
LEMMA InitialAre ==
    ASSUME NEW v \in InitialVariables
    PROVE  IsVariable(v) /\ v.at # InLua /\ v # Void /\ v.type # "void"
<1>1. CASE \E t \in NumberTypes : \E x \in ValuesOf[t] : v = Number(t, x)
  <2>1. PICK t \in NumberTypes : \E x \in ValuesOf[t] : v = Number(t, x)
    BY <1>1
  <2>2. PICK x \in ValuesOf[t] : v = Number(t, x)
    BY <2>1
  <2>3. IsVariable(v)
    BY <2>2, MadeVariables, NumbersAre
  <2>4. t # "void"
    BY ValueAssumption DEF OtherTypes
  <2> QED
    BY <2>2, <2>3, <2>4 DEF Number, Void, Gone, InLua
<1>2. CASE \E b \in BOOLEAN : v = Bool(b)
  <2>1. IsVariable(v)
    BY <1>2, MadeVariables
  <2> QED
    BY <1>2, <2>1 DEF Bool, Void, Gone, InLua
<1>3. CASE \E t \in Texts : v = CString(Literal(t)) \/ v = TgcString(t)
  <2>1. PICK t \in Texts : v = CString(Literal(t)) \/ v = TgcString(t)
    BY <1>3
  <2>2. IsText(t)
    BY ValueAssumption DEF IsText
  <2>3. IsVariable(v)
    BY <2>1, <2>2, MadeVariables
  <2> QED
    BY <2>1, <2>3 DEF CString, TgcString, Literal, Void, Gone, InLua
<1>4. v \in UNION {{Number(t, x) : x \in ValuesOf[t]} : t \in NumberTypes}
        => \E t \in NumberTypes : \E x \in ValuesOf[t] : v = Number(t, x)
  OBVIOUS
<1>5. \/ v \in UNION {{Number(t, x) : x \in ValuesOf[t]} : t \in NumberTypes}
      \/ v \in {Bool(b) : b \in BOOLEAN}
      \/ v \in {CString(Literal(t)) : t \in Texts}
      \/ v \in {TgcString(t) : t \in Texts}
  BY DEF InitialVariables
<1>6. v \in {Bool(b) : b \in BOOLEAN} => \E b \in BOOLEAN : v = Bool(b)
  OBVIOUS
<1> QED
  BY <1>1, <1>2, <1>3, <1>4, <1>5, <1>6

(* Reading a value of Lua leaves a Variable of the same type: only a        *)
(* cstring can come to point to the stack, and then there is text on it.    *)
LEMMA ReadsAre ==
    ASSUME ValueInv, NEW v, IsVariable(v), v.type # "void",
           NEW w \in Reads(v.type, v, luaTop)
    PROVE  /\ IsVariable(w) /\ w.type = v.type
           /\ w.at = InLua /\ w # v =>
                 v.type = "cstring" /\ luaTop.kind \in {"number", "string"}
<1>1. \A t \in OtherTypes : t \notin NumberTypes
  BY ValueAssumption
<1>2. luaTop.number \in Int /\ IsText(luaTop.text)
  BY DEF ValueInv
<1>3. Gone # InLua
  BY DEF Gone, InLua
<1>4. CASE v.type \in NumberTypes
  <2>1. PICK x \in Casts(v.type, NumberInLua(luaTop)) : w = Number(v.type, x)
    BY <1>1, <1>4 DEF Reads, OtherTypes, StringTypes
  <2>2. NumberInLua(luaTop) \in Int
    BY <1>2, ToDoubleIs DEF NumberInLua, IsText
  <2>3. x \in ValuesOf[v.type] /\ x \in Int
    BY <1>4, <2>2, CastsStayInType, NumbersAre
  <2>4. IsVariable(w)
    BY <1>4, <2>1, <2>3, MadeVariables
  <2> QED
    BY <1>3, <2>1, <2>4 DEF Number
<1>5. CASE v.type = "bool"
  <2>1. PICK b \in BOOLEAN : w = Bool(b)
    BY <1>1, <1>5 DEF Reads, OtherTypes, StringTypes
  <2>2. IsVariable(w)
    BY <2>1, MadeVariables
  <2> QED
    BY <1>3, <1>5, <2>1, <2>2 DEF Bool
<1>6. CASE v.type = "cstring"
  <2>1. w = v \/ (w = CString(InLua) /\ luaTop.kind \in {"number", "string"})
    BY <1>1, <1>6 DEF Reads, OtherTypes, StringTypes
  <2>2. IsVariable(CString(InLua)) /\ CString(InLua).type = "cstring"
    BY MadeVariables DEF CString
  <2> QED
    BY <1>6, <2>1, <2>2
<1>7. CASE v.type = "TgcString"
  <2>1. w = v \/ w = TgcString(TextInLua(luaTop))
    BY <1>1, <1>7 DEF Reads, OtherTypes, StringTypes
  <2>2. IsText(TextInLua(luaTop))
    <3>1. IsText(Numeral(Nearest(LuaNumerals, luaTop.number)))
      BY <1>2, NearestIsIn, NumbersAre DEF Numeral, IsText
    <3> QED
      BY <1>2, <3>1 DEF TextInLua
  <2>3. /\ IsVariable(TgcString(TextInLua(luaTop)))
        /\ TgcString(TextInLua(luaTop)).type = "TgcString"
        /\ TgcString(TextInLua(luaTop)).at = Gone
    BY <2>2, MadeVariables DEF TgcString
  <2> QED
    BY <1>3, <1>7, <2>1, <2>3
<1> QED
  BY <1>4, <1>5, <1>6, <1>7, VariableIs DEF ValueTypes, OtherTypes

(* What a read leaves on the Lua stack is a Lua value.                      *)
LEMMA StackIs ==
    ASSUME ValueInv, NEW t
    PROVE  LET l == StackAfterRead(t, luaTop) IN
           /\ l.number \in Int /\ IsText(l.text)
           /\ luaTop.kind = "string" => l = luaTop
           /\ t = "cstring" /\ luaTop.kind \in {"number", "string"} =>
                 l.kind = "string"
<1>1. luaTop.number \in Int /\ IsText(luaTop.text)
  BY DEF ValueInv
<1>2. CASE t \in StringTypes /\ luaTop.kind = "number"
  <2> DEFINE n == Numeral(Nearest(LuaNumerals, luaTop.number))
  <2>1. IsText(n)
    BY <1>1, NearestIsIn, NumbersAre DEF Numeral, IsText
  <2>2. StackAfterRead(t, luaTop) = LuaString(n)
    BY <1>2 DEF StackAfterRead, TextInLua
  <2> HIDE DEF n
  <2>3. LuaString(n).number = 0 /\ LuaString(n).text = n /\ LuaString(n).kind = "string"
    BY DEF LuaString
  <2> QED
    BY <1>2, <2>1, <2>2, <2>3
<1>3. CASE ~(t \in StringTypes /\ luaTop.kind = "number")
  BY <1>1, <1>3 DEF StackAfterRead, StringTypes
<1> QED
  BY <1>2, <1>3

(* What a write puts on the Lua stack is a Lua value.                       *)
LEMMA WrittenIs ==
    ASSUME ValueInv, NEW v, IsVariable(v), v.type # "void"
    PROVE  Written(v).number \in Int /\ IsText(Written(v).text)
<1>1. \A t \in OtherTypes : t \notin NumberTypes
  BY ValueAssumption
<1>2. v.number \in Int /\ IsText(Said(v)) /\ ToDouble(v.number) \in Int
  BY VariableIs, MeaningIs, ToDoubleIs
<1>3. CASE v.type \in NumberTypes
  <2>1. Written(v) = LuaNumber(ToDouble(v.number))
    BY <1>1, <1>3 DEF Written, OtherTypes, StringTypes
  <2> QED
    BY <1>2, <2>1, NoTextIs DEF LuaNumber
<1>4. CASE v.type = "bool"
  <2>1. Written(v) = LuaBoolean(v.number)
    BY <1>1, <1>4 DEF Written, OtherTypes, StringTypes
  <2> QED
    BY <1>2, <2>1, NoTextIs DEF LuaBoolean
<1>5. CASE v.type \in StringTypes
  <2>1. Written(v) = LuaString(Said(v))
    BY <1>1, <1>5 DEF Written, OtherTypes, StringTypes
  <2> QED
    BY <1>2, <2>1 DEF LuaString
<1> QED
  BY <1>3, <1>4, <1>5, VariableIs DEF ValueTypes, OtherTypes, StringTypes

(* The values keep their form in every use of them outside a call.          *)
LEMMA ValueStep == ASSUME ValueInv, ValueNext PROVE ValueInv'
<1>1. ASSUME NEW s \in Slots, NEW v \in InitialVariables, SetVariable(s, v)
      PROVE  ValueInv'
  <2>1. IsVariable(v) /\ v.at # InLua
    BY InitialAre
  <2>2. slots' = Assign(s, v) /\ UNCHANGED <<buffer, luaTop>>
    BY <1>1 DEF SetVariable
  <2> QED
    BY <2>1, <2>2, AssignIs DEF ValueInv
<1>2. ASSUME NEW s \in Slots, WriteType(s) PROVE ValueInv'
  <2>1. /\ luaTop = NoLua /\ slots[s].type # "void"
        /\ luaTop' = Written(slots[s]) /\ UNCHANGED <<slots, buffer>>
    BY <1>2 DEF WriteType
  <2>2. IsVariable(slots[s])
    BY DEF ValueInv
  <2>3. luaTop'.number \in Int /\ IsText(luaTop'.text)
    BY <2>1, <2>2, WrittenIs
  <2>4. \A x \in Slots : slots[x].at # InLua
    BY <2>1 DEF ValueInv, NoLua
  <2> QED
    BY <2>1, <2>3, <2>4 DEF ValueInv
<1>3. ASSUME NEW s \in Slots, ReadType(s) PROVE ValueInv'
  <2>1. PICK v \in Reads(slots[s].type, slots[s], luaTop) :
           /\ slots' = Assign(s, v) /\ slots[s].type # "void"
           /\ luaTop' = StackAfterRead(slots[s].type, luaTop)
           /\ UNCHANGED buffer
    BY <1>3 DEF ReadType
  <2>2. IsVariable(slots[s])
    BY DEF ValueInv
  <2>3. /\ IsVariable(v)
        /\ v.at = InLua /\ v # slots[s] =>
              slots[s].type = "cstring" /\ luaTop.kind \in {"number", "string"}
    BY <2>1, <2>2, ReadsAre
  <2>4. /\ luaTop'.number \in Int /\ IsText(luaTop'.text)
        /\ luaTop.kind = "string" => luaTop' = luaTop
        /\ slots[s].type = "cstring" /\ luaTop.kind \in {"number", "string"} =>
              luaTop'.kind = "string"
    BY <2>1, StackIs
  <2>5. \A x \in Slots : slots[x].at = InLua => luaTop.kind = "string"
    BY DEF ValueInv
  <2>6. \A x \in Slots : slots'[x].at = InLua => luaTop'.kind = "string"
    BY <2>1, <2>3, <2>4, <2>5, AssignIs
  <2>7. /\ DOMAIN slots' = Slots /\ slots' = [x \in Slots |-> slots'[x]]
        /\ \A x \in Slots : IsVariable(slots'[x])
    BY <2>1, <2>3, AssignIs
  <2> QED
    BY <2>1, <2>4, <2>6, <2>7 DEF ValueInv
<1>4. ASSUME NEW l \in Scripts, RunScript(l) PROVE ValueInv'
  <2>1. luaTop = NoLua /\ luaTop' = l /\ UNCHANGED <<slots, buffer>>
    BY <1>4 DEF RunScript
  <2>2. l.number \in Int /\ IsText(l.text)
    BY ValueAssumption DEF IsText
  <2>3. \A x \in Slots : slots[x].at # InLua
    BY <2>1 DEF ValueInv, NoLua
  <2> QED
    BY <2>1, <2>2, <2>3 DEF ValueInv
<1>5. ASSUME Pop PROVE ValueInv'
  <2>1. /\ luaTop' = NoLua /\ UNCHANGED buffer
        /\ slots' = [s \in Slots |-> IF slots[s].at = InLua THEN CString(Gone)
                                     ELSE slots[s]]
    BY <1>5 DEF Pop
  <2>2. IsVariable(CString(Gone)) /\ CString(Gone).at # InLua
    BY MadeVariables DEF CString, Gone, InLua
  <2>3. luaTop'.number = 0 /\ IsText(luaTop'.text)
    BY <2>1, NoTextIs DEF NoLua
  <2> QED
    BY <2>1, <2>2, <2>3 DEF ValueInv
<1> QED
  BY <1>1, <1>2, <1>3, <1>4, <1>5 DEF ValueNext
-----------------------------------------------------------------------------
(* What the form of the values says of the conversions between numbers.     *)
LEMMA ValuesConvert == ValueInv => NumbersArrive
<1> SUFFICES ASSUME ValueInv, NEW s \in Slots, NEW t \in NumberTypes,
                    slots[s].type \in NumberTypes
             PROVE  LET v == slots[s]
                        x == v.number
                        direct == Casts(t, ToNumber(v))
                        viaText == Casts(t, ToNumber(TgcString(Said(v))))
                    IN  /\ x \in Doubles \cap ValuesOf[t] => direct = {x}
                        /\ x \in Doubles \cap Numerals \cap ValuesOf[t] =>
                              viaText = {x}
                        /\ x \in Doubles /\ t \in Integral /\ direct # ValuesOf[t] =>
                              \A y \in direct : /\ Abs(y) <= Abs(x)
                                                /\ Abs(x) - Abs(y) < One
                                                /\ x * y >= 0
  BY DEF NumbersArrive
<1> DEFINE v == slots[s]
           x == v.number
<1>1. \A u \in OtherTypes : u \notin NumberTypes
  BY ValueAssumption
<1>2. IsVariable(v) /\ x \in Int
  BY VariableIs DEF ValueInv
<1>3. ToNumber(v) = ToDouble(x) /\ Said(v) = Numeral(Nearest(Numerals, ToDouble(x)))
  BY <1>1 DEF ToNumber, Said, Printed, OtherTypes, StringTypes
<1> HIDE DEF x, v
<1>4. x \in Doubles => ToNumber(v) = x
  BY <1>2, <1>3, ToDoubleIs
<1>5. ASSUME x \in Doubles \cap ValuesOf[t] PROVE Casts(t, ToNumber(v)) = {x}
  BY <1>2, <1>4, <1>5, CastsStayInType
<1>6. ASSUME x \in Doubles \cap Numerals \cap ValuesOf[t]
      PROVE  Casts(t, ToNumber(TgcString(Said(v)))) = {x}
  <2> DEFINE w == TgcString(Said(v))
  <2>1. ToDouble(x) = x /\ Nearest(Numerals, x) = x
    BY <1>2, <1>6, ToDoubleIs, NearestToSelf, NumbersAre
  <2>2. w.type = "TgcString" /\ w.text = Said(v)
    BY DEF TgcString
  <2>3. ToNumber(w) = ToDouble(Said(w).number) /\ Said(w) = w.text
    BY <1>1, <2>2 DEF ToNumber, Said, OtherTypes, StringTypes
  <2>4. Said(w).number = x
    BY <1>3, <2>1, <2>2, <2>3 DEF Numeral
  <2> QED
    BY <1>2, <1>6, <2>1, <2>3, <2>4, CastsStayInType
<1>7. ASSUME x \in Doubles, t \in Integral, Casts(t, ToNumber(v)) # ValuesOf[t],
             NEW y \in Casts(t, ToNumber(v))
      PROVE  Abs(y) <= Abs(x) /\ Abs(x) - Abs(y) < One /\ x * y >= 0
  <2>1. y = Truncate(x)
    BY <1>4, <1>7 DEF Casts
  <2> QED
    BY <1>2, <2>1, TruncateCutsOff
<1> QED
  BY <1>5, <1>6, <1>7 DEF x, v

(* ... and of a trip through Lua.                                           *)
LEMMA ValuesReadBack == ValueInv => LuaReadsBack
<1> SUFFICES ASSUME ValueInv, NEW s \in Slots, slots[s].type # "void",
                    NEW w \in Reads(slots[s].type, slots[s], Written(slots[s]))
             PROVE  LET v == slots[s]
                    IN  /\ v.type = "bool" => w = v
                        /\ v.type = "TgcString" => w = v
                        /\ v.type \in NumberTypes /\ v.number \in Doubles => w = v
  BY DEF LuaReadsBack
<1> DEFINE v == slots[s]
           l == Written(v)
<1>1. \A u \in OtherTypes : u \notin NumberTypes
  BY ValueAssumption
<1>2. IsVariable(v)
  BY DEF ValueInv
<1> HIDE DEF v
<1>3. ASSUME v.type = "bool" PROVE w = v
  <2>1. l = LuaBoolean(v.number)
    BY <1>1, <1>3 DEF Written, OtherTypes, StringTypes
  <2>2. w = Bool(~(l = LuaNil \/ l = LuaBoolean(0)))
    BY <1>1, <1>3 DEF Reads, OtherTypes, StringTypes, v
  <2>3. l # LuaNil /\ (l = LuaBoolean(0) <=> v.number = 0)
    BY <2>1 DEF LuaBoolean, LuaNil
  <2>4. v = Bool(TRUE) \/ v = Bool(FALSE)
    BY <1>2, <1>3, VariableIs
  <2>5. v = Bool(v.number # 0)
    BY <2>4 DEF Bool
  <2> QED
    <3>1. CASE v.number = 0
      <4>1. l = LuaBoolean(0)
        BY <2>1, <3>1
      <4>2. w = Bool(FALSE)
        BY <2>2, <4>1 DEF Bool
      <4>3. v = Bool(FALSE)
        BY <2>4, <3>1 DEF Bool
      <4> QED
        BY <4>2, <4>3
    <3>2. CASE v.number # 0
      <4>1. ~(l = LuaNil \/ l = LuaBoolean(0))
        BY <2>3, <3>2
      <4>2. w = Bool(TRUE)
        BY <2>2, <4>1 DEF Bool
      <4>3. v = Bool(TRUE)
        BY <2>4, <3>2 DEF Bool
      <4> QED
        BY <4>2, <4>3
    <3> QED
      BY <3>1, <3>2
<1>4. ASSUME v.type = "TgcString" PROVE w = v
  <2>1. Said(v) = v.text
    BY <1>1, <1>4 DEF Said, OtherTypes
  <2>2. l = LuaString(v.text)
    BY <1>1, <1>4, <2>1 DEF Written, OtherTypes, StringTypes
  <2>3. l.kind = "string" /\ l.text = v.text
    BY <2>2 DEF LuaString
  <2>4. w = TgcString(TextInLua(l))
    BY <1>1, <1>4, <2>3 DEF Reads, OtherTypes, StringTypes, v
  <2>5. TextInLua(l) = v.text
    BY <2>3 DEF TextInLua
  <2> QED
    BY <1>2, <1>4, <2>4, <2>5, VariableIs
<1>5. ASSUME v.type \in NumberTypes, v.number \in Doubles PROVE w = v
  <2>1. /\ v = Number(v.type, v.number) /\ v.number \in ValuesOf[v.type]
        /\ v.number \in Int /\ ToDouble(v.number) = v.number
    BY <1>2, <1>5, VariableIs, ToDoubleIs
  <2>2. l = LuaNumber(v.number)
    BY <1>1, <1>5, <2>1 DEF Written, OtherTypes, StringTypes
  <2>3. l.kind = "number" /\ l.number = v.number
    BY <2>2 DEF LuaNumber
  <2>4. PICK x \in Casts(v.type, v.number) : w = Number(v.type, x)
    BY <1>1, <1>5, <2>3 DEF Reads, IsNumberInLua, NumberInLua, OtherTypes,
                            StringTypes, v
  <2>5. x = v.number
    BY <1>5, <2>1, CastsStayInType
  <2> QED
    BY <2>1, <2>4, <2>5
<1> QED
  BY <1>3, <1>4, <1>5 DEF v
-----------------------------------------------------------------------------
(* Characters stay what they are unless the place they are in is written.   *)
LEMMA TextAtStays ==
    ASSUME NEW p, IsPlace(p),
           \A n \in NumberTypes : p = Buffer(n) => buffer'[n] = buffer[n],
           \A s \in Slots : p = Inside(s) => slots'[s].text = slots[s].text,
           p = InLua => luaTop'.text = luaTop.text
    PROVE  TextAt(p)' = TextAt(p)
<1>1. CASE p = Literal(p.text)
  <2>1. p.region = "literal"
    BY <1>1 DEF Literal
  <2> QED
    BY <2>1 DEF TextAt
<1>2. CASE p = Buffer(p.owner) /\ p.owner \in NumberTypes
  <2>1. p.region = "buffer" /\ buffer'[p.owner] = buffer[p.owner]
    BY <1>2 DEF Buffer
  <2> QED
    BY <2>1 DEF TextAt
<1>3. CASE p = Inside(p.owner) /\ p.owner \in Slots
  <2>1. p.region = "string" /\ slots'[p.owner].text = slots[p.owner].text
    BY <1>3 DEF Inside
  <2> QED
    BY <2>1 DEF TextAt
<1>4. CASE p = InLua
  <2>1. p.region = "lua" /\ luaTop'.text = luaTop.text
    BY <1>4 DEF InLua
  <2> QED
    BY <2>1 DEF TextAt
<1>5. CASE p = Gone
  <2>1. p.region = "gone"
    BY <1>5 DEF Gone
  <2> QED
    BY <2>1 DEF TextAt
<1> QED
  BY <1>1, <1>2, <1>3, <1>4, <1>5 DEF IsPlace

(* What each type of Variable says.                                         *)
SaysByType ==
    \A v : IsVariable(v) =>
        /\ v.type \in NumberTypes =>
              Said(v) = Printed(v.type, v.number) /\ ToNumber(v) = ToDouble(v.number)
        /\ v.type = "bool" =>
              /\ Said(v) = Word(IF v.number = 0 THEN "false" ELSE "true")
              /\ ToNumber(v) = v.number * One
        /\ v.type = "cstring" =>
              Said(v) = TextAt(v.at) /\ ToNumber(v) = ToDouble(Said(v).number)
        /\ v.type = "TgcString" =>
              Said(v) = v.text /\ ToNumber(v) = ToDouble(v.text.number)
        /\ v.type = "void" => Said(v) = NoText /\ ToNumber(v) = 0

(* What a Variable says, by the form of its type.                           *)
LEMMA Says == SaysByType
<1> SUFFICES ASSUME NEW v, IsVariable(v)
             PROVE  /\ v.type \in NumberTypes =>
                         /\ Said(v) = Printed(v.type, v.number)
                         /\ ToNumber(v) = ToDouble(v.number)
                    /\ v.type = "bool" =>
                         /\ Said(v) = Word(IF v.number = 0 THEN "false" ELSE "true")
                         /\ ToNumber(v) = v.number * One
                    /\ v.type = "cstring" =>
                         /\ Said(v) = TextAt(v.at)
                         /\ ToNumber(v) = ToDouble(Said(v).number)
                    /\ v.type = "TgcString" =>
                         Said(v) = v.text /\ ToNumber(v) = ToDouble(v.text.number)
                    /\ v.type = "void" => Said(v) = NoText /\ ToNumber(v) = 0
  BY DEF SaysByType
<1>1. \A t \in OtherTypes : t \notin NumberTypes
  BY ValueAssumption
<1> QED
  BY <1>1 DEF Said, ToNumber, OtherTypes, StringTypes

(* The same of the next state.                                              *)
LEMMA SaysNext == SaysByType'
  BY Says, PTL

(* A Variable means the same while the characters it points to stay.        *)
LEMMA MeaningStays ==
    ASSUME NEW v, IsVariable(v),
           v.type = "cstring" => TextAt(v.at)' = TextAt(v.at)
    PROVE  Said(v)' = Said(v) /\ ToNumber(v)' = ToNumber(v)
<1>1. v.type \in NumberTypes => Said(v)' = Said(v) /\ ToNumber(v)' = ToNumber(v)
  BY Says, SaysNext DEF SaysByType
<1>2. v.type = "bool" => Said(v)' = Said(v) /\ ToNumber(v)' = ToNumber(v)
  BY Says, SaysNext DEF SaysByType
<1>3. v.type = "cstring" => Said(v)' = Said(v) /\ ToNumber(v)' = ToNumber(v)
  BY Says, SaysNext DEF SaysByType
<1>4. v.type \in {"TgcString", "void"} =>
         Said(v)' = Said(v) /\ ToNumber(v)' = ToNumber(v)
  BY Says, SaysNext DEF SaysByType
<1> QED
  BY <1>1, <1>2, <1>3, <1>4, VariableIs DEF ValueTypes, OtherTypes

(* A cast keeps what its argument means, as far as the new type can: the    *)
(* buffer it prints into, or the characters it points to, say it after the  *)
(* cast, unless they were those of a string that is gone.                   *)
LEMMA CastArrives ==
    ASSUME ValueInv, NEW v, IsVariable(v), NEW self, IsPlace(self),
           NEW t \in ValueTypes, t # "void", NEW w \in DynamicCast(t, v, self),
           IsVariable(w), w.type = t, NEW m, m = Meaning(v),
           buffer' = BuffersAfterCast(t, v),
           v.type = "TgcString" /\ t = "cstring" => TextAt(self)' = v.text,
           v.type = "cstring" /\ t = "cstring" => TextAt(v.at)' = TextAt(v.at)
    PROVE  Holds(w, m)'
<1>1. \A u \in OtherTypes : u \notin NumberTypes
  BY ValueAssumption
<1>2. m.number = ToNumber(v) /\ m.text = Said(v)
  BY DEF Meaning
<1>3. CASE t \in NumberTypes
  <2>1. PICK x \in Casts(t, ToNumber(v)) : w = Number(t, x)
    BY <1>1, <1>3 DEF DynamicCast, OtherTypes
  <2>2. w.number \in Casts(w.type, m.number)
    BY <1>2, <2>1 DEF Number
  <2> QED
    BY <1>1, <1>3, <2>2 DEF Holds, OtherTypes
<1>4. CASE t = "bool"
  <2>1. w = Bool(ToNumber(v) # 0)
    BY <1>1, <1>4 DEF DynamicCast, OtherTypes
  <2>2. (w.number # 0) = (m.number # 0)
    BY <1>2, <2>1 DEF Bool
  <2> QED
    BY <1>1, <1>4, <2>2 DEF Holds, OtherTypes
<1>5. CASE t = "cstring"
  <2>1. w = CString(TextPlace(v, self))
    BY <1>1, <1>5 DEF DynamicCast, OtherTypes
  <2>2. w.at = TextPlace(v, self)
    BY <2>1 DEF CString
  <2>3. Said(w)' = TextAt(w.at)'
    BY <1>5, SaysNext DEF SaysByType
  <2>4. CASE v.type \in NumberTypes
    <3>1. w.at = Buffer(v.type)
      BY <1>1, <2>2, <2>4 DEF TextPlace, OtherTypes
    <3>2. w.at.region = "buffer" /\ w.at.owner = v.type
      BY <3>1 DEF Buffer
    <3>3. TextAt(w.at)' = buffer'[v.type]
      BY <3>2 DEF TextAt
    <3>4. buffer'[v.type] = Said(v)
      BY <1>5, <2>4, PrintsOneBuffer DEF StringTypes
    <3> QED
      BY <1>1, <1>2, <1>5, <2>3, <3>3, <3>4 DEF Holds, OtherTypes
  <2>5. CASE v.type = "cstring"
    <3>1. w.at = v.at
      BY <1>1, <2>2, <2>5 DEF TextPlace, OtherTypes
    <3>2. Said(v) = TextAt(v.at)
      BY <2>5, Says DEF SaysByType
    <3>3. Said(w)' = Said(v)
      BY <1>5, <2>3, <2>5, <3>1, <3>2
    <3> QED
      BY <1>1, <1>2, <1>5, <3>3 DEF Holds, OtherTypes
  <2>6. CASE v.type = "TgcString"
    <3>1. w.at = self
      BY <1>1, <2>2, <2>6 DEF TextPlace, OtherTypes
    <3>2. Said(v) = v.text
      BY <2>6, Says DEF SaysByType
    <3>3. Said(w)' = Said(v)
      BY <1>5, <2>3, <2>6, <3>1, <3>2
    <3> QED
      BY <1>1, <1>2, <1>5, <3>3 DEF Holds, OtherTypes
  <2>7. CASE v.type \in {"bool", "void"}
    <3>1. w.at = Literal(Said(v))
      BY <1>1, <2>2, <2>7 DEF TextPlace, OtherTypes
    <3>2. w.at.region = "literal" /\ w.at.text = Said(v)
      BY <3>1 DEF Literal
    <3>3. TextAt(w.at)' = Said(v)
      BY <3>2 DEF TextAt
    <3> QED
      BY <1>1, <1>2, <1>5, <2>3, <3>3 DEF Holds, OtherTypes
  <2> QED
    BY <2>4, <2>5, <2>6, <2>7, VariableIs DEF ValueTypes, OtherTypes
<1>6. CASE t = "TgcString"
  <2>1. w = TgcString(Said(v))
    BY <1>1, <1>6 DEF DynamicCast, OtherTypes
  <2>2. Said(w)' = w.text
    BY <1>6, SaysNext DEF SaysByType
  <2>3. Said(w)' = m.text
    BY <1>2, <2>1, <2>2 DEF TgcString
  <2> QED
    BY <1>1, <1>6, <2>3 DEF Holds, OtherTypes
<1> QED
  BY <1>3, <1>4, <1>5, <1>6 DEF ValueTypes, OtherTypes
-----------------------------------------------------------------------------
(* The parameters of a registered function have types of values.            *)
LEMMA ParamTypes ==
    ASSUME NEW f \in Functions
    PROVE  /\ Len(Params[f]) \in Nat /\ Result[f] \in ValueTypes
           /\ \A i \in 1 .. Len(Params[f]) :
                 Params[f][i] \in ValueTypes /\ Params[f][i] # "void"
  BY ApplyAssumption

(* The beginning of a call.                                                 *)
LEMMA ApplyKeeps ==
    ASSUME ValueInv, CallInv, NEW f \in Functions, NEW r \in Slots, NEW n \in Nat,
           NEW a \in [1 .. n -> Slots], Apply(f, r, a)
    PROVE  /\ ValueInv' /\ CallInv'
           /\ \A x \in Slots : slots'[x].text = slots[x].text
           /\ \A x \in Slots : x # r \/ Result[f] # "void" => slots'[x] = slots[x]
           /\ slots'[r] = slots[r] \/ slots'[r].type = "void"
<1>1. /\ step' = "convert" /\ luaTop = NoLua /\ UNCHANGED <<buffer, luaTop>>
      /\ function' = f /\ retval' = r /\ args' = a
      /\ Result[f] = "void" \/ slots[r].type # "void"
      /\ given' = [i \in DOMAIN a |-> Meaning(slots[a[i]])]
      /\ params' = [i \in DOMAIN a |-> Void]
      /\ slots' = IF Result[f] = "void"
                  THEN [slots EXCEPT ![r] = Cleared(slots[r])] ELSE slots
  BY DEF Apply
<1>2. n = Len(Params[f]) /\ DOMAIN a = 1 .. n
  <2>1. a \in Seq(Slots) /\ Len(a) = n
    OBVIOUS
  <2> QED
    BY <2>1 DEF Apply
<1>3. /\ Cleared(slots[r]).text = slots[r].text /\ Cleared(slots[r]).at = Gone
      /\ Cleared(slots[r]).type = "void"
  BY DEF Cleared, Void
<1>4. IsVariable(Cleared(slots[r])) /\ Gone # InLua
  BY MadeVariables DEF ValueInv, Gone, InLua
<1>5. slots = [s \in Slots |-> slots[s]]
  BY DEF ValueInv
<1>6. /\ DOMAIN slots' = Slots /\ slots' = [s \in Slots |-> slots'[s]]
      /\ \A x \in Slots : slots'[x] = slots[x]
                            \/ (x = r /\ Result[f] = "void"
                                  /\ slots'[x] = Cleared(slots[r]))
  BY <1>1, <1>5
<1> HIDE DEF Cleared
<1>7. ValueInv'
  BY <1>1, <1>3, <1>4, <1>6 DEF ValueInv
<1>8. CallInv'
  <2>1. Result[f] # "void" => slots'[r].type # "void"
    BY <1>1
  <2> QED
    BY <1>1, <1>2, <2>1 DEF CallInv
<1> QED
  BY <1>3, <1>6, <1>7, <1>8

(* A conversion, as a cast of an argument to a type of value.               *)
LEMMA ConversionIs ==
    ASSUME ValueInv, CallInv, NEW j \in Nat, ConvertArg(j)
    PROVE  /\ step = "convert" /\ j \in DOMAIN args /\ params[j] = Void
           /\ args[j] \in Slots /\ IsVariable(slots[args[j]])
           /\ Params[function][j] \in ValueTypes /\ Params[function][j] # "void"
           /\ IsPlace(Inside(args[j])) /\ Inside(args[j]) # InLua
           /\ buffer' = BuffersAfterCast(Params[function][j], slots[args[j]])
           /\ UNCHANGED <<slots, luaTop, step, function, args, retval, given, result>>
           /\ \E w \in DynamicCast(Params[function][j], slots[args[j]], Inside(args[j])) :
                 /\ params' = [params EXCEPT ![j] = w]
                 /\ IsVariable(w) /\ w.type = Params[function][j] /\ w # Void
                 /\ w.at # InLua
<1>1. /\ step = "convert" /\ j \in DOMAIN args /\ params[j] = Void
      /\ buffer' = BuffersAfterCast(Params[function][j], slots[args[j]])
      /\ UNCHANGED <<slots, luaTop, step, function, args, retval, given, result>>
  BY DEF ConvertArg
<1>2. PICK w \in DynamicCast(Params[function][j], slots[args[j]], Inside(args[j])) :
         params' = [params EXCEPT ![j] = w]
  BY DEF ConvertArg
<1>3. /\ function \in Functions /\ args \in [1 .. Len(Params[function]) -> Slots]
      /\ luaTop = NoLua
  BY <1>1 DEF CallInv
<1>4. args[j] \in Slots /\ j \in 1 .. Len(Params[function])
  BY <1>1, <1>3
<1>5. IsVariable(slots[args[j]]) /\ slots[args[j]].at # InLua
  BY <1>3, <1>4 DEF ValueInv, NoLua
<1>6. Params[function][j] \in ValueTypes /\ Params[function][j] # "void"
  BY <1>3, <1>4, ParamTypes
<1>7. IsPlace(Inside(args[j])) /\ Inside(args[j]) # InLua
  BY <1>4, MadeVariables DEF Inside, InLua
<1>8. /\ IsVariable(w) /\ w.type = Params[function][j] /\ w # Void
      /\ w.at # InLua
  BY <1>5, <1>6, <1>7, CastIs
<1> QED
  BY <1>1, <1>2, <1>4, <1>5, <1>6, <1>7, <1>8

(* Converting an argument keeps the forms of values and of the call.        *)
LEMMA ConvertKeeps ==
    ASSUME ValueInv, CallInv, NEW j \in Nat, ConvertArg(j)
    PROVE  ValueInv' /\ CallInv'
<1>1. /\ step = "convert" /\ j \in DOMAIN args
      /\ IsVariable(slots[args[j]])
      /\ buffer' = BuffersAfterCast(Params[function][j], slots[args[j]])
      /\ UNCHANGED <<slots, luaTop, step, function, args, retval, given, result>>
  BY ConversionIs
<1>2. PICK w : /\ params' = [params EXCEPT ![j] = w]
               /\ IsVariable(w) /\ w.type = Params[function][j] /\ w.at # InLua
  BY ConversionIs
<1>3. /\ buffer' = [n \in NumberTypes |-> buffer'[n]]
      /\ \A n \in NumberTypes : IsText(buffer'[n])
  BY <1>1, PrintsOneBuffer
<1>4. ValueInv'
  BY <1>1, <1>3 DEF ValueInv
<1>5. CallInv'
  BY <1>1, <1>2 DEF CallInv
<1> QED
  BY <1>4, <1>5

(* The end of a call that gives a result, as a cast of it.                  *)
LEMMA ReturnIs ==
    ASSUME ValueInv, CallInv, Return
    PROVE  /\ step = "return" /\ step' = "idle" /\ retval \in Slots
           /\ IsVariable(slots[retval]) /\ IsVariable(result)
           /\ slots[retval].type \in ValueTypes /\ slots[retval].type # "void"
           /\ buffer' = BuffersAfterCast(slots[retval].type, result)
           /\ UNCHANGED luaTop
           /\ IsPlace(Gone) /\ Gone # InLua
           /\ \E w \in DynamicCast(slots[retval].type, result, Gone) :
                 /\ slots' = Assign(retval, w)
                 /\ IsVariable(w) /\ w.type = slots[retval].type
                 /\ w.at # InLua
<1>1. /\ step = "return" /\ step' = "idle" /\ UNCHANGED luaTop
      /\ buffer' = BuffersAfterCast(slots[retval].type, result)
  BY DEF Return, EndCall
<1>2. PICK w \in DynamicCast(slots[retval].type, result, Gone) :
         slots' = Assign(retval, w)
  BY DEF Return
<1>3. /\ retval \in Slots /\ IsVariable(result) /\ result.at # InLua
      /\ slots[retval].type # "void"
  BY <1>1 DEF CallInv
<1>4. IsVariable(slots[retval]) /\ slots[retval].type \in ValueTypes
  BY <1>3, VariableIs DEF ValueInv
<1>5. IsPlace(Gone) /\ Gone # InLua
  BY MadeVariables DEF Gone, InLua
<1>6. IsVariable(w) /\ w.type = slots[retval].type /\ w.at # InLua
  BY <1>3, <1>4, <1>5, CastIs
<1> QED
  BY <1>1, <1>2, <1>3, <1>4, <1>5, <1>6

(* So does the return.                                                      *)
LEMMA ReturnKeeps ==
    ASSUME ValueInv, CallInv, Return
    PROVE  ValueInv' /\ CallInv'
<1>1. /\ retval \in Slots /\ step' = "idle" /\ IsVariable(result)
      /\ UNCHANGED luaTop
      /\ buffer' = BuffersAfterCast(slots[retval].type, result)
  BY ReturnIs
<1>2. PICK w : slots' = Assign(retval, w) /\ IsVariable(w) /\ w.at # InLua
  BY ReturnIs
<1>3. /\ buffer' = [n \in NumberTypes |-> buffer'[n]]
      /\ \A n \in NumberTypes : IsText(buffer'[n])
  BY <1>1, PrintsOneBuffer
<1>4. ValueInv'
  BY <1>1, <1>2, <1>3, AssignIs DEF ValueInv
<1> QED
  BY <1>1, <1>4 DEF CallInv

(* So does every step.                                                      *)
LEMMA CallStep == ASSUME ValueInv, CallInv, [ApplyNext]_applyVars
                  PROVE  ValueInv' /\ CallInv'
<1>1. ASSUME step = "idle", ValueNext, UNCHANGED callVars
      PROVE  ValueInv' /\ CallInv'
  BY <1>1, ValueStep DEF CallInv, callVars
<1>2. ASSUME NEW f \in Functions, NEW r \in Slots, NEW n \in 0 .. MaxArgs,
             NEW a \in [1 .. n -> Slots], Apply(f, r, a)
      PROVE  ValueInv' /\ CallInv'
  BY <1>2, ApplyKeeps, ApplyAssumption
<1>3. ASSUME NEW f, NEW a, WrongArity(f, a)
      PROVE  ValueInv' /\ CallInv'
  <2>1. step' = "halted" /\ UNCHANGED valueVars
    BY <1>3 DEF WrongArity
  <2> QED
    BY <2>1 DEF ValueInv, valueVars, CallInv
<1>4. ASSUME NEW i \in 1 .. MaxArgs, ConvertArg(i)
      PROVE  ValueInv' /\ CallInv'
  BY <1>4, ConvertKeeps, ApplyAssumption
<1>5. ASSUME InvokeVoid PROVE ValueInv' /\ CallInv'
  <2>1. step' = "idle" /\ UNCHANGED valueVars
    BY <1>5 DEF InvokeVoid, EndCall
  <2> QED
    BY <2>1 DEF ValueInv, valueVars, CallInv
<1>6. ASSUME Invoke PROVE ValueInv' /\ CallInv'
  <2>1. /\ step = "convert" /\ step' = "return" /\ Result[function] # "void"
        /\ result' \in Results(function)
        /\ UNCHANGED <<valueVars, function, args, retval, given, params>>
    BY <1>6 DEF Invoke
  <2>2. /\ IsVariable(result') /\ result'.at # InLua
        /\ result'.type = Result[function]
    <3>1. CASE result' \in {v \in InitialVariables : v.type = Result[function]}
      BY <3>1, InitialAre
    <3>2. CASE \E j \in DOMAIN params :
                  result' = params[j] /\ params[j].type = Result[function]
      <4>1. Void.type = "void"
        BY DEF Void
      <4> QED
        BY <2>1, <3>2, <4>1 DEF CallInv
    <3> QED
      BY <2>1, <3>1, <3>2 DEF Results
  <2>3. ValueInv'
    BY <2>1 DEF ValueInv, valueVars
  <2> QED
    BY <2>1, <2>2, <2>3 DEF CallInv, valueVars
<1>7. ASSUME Return PROVE ValueInv' /\ CallInv'
  BY <1>7, ReturnKeeps
<1>8. ASSUME UNCHANGED applyVars PROVE ValueInv' /\ CallInv'
  BY <1>8 DEF applyVars, valueVars, callVars, ValueInv, CallInv
<1> QED
  BY <1>1, <1>2, <1>3, <1>4, <1>5, <1>6, <1>7, <1>8 DEF ApplyNext

(* Values and calls have their forms in every reachable state.              *)
LEMMA FormsHold == ApplySpec => [](ValueInv /\ CallInv)
<1>1. ApplyInit => ValueInv /\ CallInv
  <2> SUFFICES ASSUME ApplyInit PROVE ValueInv /\ CallInv
    OBVIOUS
  <2>1. /\ slots = [s \in Slots |-> Void] /\ buffer = [t \in NumberTypes |-> NoText]
        /\ luaTop = NoLua /\ step = "idle"
    BY DEF ApplyInit, ValueInit
  <2>2. IsVariable(Void) /\ Void.at # InLua
    BY MadeVariables DEF Void, Gone, InLua
  <2>3. luaTop.number = 0 /\ IsText(luaTop.text)
    BY <2>1, NoTextIs DEF NoLua
  <2>4. ValueInv
    BY <2>1, <2>2, <2>3, NoTextIs DEF ValueInv
  <2> QED
    BY <2>1, <2>4 DEF CallInv
<1> QED
  BY <1>1, CallStep, PTL DEF ApplySpec
-----------------------------------------------------------------------------
(* At the beginning of a call what the arguments say is what was noted,     *)
(* but for the result Variable of a void function.                          *)
LEMMA ApplyArrives ==
    ASSUME ValueInv, CallInv, NEW f \in Functions, NEW r \in Slots, NEW n \in Nat,
           NEW a \in [1 .. n -> Slots], Apply(f, r, a)
    PROVE  ArrivalInv'
<1>1. /\ step' = "convert" /\ UNCHANGED <<buffer, luaTop>>
      /\ function' = f /\ retval' = r /\ args' = a
      /\ given' = [i \in DOMAIN a |-> Meaning(slots[a[i]])]
      /\ params' = [i \in DOMAIN a |-> Void]
  BY DEF Apply
<1>2. /\ \A x \in Slots : slots'[x].text = slots[x].text
      /\ \A x \in Slots : x # r \/ Result[f] # "void" => slots'[x] = slots[x]
      /\ slots'[r] = slots[r] \/ slots'[r].type = "void"
      /\ \A x \in Slots : IsVariable(slots[x])
  BY ApplyKeeps DEF ValueInv
<1>3. ASSUME NEW i \in DOMAIN a, slots'[a[i]] = slots[a[i]]
      PROVE  given'[i] = Meaning(slots[a[i]])'
  <2> DEFINE v == slots[a[i]]
  <2>1. IsVariable(v) /\ IsPlace(v.at)
    BY <1>2, VariableIs
  <2>2. PICK w : w = v
    OBVIOUS
  <2>3. TextAt(w.at)' = TextAt(w.at)
    BY <1>1, <1>2, <2>1, <2>2, TextAtStays
  <2>4. Said(w)' = Said(w) /\ ToNumber(w)' = ToNumber(w)
    BY <2>1, <2>2, <2>3, MeaningStays
  <2>5. Meaning(w)' = Meaning(w)
    BY <2>4 DEF Meaning
  <2>6. slots'[a[i]] = w
    BY <1>3, <2>2
  <2> QED
    BY <1>1, <2>2, <2>5, <2>6
<1>4. \A i \in DOMAIN a : params'[i] = Void /\ Void.type = "void"
  BY <1>1 DEF Void
<1>5. ASSUME NEW i \in DOMAIN a, slots'[a[i]].type \in NumberTypes
      PROVE  slots'[a[i]] = slots[a[i]]
  BY <1>2, <1>5, ValueAssumption DEF OtherTypes
<1>6. ASSUME NEW i \in DOMAIN a, Undisturbed(i)'
      PROVE  slots'[a[i]] = slots[a[i]]
  BY <1>1, <1>2, <1>6 DEF Undisturbed
<1> HIDE DEF Undisturbed
<1> QED
  BY <1>1, <1>3, <1>4, <1>5, <1>6 DEF ArrivalInv

(* A conversion prints over no argument that nothing is printed over: the   *)
(* buffers behind it stay, or are given the text it already is.             *)
LEMMA BuffersBehindStay ==
    ASSUME ValueInv, CallInv, ArrivalInv, NEW j \in Nat, ConvertArg(j),
           NEW i \in DOMAIN args, i # j, Undisturbed(i),
           NEW n \in BuffersBehind(i)
    PROVE  buffer'[n] = buffer[n] \/ buffer'[n] = given[i].text
<1>1. /\ step = "convert" /\ j \in DOMAIN args
      /\ IsVariable(slots[args[j]])
      /\ buffer' = BuffersAfterCast(Params[function][j], slots[args[j]])
  BY ConversionIs
<1>2. n \in NumberTypes /\ ~PrintedOver(i, n, given[i].text)
  BY DEF Undisturbed, BuffersBehind
<1>3. \/ buffer'[n] = buffer[n]
      \/ /\ Params[function][j] \in StringTypes /\ slots[args[j]].type = n
         /\ buffer'[n] = Said(slots[args[j]])
  BY <1>1, <1>2, PrintsOneBuffer
<1>4. ASSUME Params[function][j] \in StringTypes, slots[args[j]].type = n
      PROVE  Said(slots[args[j]]) = given[i].text
  <2>1. given[j].text = given[i].text
    BY <1>1, <1>2, <1>4 DEF PrintedOver
  <2>2. given[j] = Meaning(slots[args[j]])
    BY <1>1, <1>2, <1>4 DEF ArrivalInv
  <2> QED
    BY <2>1, <2>2 DEF Meaning
<1> QED
  BY <1>3, <1>4

(* So the characters such an argument or its parameter points to stay.      *)
LEMMA CharactersBehindStay ==
    ASSUME ValueInv, CallInv, ArrivalInv, NEW j \in Nat, ConvertArg(j),
           NEW i \in DOMAIN args, i # j, Undisturbed(i),
           NEW p, IsPlace(p), TextAt(p) = given[i].text,
           \A n \in NumberTypes : p = Buffer(n) => n \in BuffersBehind(i)
    PROVE  TextAt(p)' = TextAt(p)
<1>1. \A n \in NumberTypes : p = Buffer(n) => buffer'[n] = buffer[n]
  <2> SUFFICES ASSUME NEW n \in NumberTypes, p = Buffer(n)
               PROVE  buffer'[n] = buffer[n]
    OBVIOUS
  <2>1. p.region = "buffer" /\ p.owner = n
    BY DEF Buffer
  <2>2. buffer[n] = given[i].text
    BY <2>1 DEF TextAt
  <2> QED
    BY <2>2, BuffersBehindStay
<1>2. UNCHANGED <<slots, luaTop>>
  BY ConversionIs
<1> QED
  BY <1>1, <1>2, TextAtStays

(* What the other arguments and parameters say is not changed.              *)
LEMMA OthersArrive ==
    ASSUME ValueInv, CallInv, ArrivalInv, NEW j \in Nat, ConvertArg(j),
           NEW i \in DOMAIN args, i # j, Undisturbed(i)
    PROVE  /\ given[i] = Meaning(slots[args[i]])'
           /\ params[i] # Void => Holds(params[i], given[i])'
<1>1. /\ step = "convert" /\ UNCHANGED <<slots, args, given>>
  BY ConversionIs
<1>2. /\ IsVariable(slots[args[i]])
      /\ params[i] # Void => IsVariable(params[i])
                               /\ params[i].type = Params[function][i]
  BY <1>1 DEF ValueInv, CallInv
<1>3. /\ given[i] = Meaning(slots[args[i]])
      /\ params[i] # Void => Holds(params[i], given[i])
      /\ params[i].type = "cstring" =>
            params[i].at = TextPlace(slots[args[i]], Inside(args[i]))
  BY <1>1 DEF ArrivalInv
<1>4. PICK v : v = slots[args[i]]
  OBVIOUS
<1>5. PICK m : m = given[i]
  OBVIOUS
<1>6. \A t \in OtherTypes : t \notin NumberTypes
  BY ValueAssumption
<1>7. Said(v)' = Said(v) /\ ToNumber(v)' = ToNumber(v)
  <2>1. CASE v.type = "cstring"
    <3>1. TextAt(v.at) = given[i].text
      BY <1>2, <1>3, <1>4, <2>1, Says DEF SaysByType, Meaning
    <3>2. \A n \in NumberTypes : v.at = Buffer(n) => n \in BuffersBehind(i)
      BY <1>4 DEF BuffersBehind
    <3>3. TextAt(v.at)' = TextAt(v.at)
      BY <1>2, <1>4, <3>1, <3>2, VariableIs, CharactersBehindStay
    <3> QED
      BY <1>2, <1>4, <3>3, MeaningStays
  <2>2. CASE v.type # "cstring"
    BY <1>2, <1>4, <2>2, MeaningStays
  <2> QED
    BY <2>1, <2>2
<1>8. given[i] = Meaning(slots[args[i]])'
  <2>1. Meaning(v)' = Meaning(v)
    BY <1>7 DEF Meaning
  <2> QED
    BY <1>1, <1>3, <1>4, <2>1
<1>9. ASSUME params[i] # Void PROVE Holds(params[i], given[i])'
  <2>1. PICK w : w = params[i]
    OBVIOUS
  <2>2. /\ IsVariable(w) /\ w.type = Params[function][i] /\ Holds(w, m)
        /\ w.type = "cstring" => w.at = TextPlace(v, Inside(args[i]))
    BY <1>2, <1>3, <1>4, <1>5, <1>9, <2>1
  <2>3. Holds(w, m)'
    <3>1. CASE w.type \in NumberTypes
      BY <1>6, <2>2, <3>1 DEF Holds, OtherTypes
    <3>2. CASE w.type = "bool"
      BY <1>6, <2>2, <3>2 DEF Holds, OtherTypes
    <3>3. CASE w.type = "cstring"
      <4>1. Said(w) = TextAt(w.at) /\ Said(w) = given[i].text
        BY <1>5, <1>6, <2>2, <3>3, Says DEF SaysByType, Holds, OtherTypes
      <4>2. ASSUME NEW n \in NumberTypes, w.at = Buffer(n)
            PROVE  n \in BuffersBehind(i)
        <5>1. CASE v.type \in NumberTypes
          <6>1. w.at = Buffer(v.type)
            BY <1>6, <2>2, <3>3, <5>1 DEF TextPlace, OtherTypes
          <6>2. v.type = n
            BY <4>2, <6>1 DEF Buffer
          <6> QED
            BY <1>4, <2>2, <3>3, <6>2 DEF BuffersBehind
        <5>2. CASE v.type = "cstring"
          <6>1. w.at = v.at
            BY <1>6, <2>2, <3>3, <5>2 DEF TextPlace, OtherTypes
          <6> QED
            BY <1>4, <4>2, <6>1 DEF BuffersBehind
        <5>3. CASE v.type = "TgcString"
          <6>1. w.at = Inside(args[i])
            BY <1>6, <2>2, <3>3, <5>3 DEF TextPlace, OtherTypes
          <6> QED
            BY <4>2, <6>1 DEF Inside, Buffer
        <5>4. CASE v.type \in {"bool", "void"}
          <6>1. w.at = Literal(Said(v))
            BY <1>6, <2>2, <3>3, <5>4 DEF TextPlace, OtherTypes
          <6> QED
            BY <4>2, <6>1 DEF Literal, Buffer
        <5> QED
          BY <1>2, <1>4, <5>1, <5>2, <5>3, <5>4, VariableIs
             DEF ValueTypes, OtherTypes
      <4>3. TextAt(w.at)' = TextAt(w.at)
        BY <2>2, <4>1, <4>2, VariableIs, CharactersBehindStay
      <4>4. Said(w)' = m.text
        BY <1>5, <2>2, <3>3, <4>1, <4>3, SaysNext DEF SaysByType
      <4> QED
        BY <1>6, <3>3, <4>4 DEF Holds, OtherTypes
    <3>4. CASE w.type = "TgcString"
      <4>1. Said(w)' = Said(w)
        BY <2>2, <3>4, MeaningStays
      <4> QED
        BY <1>6, <2>2, <3>4, <4>1 DEF Holds, OtherTypes
    <3> QED
      <4>1. Params[function][i] \in ValueTypes /\ Params[function][i] # "void"
        BY <1>1, ParamTypes DEF CallInv
      <4> QED
        BY <2>2, <3>1, <3>2, <3>3, <3>4, <4>1 DEF ValueTypes, OtherTypes
  <2>4. given'[i] = m
    BY <1>1, <1>5
  <2>5. params'[i] = w
    BY <1>1, <2>1, ConversionIs DEF CallInv
  <2> QED
    BY <2>3, <2>4, <2>5
<1> QED
  BY <1>8, <1>9

(* The parameter that is converted holds what its argument said.            *)
LEMMA ConvertedArrives ==
    ASSUME ValueInv, CallInv, ArrivalInv, NEW j \in Nat, ConvertArg(j),
           Undisturbed(j)
    PROVE  /\ given[j] = Meaning(slots[args[j]])'
           /\ Holds(params[j], given[j])'
<1>1. /\ step = "convert" /\ j \in DOMAIN args
      /\ args[j] \in Slots /\ IsVariable(slots[args[j]])
      /\ Params[function][j] \in ValueTypes /\ Params[function][j] # "void"
      /\ IsPlace(Inside(args[j])) /\ Inside(args[j]) # InLua
      /\ buffer' = BuffersAfterCast(Params[function][j], slots[args[j]])
      /\ UNCHANGED <<slots, luaTop, args, given>>
  BY ConversionIs
<1>2. PICK v : v = slots[args[j]]
  OBVIOUS
<1>3. PICK self : self = Inside(args[j])
  OBVIOUS
<1>4. PICK m : m = given[j]
  OBVIOUS
<1>5. PICK t : t = Params[function][j]
  OBVIOUS
<1>6. PICK w \in DynamicCast(t, v, self) :
         params' = [params EXCEPT ![j] = w] /\ IsVariable(w) /\ w.type = t
  BY <1>2, <1>3, <1>5, ConversionIs
<1>7. m = Meaning(v)
  BY <1>1, <1>2, <1>4 DEF ArrivalInv
<1>8. v.type = "cstring" => TextAt(v.at)' = TextAt(v.at)
  <2> SUFFICES ASSUME v.type = "cstring" PROVE TextAt(v.at)' = TextAt(v.at)
    OBVIOUS
  <2>1. buffer' = buffer
    BY <1>1, <1>2, PrintsOneBuffer, ValueAssumption DEF OtherTypes
  <2> QED
    BY <1>1, <1>2, <2>1, TextAtStays, VariableIs
<1>9. TextAt(self)' = v.text
  <2>1. self.region = "string" /\ self.owner = args[j]
    BY <1>3 DEF Inside
  <2>2. TextAt(self)' = slots'[self.owner].text
    BY <2>1 DEF TextAt
  <2> QED
    BY <1>1, <1>2, <2>1, <2>2
<1>10. Holds(w, m)'
  BY <1>1, <1>2, <1>3, <1>5, <1>6, <1>7, <1>8, <1>9, CastArrives
<1>11. params'[j] = w /\ given'[j] = m
  <2>1. DOMAIN params = DOMAIN args
    BY <1>1 DEF CallInv
  <2> QED
    BY <1>1, <1>4, <1>6, <2>1
<1>12. Holds(params[j], given[j])'
  BY <1>10, <1>11
<1>13. given[j] = Meaning(slots[args[j]])'
  <2>1. Said(v)' = Said(v) /\ ToNumber(v)' = ToNumber(v)
    BY <1>1, <1>2, <1>8, MeaningStays
  <2>2. Meaning(v)' = Meaning(v)
    BY <2>1 DEF Meaning
  <2> QED
    BY <1>1, <1>2, <1>4, <1>7, <2>2
<1> QED
  BY <1>12, <1>13

(* Converting an argument keeps ArrivalInv.                                 *)
LEMMA ConvertArrives ==
    ASSUME ValueInv, CallInv, ArrivalInv, NEW j \in Nat, ConvertArg(j)
    PROVE  ArrivalInv'
<1>1. /\ step = "convert" /\ j \in DOMAIN args /\ params[j] = Void
      /\ IsVariable(slots[args[j]])
      /\ UNCHANGED <<slots, luaTop, step, function, args, retval, given>>
  BY ConversionIs
<1>2. PICK w \in DynamicCast(Params[function][j], slots[args[j]], Inside(args[j])) :
         params' = [params EXCEPT ![j] = w] /\ w # Void
           /\ w.type = Params[function][j] /\ IsVariable(w)
  BY ConversionIs
<1>3. \A i \in DOMAIN args : i # j => params'[i] = params[i]
  BY <1>1, <1>2 DEF CallInv
<1>4. params'[j] = w
  BY <1>1, <1>2 DEF CallInv
<1>5. ASSUME NEW i \in DOMAIN args, slots[args[i]].type \in NumberTypes
      PROVE  given'[i] = Meaning(slots[args[i]])'
  <2>1. PICK v : v = slots[args[i]]
    OBVIOUS
  <2>2. given[i] = Meaning(v) /\ IsVariable(v)
    BY <1>1, <1>5, <2>1 DEF ArrivalInv, CallInv, ValueInv
  <2>3. v.type # "cstring"
    BY <1>5, <2>1, ValueAssumption DEF OtherTypes
  <2>4. Said(v)' = Said(v) /\ ToNumber(v)' = ToNumber(v)
    BY <2>2, <2>3, MeaningStays
  <2>5. Meaning(v)' = Meaning(v)
    BY <2>4 DEF Meaning
  <2> QED
    BY <1>1, <2>1, <2>2, <2>5
<1>6. ASSUME NEW i \in DOMAIN args, params'[i].type = "cstring"
      PROVE  params'[i].at = TextPlace(slots[args[i]], Inside(args[i]))'
  <2>1. PICK v : v = slots[args[i]]
    OBVIOUS
  <2>2. IsVariable(v)
    BY <1>1, <2>1 DEF CallInv, ValueInv
  <2>3. PICK self : self = Inside(args[i])
    OBVIOUS
  <2>4. params'[i].at = TextPlace(v, self)
    <3>1. CASE i = j
      <4>1. w = CString(TextPlace(v, self))
        BY <1>2, <1>4, <1>6, <2>1, <2>3, <3>1, ValueAssumption
           DEF DynamicCast, OtherTypes
      <4> QED
        BY <1>4, <3>1, <4>1 DEF CString
    <3>2. CASE i # j
      BY <1>1, <1>3, <1>6, <2>1, <2>3, <3>2 DEF ArrivalInv
    <3> QED
      BY <3>1, <3>2
  <2>5. TextPlace(v, self)' = TextPlace(v, self)
    <3>1. v.type # "cstring" => Said(v)' = Said(v)
      BY <2>2, MeaningStays
    <3> QED
      BY <3>1, ValueAssumption DEF TextPlace, OtherTypes
  <2> QED
    BY <1>1, <2>1, <2>3, <2>4, <2>5
<1>7. ASSUME NEW i \in DOMAIN args, Undisturbed(i)'
      PROVE  /\ given'[i] = Meaning(slots[args[i]])'
             /\ params'[i] # Void => Holds(params[i], given[i])'
  <2>1. Undisturbed(i)
    BY <1>1, <1>7 DEF Undisturbed, BuffersBehind, PrintedOver
  <2>2. CASE i = j
    BY <1>1, <2>1, <2>2, ConvertedArrives
  <2>3. CASE i # j
    BY <1>1, <1>3, <2>1, <2>3, OthersArrive
  <2> QED
    BY <2>2, <2>3
<1> HIDE DEF Undisturbed
<1> QED
  BY <1>1, <1>5, <1>6, <1>7 DEF ArrivalInv

(* ArrivalInv holds in every reachable state.                               *)
LEMMA ArrivalHolds == ApplySpec => []ArrivalInv
<1>1. ApplyInit => ArrivalInv
  BY DEF ApplyInit, ArrivalInv
<1>2. ASSUME ValueInv, CallInv, ArrivalInv, [ApplyNext]_applyVars
      PROVE  ArrivalInv'
  <2>1. ASSUME NEW f \in Functions, NEW r \in Slots, NEW n \in 0 .. MaxArgs,
               NEW a \in [1 .. n -> Slots], Apply(f, r, a)
        PROVE  ArrivalInv'
    BY <1>2, <2>1, ApplyArrives, ApplyAssumption
  <2>2. ASSUME NEW i \in 1 .. MaxArgs, ConvertArg(i)
        PROVE  ArrivalInv'
    BY <1>2, <2>2, ConvertArrives, ApplyAssumption
  <2>3. ASSUME step' # "convert" PROVE ArrivalInv'
    BY <2>3 DEF ArrivalInv
  <2>4. ASSUME step = "idle", UNCHANGED callVars PROVE step' # "convert"
    BY <2>4 DEF callVars
  <2>5. ASSUME NEW f, NEW a, WrongArity(f, a) PROVE step' # "convert"
    BY <2>5 DEF WrongArity
  <2>6. ASSUME Invoke \/ InvokeVoid \/ Return PROVE step' # "convert"
    BY <2>6 DEF Invoke, InvokeVoid, Return, EndCall
  <2>7. ASSUME UNCHANGED applyVars PROVE ArrivalInv'
    <3>1. /\ UNCHANGED <<slots, buffer, luaTop>>
          /\ UNCHANGED <<step, function, args, retval, given, params>>
      BY <2>7 DEF applyVars, valueVars, callVars
    <3>2. ASSUME NEW p PROVE TextAt(p)' = TextAt(p)
      BY <3>1 DEF TextAt
    <3>3. ASSUME NEW v PROVE Said(v)' = Said(v)
      BY <3>2 DEF Said
    <3>4. ASSUME NEW v PROVE ToNumber(v)' = ToNumber(v)
      BY <3>3 DEF ToNumber
    <3>5. ASSUME NEW v PROVE Meaning(v)' = Meaning(v)
      BY <3>3, <3>4 DEF Meaning
    <3>6. ASSUME NEW v, NEW self PROVE TextPlace(v, self)' = TextPlace(v, self)
      BY <3>3 DEF TextPlace
    <3>7. ASSUME NEW v, NEW m PROVE Holds(v, m)' <=> Holds(v, m)
      BY <3>3 DEF Holds
    <3>8. ASSUME NEW i PROVE Undisturbed(i)' <=> Undisturbed(i)
      BY <3>1 DEF Undisturbed, BuffersBehind, PrintedOver
    <3>9. ASSUME NEW i \in DOMAIN args, step = "convert"
          PROVE  LET v == slots'[args'[i]] IN
                 /\ v.type \in NumberTypes => given'[i] = Meaning(slots[args[i]])'
                 /\ params'[i].type = "cstring" =>
                       params'[i].at = TextPlace(slots[args[i]], Inside(args[i]))'
                 /\ Undisturbed(i)' =>
                       /\ given'[i] = Meaning(slots[args[i]])'
                       /\ params'[i] # Void => Holds(params[i], given[i])'
      <4>1. PICK v : v = slots[args[i]]
        OBVIOUS
      <4>2. PICK p : p = params[i]
        OBVIOUS
      <4>3. PICK m : m = given[i]
        OBVIOUS
      <4>4. PICK self : self = Inside(args[i])
        OBVIOUS
      <4>5. Meaning(slots[args[i]])' = Meaning(v)
        BY <3>1, <3>5, <4>1
      <4>6. TextPlace(slots[args[i]], Inside(args[i]))' = TextPlace(v, self)
        BY <3>1, <3>6, <4>1, <4>4
      <4>7. Holds(params[i], given[i])' <=> Holds(p, m)
        BY <3>1, <3>7, <4>2, <4>3
      <4> QED
        BY <1>2, <3>1, <3>8, <3>9, <4>1, <4>2, <4>3, <4>4, <4>5, <4>6, <4>7
           DEF ArrivalInv
    <3> HIDE DEF Undisturbed
    <3> QED
      BY <3>1, <3>9 DEF ArrivalInv
  <2> QED
    BY <1>2, <2>1, <2>2, <2>3, <2>4, <2>5, <2>6, <2>7 DEF ApplyNext
<1> QED
  BY <1>1, <1>2, FormsHold, PTL DEF ApplySpec
-----------------------------------------------------------------------------
(* A number comes through every conversion the types on its way can hold:   *)
(* as it is, or with its fraction cut off, for any types and any precision. *)
THEOREM NumbersAreCorrect == ApplySpec => []NumbersArrive
  BY FormsHold, ValuesConvert, PTL

(* What a value is written to Lua as reads back as that value.              *)
THEOREM LuaReadsAreCorrect == ApplySpec => []LuaReadsBack
  BY FormsHold, ValuesReadBack, PTL

(* In whatever order the arguments of a call are converted, each parameter  *)
(* holds what its argument said, unless another argument of the call was    *)
(* printed over it or it is the result Variable a void function cleared.    *)
THEOREM ArgumentsAreCorrect == ApplySpec => []ArgumentsArrive
<1>1. CallInv /\ ArrivalInv => ArgumentsArrive
  BY DEF CallInv, ArrivalInv, ArgumentsArrive, AllConverted, Converted
<1> QED
  BY <1>1, FormsHold, ArrivalHolds, PTL

(* The caller's Variable keeps its type and holds what the function         *)
(* returned, as far as that type can, unless it is a cstring and the result *)
(* a string of the call.                                                    *)
THEOREM ResultsAreCorrect == ApplySpec => ResultsArrive
<1> DEFINE Arrives ==
             \A r \in Slots, m \in {Meaning(result)} :
                step = "return" /\ step' = "idle" /\ r = retval =>
                  /\ slots'[r].type = slots[r].type
                  /\ \/ result.type = "TgcString" /\ slots[r].type = "cstring"
                     \/ Holds(slots[r], m)'
<1>1. ASSUME ValueInv, CallInv, [ApplyNext]_applyVars
      PROVE  [Arrives]_applyVars
  <2> SUFFICES ASSUME step = "return", step' = "idle",
                      NEW r \in Slots, r = retval, NEW m \in {Meaning(result)}
               PROVE  /\ slots'[r].type = slots[r].type
                      /\ \/ result.type = "TgcString" /\ slots[r].type = "cstring"
                         \/ Holds(slots[r], m)'
    OBVIOUS
  <2>1. Return
    <3>1. ~ UNCHANGED applyVars
      BY DEF applyVars, callVars
    <3>2. ASSUME NEW f, NEW x, NEW a, Apply(f, x, a) \/ WrongArity(f, a)
          PROVE  FALSE
      BY <3>2 DEF Apply, WrongArity
    <3>3. ASSUME NEW i, ConvertArg(i) PROVE FALSE
      BY <3>3 DEF ConvertArg
    <3>4. ~Invoke /\ ~InvokeVoid
      BY DEF Invoke, InvokeVoid
    <3> QED
      BY <1>1, <3>1, <3>2, <3>3, <3>4 DEF ApplyNext
  <2>2. /\ retval \in Slots /\ IsVariable(slots[retval]) /\ IsVariable(result)
        /\ slots[retval].type \in ValueTypes /\ slots[retval].type # "void"
        /\ buffer' = BuffersAfterCast(slots[retval].type, result)
        /\ UNCHANGED luaTop
        /\ IsPlace(Gone) /\ Gone # InLua
    BY <1>1, <2>1, ReturnIs
  <2>3. PICK t : t = slots[retval].type
    OBVIOUS
  <2>4. PICK v : v = result
    OBVIOUS
  <2>5. PICK w \in DynamicCast(t, v, Gone) :
           slots' = Assign(retval, w) /\ IsVariable(w) /\ w.type = t
    BY <1>1, <2>1, <2>3, <2>4, ReturnIs
  <2>6. slots'[retval] = w
    BY <1>1, <2>2, <2>5, AssignIs
  <2>7. ASSUME ~(v.type = "TgcString" /\ t = "cstring")
        PROVE  Holds(w, m)'
    <3>1. ASSUME v.type = "cstring", t = "cstring"
          PROVE  TextAt(v.at)' = TextAt(v.at)
      <4>1. buffer' = buffer
        BY <1>1, <2>2, <2>4, <3>1, PrintsOneBuffer, ValueAssumption
           DEF OtherTypes
      <4>2. slots'[retval].text = slots[retval].text
        BY <2>2, <2>3, <2>5, <2>6, <3>1, VariableIs
      <4>3. \A x \in Slots : slots'[x].text = slots[x].text
        BY <1>1, <2>2, <2>5, <4>2, AssignIs
      <4> QED
        BY <2>2, <2>4, <4>1, <4>3, TextAtStays, VariableIs
    <3> QED
      BY <1>1, <2>2, <2>3, <2>4, <2>5, <2>7, <3>1, CastArrives
  <2>8. slots'[r] = w
    BY <2>6
  <2> QED
    BY <2>3, <2>4, <2>5, <2>6, <2>7, <2>8
<1> QED
  BY <1>1, FormsHold, PTL DEF ApplySpec, ResultsArrive
-----------------------------------------------------------------------------
(* A number of the type n is printed by the next step of a call.            *)
PrintsNow(n) ==
    \/ step = "convert" /\ \E i \in DOMAIN args :
          /\ params[i] = Void
          /\ Params[function][i] \in StringTypes
          /\ slots[args[i]].type = n
    \/ step = "return" /\ result.type = n

(* What a step leaves of the characters Variables point to: a buffer is     *)
(* only printed into; a string is written only when the cstrings that point *)
(* into it change; text leaves the Lua stack only with its cstrings.        *)
CharactersStay ==
    /\ \A n \in NumberTypes : buffer'[n] = buffer[n] \/ PrintsNow(n)
    /\ \A s, x \in Slots :
          slots[s].at = Inside(x) /\ slots'[s] = slots[s] =>
             slots'[x].text = slots[x].text
    /\ \A s \in Slots :
          slots[s].at = InLua /\ slots'[s] = slots[s] =>
             luaTop'.text = luaTop.text

(* Storing a Variable in a slot does.                                       *)
LEMMA AssignLeavesTexts ==
    ASSUME ValueInv, NEW t \in Slots, NEW v, IsVariable(v), slots' = Assign(t, v),
           NEW s \in Slots, NEW x \in Slots,
           slots[s].at = Inside(x), slots'[s] = slots[s]
    PROVE  slots'[x].text = slots[x].text
<1>1. CASE x # t
  BY <1>1, AssignIs
<1>2. CASE x = t /\ s = t
  BY <1>2
<1>3. CASE x = t /\ s # t
  <2>1. slots'[s] = CString(Gone)
    BY <1>3 DEF Assign
  <2>2. CString(Gone).at = Gone /\ Gone # Inside(x)
    BY DEF CString, Gone, Inside
  <2> QED
    BY <2>1, <2>2
<1> QED
  BY <1>1, <1>2, <1>3

(* No step changes the characters of a text but by printing a number.       *)
LEMMA StepLeavesCharacters ==
    ASSUME ValueInv, CallInv, [ApplyNext]_applyVars
    PROVE  CharactersStay
<1>1. ASSUME NEW s \in Slots, NEW v \in InitialVariables, SetVariable(s, v)
      PROVE  CharactersStay
  <2>1. IsVariable(v) /\ slots' = Assign(s, v) /\ UNCHANGED <<buffer, luaTop>>
    BY <1>1, InitialAre DEF SetVariable
  <2> QED
    BY <2>1, AssignLeavesTexts DEF CharactersStay
<1>2. ASSUME NEW s \in Slots, WriteType(s) PROVE CharactersStay
  <2>1. luaTop = NoLua /\ UNCHANGED <<slots, buffer>>
    BY <1>2 DEF WriteType
  <2>2. \A x \in Slots : slots[x].at # InLua
    BY <2>1 DEF ValueInv, NoLua
  <2> QED
    BY <2>1, <2>2 DEF CharactersStay
<1>3. ASSUME NEW s \in Slots, ReadType(s) PROVE CharactersStay
  <2>1. PICK v \in Reads(slots[s].type, slots[s], luaTop) :
           /\ slots' = Assign(s, v) /\ slots[s].type # "void"
           /\ luaTop' = StackAfterRead(slots[s].type, luaTop)
           /\ UNCHANGED buffer
    BY <1>3 DEF ReadType
  <2>2. IsVariable(slots[s])
    BY DEF ValueInv
  <2>3. IsVariable(v)
    BY <2>1, <2>2, ReadsAre
  <2>4. \A x \in Slots : slots[x].at = InLua => luaTop' = luaTop
    BY <2>1, StackIs DEF ValueInv
  <2> QED
    BY <2>1, <2>3, <2>4, AssignLeavesTexts DEF CharactersStay
<1>4. ASSUME NEW l, RunScript(l) PROVE CharactersStay
  <2>1. luaTop = NoLua /\ UNCHANGED <<slots, buffer>>
    BY <1>4 DEF RunScript
  <2>2. \A x \in Slots : slots[x].at # InLua
    BY <2>1 DEF ValueInv, NoLua
  <2> QED
    BY <2>1, <2>2 DEF CharactersStay
<1>5. ASSUME Pop PROVE CharactersStay
  <2>1. /\ UNCHANGED buffer
        /\ slots' = [s \in Slots |-> IF slots[s].at = InLua THEN CString(Gone)
                                     ELSE slots[s]]
    BY <1>5 DEF Pop
  <2>2. /\ CString(Gone).at = Gone /\ CString(Gone).text = NoText
        /\ Gone # InLua
    BY DEF CString, Gone, InLua
  <2>3. \A x \in Slots : slots[x].at = InLua => slots[x].text = NoText
    BY <2>2, VariableIs DEF ValueInv
  <2> QED
    BY <2>1, <2>2, <2>3 DEF CharactersStay
<1>6. ASSUME NEW f \in Functions, NEW r \in Slots, NEW n \in 0 .. MaxArgs,
             NEW a \in [1 .. n -> Slots], Apply(f, r, a)
      PROVE  CharactersStay
  <2>1. UNCHANGED <<buffer, luaTop>>
    BY <1>6 DEF Apply
  <2> QED
    BY <1>6, <2>1, ApplyKeeps, ApplyAssumption DEF CharactersStay
<1>7. ASSUME NEW j \in 1 .. MaxArgs, ConvertArg(j) PROVE CharactersStay
  <2>1. /\ step = "convert" /\ j \in DOMAIN args /\ params[j] = Void
        /\ IsVariable(slots[args[j]])
        /\ buffer' = BuffersAfterCast(Params[function][j], slots[args[j]])
        /\ UNCHANGED <<slots, luaTop>>
    BY <1>7, ConversionIs, ApplyAssumption
  <2>2. ASSUME NEW n \in NumberTypes
        PROVE  buffer'[n] = buffer[n] \/ PrintsNow(n)
    BY <2>1, PrintsOneBuffer DEF PrintsNow
  <2> QED
    BY <2>1, <2>2 DEF CharactersStay
<1>8. ASSUME Return PROVE CharactersStay
  <2>1. /\ step = "return" /\ retval \in Slots /\ IsVariable(result)
        /\ buffer' = BuffersAfterCast(slots[retval].type, result)
        /\ UNCHANGED luaTop
    BY <1>8, ReturnIs
  <2>2. PICK w : slots' = Assign(retval, w) /\ IsVariable(w)
    BY <1>8, ReturnIs
  <2>3. ASSUME NEW n \in NumberTypes
        PROVE  buffer'[n] = buffer[n] \/ PrintsNow(n)
    BY <2>1, PrintsOneBuffer DEF PrintsNow
  <2> QED
    BY <2>1, <2>2, <2>3, AssignLeavesTexts DEF CharactersStay
<1>9. ASSUME UNCHANGED valueVars PROVE CharactersStay
  BY <1>9 DEF valueVars, CharactersStay
<1>10. ASSUME NEW f, NEW a,
              WrongArity(f, a) \/ Invoke \/ InvokeVoid \/ UNCHANGED applyVars
       PROVE  UNCHANGED valueVars
  BY <1>10 DEF WrongArity, Invoke, InvokeVoid, applyVars
<1> QED
  BY <1>1, <1>2, <1>3, <1>4, <1>5, <1>6, <1>7, <1>8, <1>9, <1>10
     DEF ApplyNext, ValueNext

(* A text stays what it is while its Variable is left alone, in every use   *)
(* of it and every call, unless it lies in the buffer of a number type and  *)
(* a number of that type is printed.                                        *)
THEOREM TextsAreStable == ApplySpec => TextsStay
<1> DEFINE Stays ==
             \A s \in Slots :
                slots'[s] = slots[s] /\ slots[s].type \in StringTypes
                  /\ IsAlive(slots[s]) =>
                  \/ Said(slots[s])' = Said(slots[s])
                  \/ \E n \in NumberTypes :
                        /\ slots[s].at = Buffer(n)
                        /\ \/ step = "convert" /\ \E i \in DOMAIN args :
                                /\ params[i] = Void
                                /\ Params[function][i] \in StringTypes
                                /\ slots[args[i]].type = n
                           \/ step = "return" /\ result.type = n
<1>1. ASSUME ValueInv, CallInv, [ApplyNext]_applyVars PROVE Stays
  <2> SUFFICES ASSUME NEW s \in Slots, slots'[s] = slots[s],
                      ~ \E n \in NumberTypes :
                           slots[s].at = Buffer(n) /\ PrintsNow(n)
               PROVE  Said(slots[s])' = Said(slots[s])
    BY DEF PrintsNow
  <2>1. PICK v : v = slots[s]
    OBVIOUS
  <2>2. IsVariable(v)
    BY <1>1, <2>1 DEF ValueInv
  <2>3. TextAt(v.at)' = TextAt(v.at)
    <3>1. CharactersStay
      BY <1>1, StepLeavesCharacters
    <3>2. IsPlace(v.at)
      BY <2>2, VariableIs
    <3> QED
      BY <2>1, <3>1, <3>2, TextAtStays DEF CharactersStay
  <2>4. Said(v)' = Said(v)
    BY <2>2, <2>3, MeaningStays
  <2> QED
    BY <2>1, <2>4
<1>2. ASSUME ValueInv, CallInv, [ApplyNext]_applyVars PROVE [Stays]_applyVars
  BY <1>1, <1>2
<1> QED
  BY <1>2, FormsHold, PTL DEF ApplySpec, TextsStay
=============================================================================
