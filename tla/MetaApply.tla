----------------------------- MODULE MetaApply -----------------------------
(* Calls of member functions through Variables: Apply checks the number of  *)
(* arguments, ConvertArg casts each of them to its parameter's type while   *)
(* the call expression is evaluated, in an order C++ leaves open, and the   *)
(* result is cast into the Variable the caller chose for it. Casts to text  *)
(* meet in the buffers of the number types.                                 *)
(*                                                                          *)
(* A caller may pass the same Variable twice, also as argument and result.  *)
(* No call uses the Lua stack; calls are looked at while it is empty.       *)
EXTENDS MetaValue, Sequences

CONSTANTS
    Functions,  \* the registered member functions
    Params,     \* the parameter types of each, a sequence
    Result,     \* the result type of each
    MaxArgs     \* the most arguments a caller passes

ASSUME ApplyAssumption ==
    /\ \A f \in Functions :
          /\ Params[f] \in Seq(ValueTypes \ {"void"})
          /\ Result[f] \in ValueTypes
    /\ MaxArgs \in Nat

VARIABLES
    step,       \* how far the call is; "halted" after a failed assert
    function,   \* the function called, or Nobody
    args,       \* its argument Variables
    retval,     \* the Variable for its result
    given,      \* what the arguments said when the call began; a history
    params,     \* the parameters converted so far, Void for the others
    result      \* what the function returned

callVars == <<step, function, args, retval, given, params, result>>
applyVars == <<valueVars, callVars>>

ApplyInit ==
    /\ ValueInit
    /\ step = "idle"
    /\ function = Nobody
    /\ args = <<>>
    /\ retval = Nobody
    /\ given = <<>>
    /\ params = <<>>
    /\ result = Void

(* What a Variable says, as a number and as text.                           *)
Meaning(v) == [number |-> ToNumber(v), text |-> Said(v)]

(* Apply, up to the call expression. A void function's result Variable is   *)
(* cleared before its arguments are looked at.                              *)
Apply(f, r, a) ==
    /\ step = "idle"
    /\ luaTop = NoLua
    /\ \A i \in DOMAIN a : IsAlive(slots[a[i]])
    /\ Result[f] = "void" \/ slots[r].type # "void"
    /\ Len(a) = Len(Params[f])
    /\ function' = f
    /\ retval' = r
    /\ args' = a
    /\ given' = [i \in DOMAIN a |-> Meaning(slots[a[i]])]
    /\ params' = [i \in DOMAIN a |-> Void]
    /\ step' = "convert"
    /\ slots' = IF Result[f] = "void"
                THEN [slots EXCEPT ![r] = Cleared(slots[r])] ELSE slots
    /\ UNCHANGED <<buffer, luaTop, result>>

(* The caller's arguments do not match the function's arity.                *)
WrongArity(f, a) ==
    /\ step = "idle"
    /\ luaTop = NoLua
    /\ Len(a) # Len(Params[f])
    /\ step' = "halted"
    /\ UNCHANGED <<valueVars, function, args, retval, given, params, result>>

(* ConvertArg of the argument i, by value.                                  *)
ConvertArg(i) ==
    /\ step = "convert"
    /\ i \in DOMAIN args
    /\ params[i] = Void
    /\ \E v \in DynamicCast(Params[function][i], slots[args[i]], Inside(args[i])) :
          params' = [params EXCEPT ![i] = v]
    /\ buffer' = BuffersAfterCast(Params[function][i], slots[args[i]])
    /\ UNCHANGED <<slots, luaTop, step, function, args, retval, given, result>>

Converted == \A i \in DOMAIN params : params[i] # Void

(* What the function may return: any value, one of its texts among them.    *)
Results(f) ==
    {v \in InitialVariables : v.type = Result[f]}
      \cup {params[i] : i \in {j \in DOMAIN params : params[j].type = Result[f]}}

EndCall ==
    /\ step' = "idle"
    /\ function' = Nobody
    /\ args' = <<>>
    /\ retval' = Nobody
    /\ given' = <<>>
    /\ params' = <<>>
    /\ result' = Void

(* The call itself. A void function's call is over then.                    *)
InvokeVoid ==
    /\ step = "convert"
    /\ Converted
    /\ Result[function] = "void"
    /\ EndCall
    /\ UNCHANGED valueVars

Invoke ==
    /\ step = "convert"
    /\ Converted
    /\ Result[function] # "void"
    /\ result' \in Results(function)
    /\ step' = "return"
    /\ UNCHANGED <<valueVars, function, args, retval, given, params>>

\* Slip: the result is stored under its own type, not the one asked for.
Return_Unconverted ==
    /\ step = "return"
    /\ slots' = Assign(retval, result)
    /\ EndCall
    /\ UNCHANGED <<buffer, luaTop>>

(* The result is cast into the caller's Variable. The result itself, and    *)
(* the characters of a string among them, end with the call.                *)
Return ==
    /\ step = "return"
    /\ \E v \in DynamicCast(slots[retval].type, result, Gone) :
          slots' = Assign(retval, v)
    /\ buffer' = BuffersAfterCast(slots[retval].type, result)
    /\ EndCall
    /\ UNCHANGED luaTop

ApplyNext ==
    \/ step = "idle" /\ ValueNext /\ UNCHANGED callVars
    \/ \E f \in Functions, r \in Slots, n \in 0 .. MaxArgs :
          \E a \in [1 .. n -> Slots] : Apply(f, r, a) \/ WrongArity(f, a)
    \/ \E i \in 1 .. MaxArgs : ConvertArg(i)
    \/ Invoke
    \/ InvokeVoid
    \/ Return

ApplySpec == ApplyInit /\ [][ApplyNext]_applyVars
-----------------------------------------------------------------------------
(* Another argument of this call is printed into the buffer of n, and says  *)
(* something else than t.                                                   *)
PrintedOver(i, n, t) ==
    \E j \in DOMAIN args \ {i} :
        /\ Params[function][j] \in StringTypes
        /\ slots[args[j]].type = n
        /\ given[j].text # t

(* The buffers the argument i, or its parameter, is read from.              *)
BuffersBehind(i) ==
    {n \in NumberTypes :
        \/ slots[args[i]].at = Buffer(n)
        \/ Params[function][i] = "cstring" /\ slots[args[i]].type = n}

(* Nothing in this call overwrites the argument i.                          *)
Undisturbed(i) ==
    /\ Result[function] = "void" => args[i] # retval
    /\ \A n \in BuffersBehind(i) : ~PrintedOver(i, n, given[i].text)

(* The parameter v holds what m means, as far as its type can.              *)
Holds(v, m) ==
    CASE v.type \in NumberTypes -> v.number \in Casts(v.type, m.number)
      [] v.type = "bool"        -> (v.number # 0) = (m.number # 0)
      [] OTHER                  -> Said(v) = m.text

AllConverted == step = "convert" /\ Converted

(* When a function is entered each parameter holds what its argument said  *)
(* when the call began, whatever the order of the conversions, unless       *)
(* another argument was printed over it or it is the cleared result of a    *)
(* void function.                                                           *)
ArgumentsArrive ==
    AllConverted =>
        \A i \in DOMAIN args :
            /\ params[i].type = Params[function][i]
            /\ Undisturbed(i) => Holds(params[i], given[i])

(* The caller's Variable keeps its type and holds what the function         *)
(* returned, but for a string that is asked for as a cstring.               *)
ResultsArrive ==
    [][ \A r \in Slots, m \in {Meaning(result)} :
          step = "return" /\ step' = "idle" /\ r = retval =>
            /\ slots'[r].type = slots[r].type
            /\ \/ result.type = "TgcString" /\ slots[r].type = "cstring"
               \/ Holds(slots[r], m)' ]_applyVars

(* A text stays what it is while its Variable is left alone, through calls  *)
(* and uses of Lua, until a number of the type whose buffer it lies in is   *)
(* printed: as an argument or as the result.                                *)
TextsStay ==
    [][ \A s \in Slots :
          slots'[s] = slots[s] /\ slots[s].type \in StringTypes /\ IsAlive(slots[s]) =>
            \/ Said(slots[s])' = Said(slots[s])
            \/ \E n \in NumberTypes :
                  /\ slots[s].at = Buffer(n)
                  /\ \/ step = "convert" /\ \E i \in DOMAIN args :
                          /\ params[i] = Void
                          /\ Params[function][i] \in StringTypes
                          /\ slots[args[i]].type = n
                     \/ step = "return" /\ result.type = n ]_applyVars
=============================================================================
