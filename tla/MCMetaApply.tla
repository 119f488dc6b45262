---------------------------- MODULE MCMetaApply ----------------------------
(* Instances of MetaApply for TLC. Numbers are counted in halves: the int   *)
(* 2 (4 halves) has no double, the double 1.5 (3 halves) no numeral.        *)
EXTENDS MetaApply, TLC

MCNumberTypes == {"int", "float"}
MCDoubles == {-1, 0, 2, 3}
MCValuesOf == ("int" :> {0, 2, 4}) @@ ("float" :> {-1, 0, 3})
MCNumerals == {-1, 0, 2}
MCLuaNumerals == {-1, 0, 2, 3}
MCTexts == {Word("name")}
MCScripts == {LuaNil}

MCFunctions == {"concat", "set", "count"}
MCParams ==
    ("concat" :> <<"cstring", "TgcString">>) @@ ("set" :> <<"cstring", "int">>)
      @@ ("count" :> <<"bool">>)
MCResult ==
    ("concat" :> "TgcString") @@ ("set" :> "void") @@ ("count" :> "int")
=============================================================================
