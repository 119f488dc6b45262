SPECIFICATION Spec
CONSTANTS
  c1 = c1
  c2 = c2
  f1 = f1
  f2 = f2
  Null = Null
  Classes <- MCClasses
  Functions <- MCFunctions
  ClassOf <- MCClassOf
  NameOf <- MCNameOf
  Detached = {n1}
  Datas = {d1, d2}
  Keys = {k1, k2}
  Values = {v1, v2}
SYMMETRY Symmetry
INVARIANTS
    AnswersAreLatest
    LookupsAgree
