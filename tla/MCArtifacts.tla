---------------------------- MODULE MCArtifacts -----------------------------
(***************************************************************************)
(* Artifacts with every instruction, every kind of constant, captures of   *)
(* both kinds, debug records and both formats, in several profiles; each   *)
(* limit at what an artifact uses and one below; every byte changed, every *)
(* length cut; and the prototypes of MCValidator.                          *)
(***************************************************************************)
EXTENDS MCValidator, Artifacts, FiniteSetsExt

All == 0 .. Len(FeatureNames) - 1
Bit(names) == {FeatureBit(n) : n \in names}

I(op, args) == Instruction(op, args)

Function(profile, code) ==
  [profile |-> profile, source |-> 1, register_count |-> 3, parameter_count |-> 3,
   is_vararg |-> TRUE, line_defined |-> 0, last_line_defined |-> 0,
   features |-> (All \ Bit({"DumpedFunction", "ImplicitEnvironment", "StrippedDebugLines"}))
     \ (IF profile \in {"Lua53", "Lua54", "Lua55", "Blu"} THEN {} ELSE Bit({"FloorDivision", "BitwiseOperators"})),
   constants |-> <<String(<<6>>)>>, upvalues |-> << >>, children |-> << >>, code |-> code,
   source_map |-> [k \in DOMAIN code |-> <<1, 0, 2>>], line_info |-> [k \in DOMAIN code |-> 1],
   locals |-> << >>, upvalue_debug |-> << >>]

Artifact(format, prototypes) ==
  [format |-> format, compiler |-> [id |-> [i \in 1 .. 16 |-> i], name |-> <<1>>, version |-> <<2>>,
                                    revision |-> IF format = 2 THEN <<<<3>>>> ELSE << >>],
   sources |-> <<[id |-> 1, name |-> <<4>>, byte_len |-> 2, digest |-> [i \in 1 .. 32 |-> 0]]>>,
   main |-> 0, prototypes |-> prototypes]

LoadCode ==
  <<I("LoadConstant", <<0, 0>>), I("LoadGlobal", <<1, 0>>), I("StoreGlobal", <<0, 1>>),
    I("NewTable", <<2>>), I("GetTable", <<0, 2, 1>>), I("SetTable", <<2, 1, 0>>),
    I("SetListVarargs", <<2, 1>>), I("Return", <<0, 1>>)>>

OperatorCode ==
  [n \in 1 .. 12 |-> I(<<"Add", "Subtract", "Multiply", "Divide", "Modulo", "Power", "FloorDivide",
     "BitwiseAnd", "BitwiseOr", "BitwiseExclusiveOr", "ShiftLeft", "ShiftRight">>[n], <<0, 1, 2>>)]
  \o [n \in 1 .. 5 |-> I(<<"Move", "Not", "Negate", "Length", "BitwiseNot">>[n], <<2, 0>>)]
  \o <<I("Return", <<0, 3>>)>>

JumpCode ==
  <<I("Concatenate", <<0, 1, 2>>), I("Equal", <<0, 1, 2>>), I("LessThan", <<0, 1, 2>>),
    I("LessEqual", <<0, 1, 2>>), I("JumpIfTruthy", <<0, 6>>), I("Jump", <<0>>),
    I("JumpIfFalsy", <<1, 8>>), I("Jump", <<8>>), I("Return", <<2, 1>>)>>

CallCode ==
  <<I("Call", <<0, 1, 2, 1>>), I("CallResults", <<0, 1, 2, 1, 2>>),
    I("CallVarargsResults", <<0, 1, 2, 0, 1>>), I("CallAllResults", <<0, 1, 1>>),
    I("CallDynamicResults", <<1, 0, 2, 1, 2>>), I("CallVarargsAllResults", <<0, 1, 0>>),
    I("CallDynamicAllResults", <<0, 1, 1>>), I("ReturnDynamic", << >>)>>

ListCode ==
  <<I("Varargs", <<0, 2>>), I("SetListCall", <<0, 1, 1, 2, 1>>),
    I("SetListCallVarargs", <<0, 2, 1, 2, 0>>), I("CallAllResults", <<1, 2, 0>>),
    I("SetListCallDynamic", <<0, 1, 1, 2, 1>>), I("ReturnVarargs", <<0, 1>>)>>

ReturnCode ==
  <<I("JumpIfTruthy", <<0, 2>>), I("ReturnCall", <<0, 1, 1>>),
    I("JumpIfTruthy", <<0, 4>>), I("ReturnCallPrefix", <<0, 1, 1, 2, 1>>),
    I("JumpIfTruthy", <<0, 6>>), I("ReturnCallVarargs", <<0, 1, 1>>),
    I("JumpIfTruthy", <<0, 8>>), I("ReturnCallVarargsPrefix", <<0, 1, 1, 2, 1>>),
    I("JumpIfTruthy", <<0, 11>>), I("CallAllResults", <<0, 1, 0>>), I("ReturnCallDynamic", <<0, 1, 1>>),
    I("JumpIfTruthy", <<0, 14>>), I("CallAllResults", <<0, 1, 0>>),
    I("ReturnCallDynamicPrefix", <<0, 1, 1, 2, 1>>),
    I("CallAllResults", <<0, 1, 0>>), I("ReturnDynamicPrefix", <<0, 1>>)>>

(* A function in a function in the main function. *)
Outer(profile) ==
  [Function(profile, <<I("NewClosure", <<1, 0>>), I("CloseUpvalues", <<1>>), I("NewClosure", <<2, 1>>),
                       I("Return", <<1, 1>>)>>) EXCEPT
     !.children = <<1, 3>>,
     !.constants = <<Nil, Constant(1, << >>), Constant(2, << >>), Constant(3, <<0, 0, 0, 0, 0, 0, 1, 2>>),
                     Constant(5, <<1, 0, 0, 0, 0, 0, 0, 0>>), String(<< >>)>>,
     !.locals = <<[name |-> <<6>>, index |-> 1, start_pc |-> 0, end_pc |-> 4]>>]
Middle(profile) ==
  [Function(profile, <<I("GetUpvalue", <<0, 0>>), I("SetUpvalue", <<1, 0>>), I("NewClosure", <<0, 0>>),
                       I("Return", <<0, 1>>)>>) EXCEPT
     !.children = <<2>>, !.line_defined = 1, !.last_line_defined = 2,
     !.upvalues = <<[tag |-> 0, index |-> 0], [tag |-> 0, index |-> 2]>>,
     !.upvalue_debug = <<[name |-> <<6>>, index |-> 1, start_pc |-> 0, end_pc |-> 4]>>]
Inner(profile) ==
  [Function(profile, <<I("GetUpvalue", <<0, 0>>), I("Return", <<0, 1>>)>>) EXCEPT
     !.upvalues = <<[tag |-> 1, index |-> 1], [tag |-> 0, index |-> 1]>>]
Leaf(profile) == Function(profile, <<I("Return", <<0, 0>>)>>)

Tree(format, profile) ==
  Artifact(format, <<Outer(profile), Middle(profile), Inner(profile), Leaf(profile)>>)

MCCompiled ==
  {Artifact(2, <<Function("Lua54", c)>>) : c \in {LoadCode, OperatorCode, JumpCode, CallCode, ListCode, ReturnCode}}
  \cup {Tree(2, "Lua54"), Tree(2, "Lua51"), Tree(1, "Luau"), Tree(2, "Lua55")}

MCFragile == {Artifact(2, <<Function("Lua54", c)>>) : c \in {LoadCode, JumpCode, ListCode}} \cup {Tree(1, "Luau")}

LimitNames ==
  Totals \cup {"bytes", "sources", "prototypes", "registers", "constants", "constant_bytes",
               "debug_name_bytes", "code", "children", "upvalues", "debug_entries", "source_name",
               "compiler_name", "compiler_version", "compiler_revision"}

MCUnlimited == [n \in LimitNames |-> 100000]

(* What an artifact uses of a limit. *)
Used(a, name) ==
  LET most(Of(_)) == Max({0} \cup {Of(p) : p \in ToSet(a.prototypes)})
      longest(list) == Max({0} \cup {Len(x) : x \in ToSet(list)})
  IN CASE name \in Totals      -> Aggregate(a, name)
       [] name = "bytes"       -> EncodedSize(a)
       [] name = "sources"     -> Len(a.sources)
       [] name = "prototypes"  -> Len(a.prototypes)
       [] name = "registers"   -> most(LAMBDA p : p.register_count)
       [] name = "constants"   -> most(LAMBDA p : Len(p.constants))
       [] name = "constant_bytes" -> most(LAMBDA p : longest([i \in DOMAIN p.constants |->
                                       IF p.constants[i].tag = 4 THEN p.constants[i].bytes ELSE << >>]))
       [] name = "debug_name_bytes" -> most(LAMBDA p : longest([i \in DOMAIN (p.locals \o p.upvalue_debug) |->
                                       (p.locals \o p.upvalue_debug)[i].name]))
       [] name = "code"        -> most(LAMBDA p : Len(p.code))
       [] name = "children"    -> most(LAMBDA p : Len(p.children))
       [] name = "upvalues"    -> most(LAMBDA p : Len(p.upvalues))
       [] name = "debug_entries" -> most(LAMBDA p : Max({Len(p.locals), Len(p.upvalue_debug)}))
       [] name = "source_name" -> Len(a.sources[1].name)
       [] name = "compiler_name" -> Len(a.compiler.name)
       [] name = "compiler_version" -> Len(a.compiler.version)
       [] name = "compiler_revision" -> longest(a.compiler.revision)

MCPolicies(a) ==
  {MCUnlimited}
  \cup {[MCUnlimited EXCEPT ![name] = Used(a, name) - less] :
          name \in {n \in LimitNames : Used(a, n) > 0}, less \in {0, 1}}
=============================================================================
