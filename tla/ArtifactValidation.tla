------------------------ MODULE ArtifactValidation --------------------------
(***************************************************************************)
(* What makes an artifact valid (blu.rs, validate): the limits of the      *)
(* host, the tree of its prototypes, and every prototype by itself.  The   *)
(* flow of values through the code of a prototype is checked by the scan   *)
(* of module Validation, on the records that Meaning gives its             *)
(* instructions there.                                                     *)
(***************************************************************************)
EXTENDS ArtifactDecoder, Validation

-----------------------------------------------------------------------------
(***************************************************************************)
(* validate_aggregate_limits.  The totals only grow, so it is enough to    *)
(* compare the last one with its limit.                                    *)
(***************************************************************************)
StringBytes(p) == LET size(c) == IF c.tag = 4 THEN Len(c.bytes) ELSE 0 IN Total(size, p.constants)

NameBytes(p) == LET size(d) == Len(d.name) IN Total(size, p.locals) + Total(size, p.upvalue_debug)

Counted(p, total) ==
  CASE total = "total_registers"          -> p.register_count
    [] total = "total_constants"          -> Len(p.constants)
    [] total = "total_constant_bytes"     -> StringBytes(p)
    [] total = "total_code"               -> Len(p.code)
    [] total = "total_children"           -> Len(p.children)
    [] total = "total_upvalues"           -> Len(p.upvalues)
    [] total = "total_debug_entries"      -> Len(p.locals) + Len(p.upvalue_debug)
    [] total = "total_debug_bytes"        -> NameBytes(p)
    [] total = "total_source_map_entries" -> Len(p.source_map)
    [] total = "decoded_bytes"            ->
         Charge.prototype + Charge.constant * Len(p.constants)
         + Charge.instruction * Len(p.code) + Charge.child * Len(p.children)
         + Charge.upvalue * Len(p.upvalues) + Charge.source_map * Len(p.source_map)
         + Charge.debug * (Len(p.locals) + Len(p.upvalue_debug)) + StringBytes(p) + NameBytes(p)

IdentityBytes(a) ==
  LET size(s) == Charge.source + Len(s.name) IN
  Charge.artifact + Total(size, a.sources) + Len(a.compiler.name) + Len(a.compiler.version)
  + Len(Concat(a.compiler.revision))

Aggregate(a, total) ==
  LET counted(p) == Counted(p, total) IN
  Total(counted, a.prototypes) + (IF total = "decoded_bytes" THEN IdentityBytes(a) ELSE 0)

WithinAggregateLimits(a, limits) == \A t \in Totals : Aggregate(a, t) <= limits[t]

WithinIdentityLimits(a, limits) ==
  /\ Len(a.sources) <= limits["sources"]
  /\ Len(a.prototypes) <= limits["prototypes"]
  /\ Len(a.compiler.name) <= limits["compiler_name"]
  /\ Len(a.compiler.version) <= limits["compiler_version"]
  /\ \A r \in ToSet(a.compiler.revision) : Len(r) <= limits["compiler_revision"]
  /\ \A s \in ToSet(a.sources) : Len(s.name) <= limits["source_name"]

WithinPrototypeLimits(p, limits) ==
  /\ p.register_count <= limits["registers"]
  /\ Len(p.constants) <= limits["constants"]
  /\ Len(p.code) <= limits["code"]
  /\ Len(p.upvalues) <= limits["upvalues"]
  /\ Len(p.children) <= limits["children"]
  /\ Len(p.locals) <= limits["debug_entries"]
  /\ Len(p.upvalue_debug) <= limits["debug_entries"]
  /\ \A c \in ToSet(p.constants) : c.tag = 4 => Len(c.bytes) <= limits["constant_bytes"]
  /\ \A d \in ToSet(p.locals) \cup ToSet(p.upvalue_debug) :
       Len(d.name) <= limits["debug_name_bytes"]

-----------------------------------------------------------------------------
(***************************************************************************)
(* Features and profiles.                                                  *)
(***************************************************************************)
BitwiseOps ==
  {"BitwiseAnd", "BitwiseOr", "BitwiseExclusiveOr", "ShiftLeft", "ShiftRight", "BitwiseNot"}

FloorDivisionIsLegal(profile) == profile \in {"Blu", "Luau", "Lua53", "Lua54", "Lua55"}

BitwiseOperatorsAreLegal(profile) == profile \in {"Blu", "Lua53", "Lua54", "Lua55"}

InstructionIsLegal(profile, i) ==
  CASE i.op = "FloorDivide"  -> FloorDivisionIsLegal(profile)
    [] i.op \in BitwiseOps   -> BitwiseOperatorsAreLegal(profile)
    [] OTHER                 -> TRUE

VarargOps ==
  {"Varargs", "ReturnVarargs", "CallVarargsResults", "CallVarargsAllResults",
   "ReturnCallVarargs", "ReturnCallVarargsPrefix", "SetListVarargs", "SetListCallVarargs"}

ListOps == {"SetListVarargs", "SetListCall", "SetListCallVarargs", "SetListCallDynamic"}

(* The ops behind each feature; pc 1 of a lexical chunk makes its          *)
(* environment, and only a jump back asks for more than forward branches.  *)
OpsOf(feature) ==
  CASE feature = "FloorDivision" -> {"FloorDivide"}
    [] feature = "Concatenation" -> {"Concatenate"}
    [] feature = "Comparisons" -> {"Equal", "LessThan", "LessEqual"}
    [] feature = "ForwardBranches" -> {"JumpIfTruthy", "JumpIfFalsy", "Jump"}
    [] feature = "Globals" -> {"LoadGlobal", "StoreGlobal"}
    [] feature = "Tables" -> {"GetTable", "SetTable"} \cup ListOps
    [] feature = "FixedCalls" -> {"Call"}
    [] feature = "Closures" -> {"NewClosure", "GetUpvalue", "SetUpvalue", "CloseUpvalues"}
    [] feature = "FixedMultiResults" -> {"CallResults", "CallVarargsResults", "CallDynamicResults"}
    [] feature = "ReturnCalls" ->
         {"ReturnCall", "ReturnCallPrefix", "ReturnCallVarargs", "ReturnCallVarargsPrefix",
          "ReturnCallDynamic", "ReturnCallDynamicPrefix"}
    [] feature = "Varargs" -> VarargOps
    [] feature = "DynamicCallResults" ->
         {"SetListCall", "SetListCallVarargs", "SetListCallDynamic", "CallAllResults",
          "CallVarargsAllResults", "CallDynamicResults", "CallDynamicAllResults",
          "ReturnDynamic", "ReturnDynamicPrefix", "ReturnCallDynamic", "ReturnCallDynamicPrefix"}
    [] feature = "BitwiseOperators" -> BitwiseOps
    [] OTHER -> {}

Needs(p, feature) ==
  \/ feature = "Baseline"
  \/ feature = "IntegerConstants" /\ \E c \in ToSet(p.constants) : c.tag = 5
  \/ feature = "BackwardBranches"
     /\ \E k \in DOMAIN p.code : p.code[k].op = "Jump" /\ p.code[k].args[1] <= k - 1
  \/ feature = "Tables"
     /\ \E k \in DOMAIN p.code : p.code[k].op = "NewTable" /\ ~(k = 1 /\ p.profile \in Lexical)
  \/ \E i \in ToSet(p.code) : i.op \in OpsOf(feature)

FeaturesOK(p) ==
  /\ p.features \subseteq Supported
  /\ \A f \in ToSet(FeatureNames) : Needs(p, f) => Has(p, f)
  /\ Has(p, "FloorDivision") => FloorDivisionIsLegal(p.profile)
  /\ Has(p, "BitwiseOperators") => BitwiseOperatorsAreLegal(p.profile)
  /\ (\E i \in ToSet(p.code) : i.op \in VarargOps) => p.is_vararg
  /\ \A i \in ToSet(p.code) : InstructionIsLegal(p.profile, i)

-----------------------------------------------------------------------------
(***************************************************************************)
(* The instructions as module Bytecode has them.                           *)
(***************************************************************************)
BinaryOps ==
  {"Add", "Subtract", "Multiply", "Divide", "Modulo", "Power", "FloorDivide", "BitwiseAnd",
   "BitwiseOr", "BitwiseExclusiveOr", "ShiftLeft", "ShiftRight", "Concatenate", "Equal",
   "LessThan", "LessEqual"}

Captured(child) == {u.index : u \in {u \in ToSet(child.upvalues) : u.tag = 0}}

ClosureOf(p, prototypes, x) ==
  IF x[2] < Len(p.children) /\ p.children[x[2] + 1] < Len(prototypes)
  THEN Closure(x[1], x[2], Captured(prototypes[p.children[x[2] + 1] + 1]))
  ELSE Closure(x[1], x[2], {})

CallMeaning(op, x) ==
  CASE op = "Call"                    -> Call(x[2], x[3], x[4], "none", "fixed", x[1], 1)
    [] op = "CallResults"             -> Call(x[2], x[3], x[4], "none", "fixed", x[1], x[5])
    [] op = "CallVarargsResults"      -> Call(x[2], x[3], x[4], "varargs", "fixed", x[1], x[5])
    [] op = "CallDynamicResults"      -> Call(x[2], x[3], x[4], "dynamic", "fixed", x[1], x[5])
    [] op = "CallAllResults"          -> Call(x[1], x[2], x[3], "none", "all", 0, 0)
    [] op = "CallVarargsAllResults"   -> Call(x[1], x[2], x[3], "varargs", "all", 0, 0)
    [] op = "CallDynamicAllResults"   -> Call(x[1], x[2], x[3], "dynamic", "all", 0, 0)
    [] op = "ReturnCall"              -> Call(x[1], x[2], x[3], "none", "return", 0, 0)
    [] op = "ReturnCallVarargs"       -> Call(x[1], x[2], x[3], "varargs", "return", 0, 0)
    [] op = "ReturnCallDynamic"       -> Call(x[1], x[2], x[3], "dynamic", "return", 0, 0)
    [] op = "ReturnCallPrefix"        -> Call(x[3], x[4], x[5], "none", "prefix", x[1], x[2])
    [] op = "ReturnCallVarargsPrefix" -> Call(x[3], x[4], x[5], "varargs", "prefix", x[1], x[2])
    [] op = "ReturnCallDynamicPrefix" -> Call(x[3], x[4], x[5], "dynamic", "prefix", x[1], x[2])
    [] op = "SetListCall"             -> Call(x[3], x[4], x[5], "none", "list", x[1], x[2])
    [] op = "SetListCallVarargs"      -> Call(x[3], x[4], x[5], "varargs", "list", x[1], x[2])
    [] op = "SetListCallDynamic"      -> Call(x[3], x[4], x[5], "dynamic", "list", x[1], x[2])

MeaningOf(p, prototypes, i) ==
  LET op == i.op
      x == i.args
  IN CASE op \in {"LoadConstant", "LoadGlobal"}     -> LoadConstant(x[1], x[2])
       [] op = "StoreGlobal"                        -> StoreGlobal(x[2])
       [] op = "NewTable"                           -> NewTable(x[1])
       [] op = "GetTable"                           -> GetTable(x[1], x[2], x[3])
       [] op = "SetTable"                           -> SetTable(x[1], x[2], x[3])
       [] op = "SetListVarargs"                     -> SetListVarargs(x[1], x[2])
       [] op \in BinaryOps                          -> Binary("Arithmetic", x[1], x[2], x[3])
       [] op \in {"Move", "Not", "Negate", "Length", "BitwiseNot"} -> Move(x[1], x[2])
       [] op = "NewClosure"                         -> ClosureOf(p, prototypes, x)
       [] op = "GetUpvalue"                         -> GetUpvalue(x[1])
       [] op = "SetUpvalue"                         -> SetUpvalue(x[2])
       [] op = "CloseUpvalues"                      -> Close(x[1])
       [] op = "Varargs"                            -> Varargs(x[1], x[2])
       [] op \in {"JumpIfTruthy", "JumpIfFalsy"}    -> JumpIf(x[1], x[2] + 1)
       [] op = "Jump"                               -> Jump(x[1] + 1)
       [] op = "Return"                             -> Return("none", x[1], x[2])
       [] op = "ReturnVarargs"                      -> Return("varargs", x[1], x[2])
       [] op = "ReturnDynamic"                      -> Return("dynamic", 0, 0)
       [] op = "ReturnDynamicPrefix"                -> Return("dynamic", x[1], x[2])
       [] OTHER                                     -> CallMeaning(op, x)

(* The prototype as module Validation has it.  Its features were compared  *)
(* with the instructions before; only the implicit environment is left.    *)
Meaning(p, prototypes) ==
  [code |-> [k \in DOMAIN p.code |-> MeaningOf(p, prototypes, p.code[k])],
   family |-> [registers |-> p.register_count, params |-> p.parameter_count,
               profile |-> p.profile,
               features |-> ToSet(FeatureNames)
                 \ (IF Has(p, "ImplicitEnvironment") THEN {} ELSE {"ImplicitEnvironment"})]]

-----------------------------------------------------------------------------
(***************************************************************************)
(* The operands that are no registers: constants, names of globals, which  *)
(* must be strings, children, and upvalues, also those that the child of a *)
(* closure takes from this function.                                       *)
(***************************************************************************)
ReferencesOK(p, prototypes, i) ==
  LET x == i.args
      isName(n) == n < Len(p.constants) /\ p.constants[n + 1].tag = 4
  IN CASE i.op = "LoadConstant" -> x[2] < Len(p.constants)
       [] i.op = "LoadGlobal"   -> isName(x[2])
       [] i.op = "StoreGlobal"  -> isName(x[1])
       [] i.op = "GetUpvalue"   -> x[2] < Len(p.upvalues)
       [] i.op = "SetUpvalue"   -> x[1] < Len(p.upvalues)
       [] i.op = "NewClosure"   ->
            /\ x[2] < Len(p.children)
            /\ p.children[x[2] + 1] < Len(prototypes)
            /\ \A u \in ToSet(prototypes[p.children[x[2] + 1] + 1].upvalues) :
                 u.tag = 1 => u.index < Len(p.upvalues)
       [] OTHER                 -> TRUE

(* One span per instruction, in the source of the prototype. *)
SourceMapOK(p, sources) ==
  /\ Len(p.source_map) = Len(p.code)
  /\ \E s \in ToSet(sources) :
       /\ s.id = p.source
       /\ \A span \in ToSet(p.source_map) : span[1] = p.source /\ span[3] <= s.byte_len

ValidateDebug(p) ==
  LET covers(d, count) == d.index < count /\ d.start_pc < d.end_pc /\ d.end_pc <= Len(p.code)
  IN /\ \A d \in ToSet(p.locals) : covers(d, p.register_count)
     /\ \A d \in ToSet(p.upvalue_debug) : covers(d, Len(p.upvalues))

PrototypeOK(p, a, limits) ==
  /\ a.format = 2 => Len(p.line_info) = Len(p.code)
  /\ WithinPrototypeLimits(p, limits)
  /\ p.parameter_count <= p.register_count
  /\ FeaturesOK(p)
  /\ SourceMapOK(p, a.sources)
  /\ \A i \in ToSet(p.code) : ReferencesOK(p, a.prototypes, i)
  /\ ValidatePrototype(Meaning(p, a.prototypes))
  /\ ValidateDebug(p)

-----------------------------------------------------------------------------
(***************************************************************************)
(* The prototypes are one tree below the main one: every other prototype   *)
(* has one parent, none is its own ancestor, and all can be reached.       *)
(* Prototypes count from 0.                                                *)
(***************************************************************************)
Children(a, k) == ToSet(a.prototypes[k + 1].children)

Indices(a) == 0 .. Len(a.prototypes) - 1

Descendants(a, from) ==
  LET Reach[n \in 0 .. Len(a.prototypes)] ==
        IF n = 0 THEN from
        ELSE Reach[n - 1] \cup UNION {Children(a, k) : k \in Reach[n - 1]}
  IN Reach[Len(a.prototypes)]

(* validate_prototype_graph. *)
PrototypeGraphOK(a) ==
  /\ \A k \in Indices(a) : k \notin Descendants(a, Children(a, k))
  /\ Descendants(a, {a.main}) = Indices(a)

CapturesOK(a, child, parent) ==
  \A u \in ToSet(child.upvalues) :
    u.index < (IF u.tag = 0 THEN parent.register_count ELSE Len(parent.upvalues))

TreeOK(a) ==
  LET edges == Concat([i \in DOMAIN a.prototypes |-> a.prototypes[i].children]) IN
  /\ ToSet(edges) \subseteq Indices(a)
  /\ IsInjective(edges)
  /\ a.main \notin ToSet(edges)
  /\ PrototypeGraphOK(a)
  /\ \A p \in ToSet(a.prototypes), k \in Indices(a) :
       k \in ToSet(p.children) => CapturesOK(a, a.prototypes[k + 1], p)
  /\ \A k \in Indices(a) \ ToSet(edges) :
       a.prototypes[k + 1].upvalues # << >> => Has(a.prototypes[k + 1], "DumpedFunction")

ValidateArtifact(a, limits) ==
  /\ WithinIdentityLimits(a, limits)
  /\ a.main < Len(a.prototypes)
  /\ WithinAggregateLimits(a, limits)
  /\ EncodedSize(a) <= limits["bytes"]
  /\ IsInjective([i \in DOMAIN a.sources |-> a.sources[i].id])
  /\ \A p \in ToSet(a.prototypes) : PrototypeOK(p, a, limits)
  /\ TreeOK(a)
=============================================================================
