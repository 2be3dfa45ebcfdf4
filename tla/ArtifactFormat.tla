--------------------------- MODULE ArtifactFormat ---------------------------
(***************************************************************************)
(* Artifacts as the compiler builds and the virtual machine keeps them,    *)
(* and the bytes they are stored as (blu.rs, encode).  A byte is a number  *)
(* below 2^ByteBits and numbers are little-endian; a 64-bit constant is    *)
(* carried as its eight bytes and a set of features as a set of bits.      *)
(*                                                                         *)
(* An instruction is an op and the sequence of its operands, in the order  *)
(* of the wire.  The encoder, the decoder and the size of an encoding have *)
(* their own tables of the fifty-six instructions in the source; they are  *)
(* written down separately here as well.                                   *)
(***************************************************************************)
EXTENDS Integers, Sequences, SequencesExt, FiniteSets, TLC

CONSTANT ByteBits    \* 8 in the code; u32 values must fit the integers of TLC

ASSUME ByteBitsAssumption == ByteBits \in 6 .. 8

Base == 2 ^ ByteBits

(* A left fold along the positions of a sequence, one by one. *)
Along(Op(_, _), base, list) ==
  LET upTo[n \in 0 .. Len(list)] == IF n = 0 THEN base ELSE Op(upTo[n - 1], list[n])
  IN upTo[Len(list)]

Concat(parts) == Along(LAMBDA out, part : out \o part, << >>, parts)
Each(Put(_), list) == Concat([i \in DOMAIN list |-> Put(list[i])])

(* put_u16, put_u32: n in width bytes, the lowest first. *)
RECURSIVE Put(_, _)
Put(width, n) == IF width = 0 THEN << >> ELSE <<n % Base>> \o Put(width - 1, n \div Base)

(* put_u64 of a set of bits. *)
PutBits(bits) ==
  [i \in 1 .. 8 |->
     Along(LAMBDA sum, b : sum + (IF ByteBits * (i - 1) + b \in bits THEN 2 ^ b ELSE 0),
           0, [j \in 1 .. ByteBits |-> j - 1])]

PutBytes(bytes) == Put(4, Len(bytes)) \o bytes

FeatureNames ==
  <<"Baseline", "IntegerConstants", "FloorDivision", "Concatenation", "Comparisons",
    "ForwardBranches", "BackwardBranches", "Globals", "Tables", "FixedCalls", "Closures",
    "FixedMultiResults", "ReturnCalls", "Varargs", "DynamicCallResults", "BitwiseOperators",
    "DumpedFunction", "ImplicitEnvironment", "StrippedDebugLines">>
FeatureBit(name) == IndexFirstSubSeq(<<name>>, FeatureNames) - 1
Supported == 0 .. Len(FeatureNames) - 1
Has(p, name) == FeatureBit(name) \in p.features

Profiles == <<"Blu", "Luau", "Lua51", "Lua52", "Lua53", "Lua54", "Lua55">>
ProfileTag(profile) == IndexFirstSubSeq(<<profile>>, Profiles)

-----------------------------------------------------------------------------
(***************************************************************************)
(* put_prototype: the tag and the operand widths of every instruction.     *)
(***************************************************************************)
Two == <<2, 2>>
Three == <<2, 2, 2>>
Five == <<2, 2, 2, 2, 2>>

PutLoads ==
  [LoadConstant |-> <<0, <<2, 4>>>>, LoadGlobal |-> <<20, <<2, 4>>>>,
   StoreGlobal |-> <<21, <<4, 2>>>>, NewTable |-> <<22, <<2>>>>, GetTable |-> <<23, Three>>,
   SetTable |-> <<24, Three>>, SetListVarargs |-> <<37, <<2, 4>>>>]

PutListCalls ==
  [SetListCall |-> <<38, <<2, 4, 2, 2, 2>>>>, SetListCallVarargs |-> <<39, <<2, 4, 2, 2, 2>>>>,
   SetListCallDynamic |-> <<52, <<2, 4, 2, 2, 2>>>>]

PutCalls ==
  [Call |-> <<25, <<2, 2, 2, 2>>>>, CallResults |-> <<29, Five>>,
   CallVarargsResults |-> <<34, Five>>, CallAllResults |-> <<46, Three>>,
   CallVarargsAllResults |-> <<47, Three>>, CallDynamicResults |-> <<48, Five>>,
   CallDynamicAllResults |-> <<51, Three>>]

PutReturnCalls ==
  [ReturnCall |-> <<30, Three>>, ReturnCallPrefix |-> <<31, Five>>,
   ReturnCallVarargs |-> <<35, Three>>, ReturnCallVarargsPrefix |-> <<36, Five>>,
   ReturnCallDynamic |-> <<49, Three>>, ReturnCallDynamicPrefix |-> <<50, Five>>]

PutClosures ==
  [NewClosure |-> <<26, Two>>, GetUpvalue |-> <<27, Two>>, SetUpvalue |-> <<28, Two>>,
   CloseUpvalues |-> <<53, <<2>>>>, Varargs |-> <<32, Two>>, ReturnVarargs |-> <<33, Two>>,
   ReturnDynamic |-> <<54, << >>>>, ReturnDynamicPrefix |-> <<55, Two>>]

PutOperators ==
  [Add |-> <<1, Three>>, Subtract |-> <<6, Three>>, Multiply |-> <<7, Three>>,
   Divide |-> <<8, Three>>, Modulo |-> <<10, Three>>, Power |-> <<11, Three>>,
   FloorDivide |-> <<3, Three>>, BitwiseAnd |-> <<40, Three>>, BitwiseOr |-> <<41, Three>>,
   BitwiseExclusiveOr |-> <<42, Three>>, ShiftLeft |-> <<43, Three>>,
   ShiftRight |-> <<44, Three>>, Move |-> <<4, Two>>, Not |-> <<5, Two>>,
   Negate |-> <<9, Two>>, Length |-> <<12, Two>>, BitwiseNot |-> <<45, Two>>]

PutCompares ==
  [Concatenate |-> <<13, Three>>, Equal |-> <<14, Three>>, LessThan |-> <<15, Three>>,
   LessEqual |-> <<16, Three>>, JumpIfTruthy |-> <<17, <<2, 4>>>>,
   JumpIfFalsy |-> <<18, <<2, 4>>>>, Jump |-> <<19, <<4>>>>, Return |-> <<2, Two>>]

PutLayout ==
  PutLoads @@ PutListCalls @@ PutCalls @@ PutReturnCalls @@ PutClosures @@ PutOperators
  @@ PutCompares

Instruction(op, args) == [op |-> op, args |-> args]

PutInstruction(i) ==
  <<PutLayout[i.op][1]>>
  \o Concat([n \in DOMAIN i.args |-> Put(PutLayout[i.op][2][n], i.args[n])])

-----------------------------------------------------------------------------
(***************************************************************************)
(* The rest of put_prototype.  Nil, FALSE and TRUE are constants of one    *)
(* byte; numbers and integers are eight bytes; strings have a length.      *)
(***************************************************************************)
Constant(tag, bytes) == [tag |-> tag, bytes |-> bytes]
Nil == Constant(0, << >>)
String(bytes) == Constant(4, bytes)

PutConstant(c) == <<c.tag>> \o (IF c.tag = 4 THEN PutBytes(c.bytes) ELSE c.bytes)

(* [tag |-> 0] captures a register of the parent, [tag |-> 1] an upvalue. *)
PutUpvalue(u) == <<u.tag>> \o Put(2, u.index)

PutSpan(span) == Put(4, span[1]) \o Put(4, span[2]) \o Put(4, span[3])

PutDebug(d) == PutBytes(d.name) \o Put(2, d.index) \o Put(4, d.start_pc) \o Put(4, d.end_pc)

PutList(PutOne(_), list) == Put(4, Len(list)) \o Each(PutOne, list)

PutLines(p) == Put(4, p.line_defined) \o Put(4, p.last_line_defined)

PutWord(n) == Put(4, n)

PutPrototype(p, format) ==
  Concat(<<
    <<ProfileTag(p.profile), IF p.is_vararg THEN 1 ELSE 0>>, Put(2, 0), Put(4, p.source),
    Put(2, p.register_count), Put(2, p.parameter_count),
    IF format = 2 THEN PutLines(p) ELSE << >>,
    PutBits(p.features),
    IF format = 1 /\ Has(p, "StrippedDebugLines") THEN PutLines(p) ELSE << >>,
    PutList(PutConstant, p.constants), PutList(PutUpvalue, p.upvalues),
    PutList(PutWord, p.children), PutList(PutInstruction, p.code),
    PutList(PutSpan, p.source_map),
    IF format = 2 THEN PutList(PutWord, p.line_info) ELSE << >>,
    PutList(PutDebug, p.locals), PutList(PutDebug, p.upvalue_debug)>>)

PutCompiler(c) ==
  c.id \o PutBytes(c.name) \o PutBytes(c.version)
  \o (IF c.revision = << >> THEN <<0>> ELSE <<1>> \o PutBytes(c.revision[1]))

PutSource(s) == Put(4, s.id) \o PutBytes(s.name) \o Put(4, s.byte_len) \o s.digest

(* B, L, U, NUL: any four bytes that begin no other kind of chunk. *)
Magic == <<1, 2, 3, 0>>

Encode(a) ==
  LET PutOne(p) == PutPrototype(p, a.format)
  IN Magic \o Put(2, a.format) \o Put(2, 0) \o PutCompiler(a.compiler)
     \o PutList(PutSource, a.sources) \o Put(4, Len(a.prototypes)) \o Put(4, a.main)
     \o Each(PutOne, a.prototypes)

-----------------------------------------------------------------------------
(***************************************************************************)
(* encoded_size.                                                           *)
(***************************************************************************)
Total(Size(_), list) == Along(LAMBDA sum, x : sum + Size(x), 0, list)

Sized(n, ops) == [op \in ops |-> n]

SizeOf ==
  Sized(7, {"LoadConstant", "LoadGlobal", "StoreGlobal", "GetTable", "SetTable",
            "SetListVarargs", "Add", "Subtract", "Multiply", "Divide", "Modulo", "Power",
            "FloorDivide", "BitwiseAnd", "BitwiseOr", "BitwiseExclusiveOr", "ShiftLeft",
            "ShiftRight", "Concatenate", "Equal", "LessThan", "LessEqual", "CallAllResults",
            "CallVarargsAllResults", "CallDynamicAllResults", "ReturnCall",
            "ReturnCallVarargs", "ReturnCallDynamic", "JumpIfTruthy", "JumpIfFalsy"})
  @@ Sized(9, {"Call"})
  @@ Sized(11, {"CallResults", "CallVarargsResults", "CallDynamicResults", "ReturnCallPrefix",
                "ReturnCallVarargsPrefix", "ReturnCallDynamicPrefix"})
  @@ Sized(13, {"SetListCall", "SetListCallVarargs", "SetListCallDynamic"})
  @@ Sized(5, {"NewClosure", "GetUpvalue", "SetUpvalue", "Varargs", "ReturnVarargs",
               "ReturnDynamicPrefix", "Jump", "Move", "Not", "Negate", "BitwiseNot", "Length",
               "Return"})
  @@ Sized(3, {"NewTable", "CloseUpvalues"})
  @@ Sized(1, {"ReturnDynamic"})

(* Mutant: the size of the newer format is that of the older one. *)
PrototypeSizeOld(p, format) ==
  LET constant(c) == CASE c.tag \in 0 .. 2 -> 1
                       [] c.tag \in {3, 5} -> 9
                       [] c.tag = 4 -> 5 + Len(c.bytes)
      instruction(i) == SizeOf[i.op]
      debug(d) == 14 + Len(d.name)
  IN 24 + (IF Has(p, "StrippedDebugLines") THEN 8 ELSE 0)
     + Total(constant, p.constants)
     + 4 + 3 * Len(p.upvalues) + 4 + 4 * Len(p.children)
     + 4 + Total(instruction, p.code) + 4 + 12 * Len(p.source_map)
     + 4 + Total(debug, p.locals) + 4 + Total(debug, p.upvalue_debug)

PrototypeSize(p, format) ==
  LET constant(c) == CASE c.tag \in 0 .. 2 -> 1
                       [] c.tag \in {3, 5} -> 9
                       [] c.tag = 4 -> 5 + Len(c.bytes)
      instruction(i) == SizeOf[i.op]
      debug(d) == 14 + Len(d.name)
  IN 24 + (IF format = 2 \/ Has(p, "StrippedDebugLines") THEN 8 ELSE 0)
     + Total(constant, p.constants)
     + 4 + 3 * Len(p.upvalues) + 4 + 4 * Len(p.children)
     + 4 + Total(instruction, p.code) + 4 + 12 * Len(p.source_map)
     + (IF format = 2 THEN 4 + 4 * Len(p.line_info) ELSE 0)
     + 4 + Total(debug, p.locals) + 4 + Total(debug, p.upvalue_debug)

EncodedSize(a) ==
  LET source(s) == 44 + Len(s.name)
      prototype(p) == PrototypeSize(p, a.format)
  IN 8 + 20 + Len(a.compiler.name) + 5 + Len(a.compiler.version)
     + (IF a.compiler.revision = << >> THEN 0 ELSE 4 + Len(a.compiler.revision[1]))
     + 4 + Total(source, a.sources) + 8 + Total(prototype, a.prototypes)
=============================================================================
