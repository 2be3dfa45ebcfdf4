-------------------------- MODULE ArtifactDecoder ---------------------------
(***************************************************************************)
(* Reading an artifact from bytes nobody vouches for (blu.rs, decode).  A  *)
(* reader carries the bytes, how far it has come, whether all was well so  *)
(* far, the value it read last, the limits it must obey and what it has    *)
(* spent of the totals among them (DecodeBudget).  Every operator here     *)
(* takes a reader and gives back a reader; one that is not ok stays so.    *)
(***************************************************************************)
EXTENDS ArtifactFormat

(* DecodeBudget: the totals, with the name of the limit of each. *)
Totals ==
  {"total_registers", "total_constants", "total_constant_bytes", "total_code",
   "total_children", "total_upvalues", "total_debug_entries", "total_debug_bytes",
   "total_source_map_entries", "decoded_bytes"}

(* What is charged for a record once it is decoded. *)
Charge ==
  [artifact |-> 256, source |-> 96, prototype |-> 256, constant |-> 32, instruction |-> 16,
   child |-> 4, upvalue |-> 4, source_map |-> 12, debug |-> 40]

Fail(r) == [r EXCEPT !.ok = FALSE]
Require(r, values) == IF r.ok /\ r.v \in values THEN r ELSE Fail(r)
Yields(r, v) == [r EXCEPT !.v = v]

(* DecodeBudget::add. *)
Spend(r, total, amount) ==
  IF r.ok /\ r.spent[total] + amount <= r.limits[total]
  THEN [r EXCEPT !.spent[total] = @ + amount] ELSE Fail(r)

Remaining(r) == Len(r.bytes) - r.at

Take(r, n) ==
  IF r.ok /\ n <= Remaining(r)
  THEN [r EXCEPT !.at = @ + n, !.v = SubSeq(r.bytes, r.at + 1, r.at + n)] ELSE Fail(r)

Value(bytes) == Along(LAMBDA sum, byte : sum * Base + byte, 0, Reverse(bytes))

(* What comes next, where all is well. *)
On(r, Next(_)) == IF r.ok THEN Next(r) ELSE r

Number(r, width) == On(Take(r, width), LAMBDA taken : Yields(taken, Value(taken.v)))

(* Reader::u64 of feature bits. *)
BitsIn(bytes) ==
  {ByteBits * (i - 1) + b :
     <<i, b>> \in {x \in (1 .. 8) \X (0 .. ByteBits - 1) : (bytes[x[1]] \div 2 ^ x[2]) % 2 = 1}}

Bits(r) == On(Take(r, 8), LAMBDA taken : Yields(taken, BitsIn(taken.v)))

(* One value after the other, up to the first that cannot be read. *)
Then(acc, next) == <<next, Append(acc[2], next.v)>>

Collected(acc) == Yields(acc[1], acc[2])

(* n values in a row, each read by One. *)
Many(r, n, One(_)) ==
  LET Step(acc, i) == IF acc[1].ok THEN Then(acc, One(acc[1])) ELSE acc
  IN Collected(Along(Step, <<r, << >>>>, [i \in 1 .. n |-> i]))

Numbers(r, widths) ==
  LET Step(acc, width) == IF acc[1].ok THEN Then(acc, Number(acc[1], width)) ELSE acc
  IN Collected(Along(Step, <<r, << >>>>, widths))

(* Reader::count_with_extra: within its limit, and the bytes can be there. *)
Count(r, limit, width, extra) ==
  On(Number(r, 4), LAMBDA count :
    IF count.v <= r.limits[limit] /\ extra <= Remaining(count)
       /\ count.v <= (Remaining(count) - extra) \div width
    THEN count ELSE Fail(count))

SizedBytes(r, limit) == On(Count(r, limit, 1, 0), LAMBDA count : Take(count, count.v))

(* Bytes that are charged for as they are, and to a total of their own. *)
Owned(r, total) == Spend(Spend(r, total, Len(r.v)), "decoded_bytes", Len(r.v))

(* Reader::text, and validate_text of what it becomes.  A byte from the    *)
(* middle of the range on is no character by itself.                       *)
Text(r, limit, maybeEmpty) ==
  On(SizedBytes(r, limit), LAMBDA text :
    IF ToSet(text.v) \subseteq 1 .. Base \div 2 - 1 /\ (maybeEmpty \/ text.v # << >>)
    THEN Spend(text, "decoded_bytes", Len(text.v)) ELSE Fail(text))

(* A counted list: its entries are charged before they are read. *)
List(r, limit, width, total, charge, One(_)) ==
  On(Count(r, limit, width, 0), LAMBDA count :
    On(Spend(Spend(count, total, count.v), "decoded_bytes", charge * count.v), LAMBDA charged :
      Many(charged, count.v, One)))

-----------------------------------------------------------------------------
(***************************************************************************)
(* read_prototype: the instruction behind every tag, in the order of tags. *)
(***************************************************************************)
Binary3(ops) == [i \in DOMAIN ops |-> <<ops[i], <<2, 2, 2>>>>]

ReadFirst ==
  <<<<"LoadConstant", <<2, 4>>>>, <<"Add", <<2, 2, 2>>>>, <<"Return", <<2, 2>>>>,
    <<"FloorDivide", <<2, 2, 2>>>>, <<"Move", <<2, 2>>>>, <<"Not", <<2, 2>>>>>>
  \o Binary3(<<"Subtract", "Multiply", "Divide">>) \o <<<<"Negate", <<2, 2>>>>>>
  \o Binary3(<<"Modulo", "Power">>) \o <<<<"Length", <<2, 2>>>>>>
  \o Binary3(<<"Concatenate", "Equal", "LessThan", "LessEqual">>)
  \o <<<<"JumpIfTruthy", <<2, 4>>>>, <<"JumpIfFalsy", <<2, 4>>>>, <<"Jump", <<4>>>>>>

ReadSecond ==
  <<<<"LoadGlobal", <<2, 4>>>>, <<"StoreGlobal", <<4, 2>>>>, <<"NewTable", <<2>>>>,
    <<"GetTable", <<2, 2, 2>>>>, <<"SetTable", <<2, 2, 2>>>>, <<"Call", <<2, 2, 2, 2>>>>,
    <<"NewClosure", <<2, 2>>>>, <<"GetUpvalue", <<2, 2>>>>, <<"SetUpvalue", <<2, 2>>>>,
    <<"CallResults", <<2, 2, 2, 2, 2>>>>, <<"ReturnCall", <<2, 2, 2>>>>,
    <<"ReturnCallPrefix", <<2, 2, 2, 2, 2>>>>, <<"Varargs", <<2, 2>>>>,
    <<"ReturnVarargs", <<2, 2>>>>, <<"CallVarargsResults", <<2, 2, 2, 2, 2>>>>,
    <<"ReturnCallVarargs", <<2, 2, 2>>>>, <<"ReturnCallVarargsPrefix", <<2, 2, 2, 2, 2>>>>>>

ReadThird ==
  <<<<"SetListVarargs", <<2, 4>>>>, <<"SetListCall", <<2, 4, 2, 2, 2>>>>,
    <<"SetListCallVarargs", <<2, 4, 2, 2, 2>>>>>>
  \o Binary3(<<"BitwiseAnd", "BitwiseOr", "BitwiseExclusiveOr", "ShiftLeft", "ShiftRight">>)
  \o <<<<"BitwiseNot", <<2, 2>>>>>>
  \o Binary3(<<"CallAllResults", "CallVarargsAllResults">>)
  \o <<<<"CallDynamicResults", <<2, 2, 2, 2, 2>>>>, <<"ReturnCallDynamic", <<2, 2, 2>>>>,
       <<"ReturnCallDynamicPrefix", <<2, 2, 2, 2, 2>>>>, <<"CallDynamicAllResults", <<2, 2, 2>>>>,
       <<"SetListCallDynamic", <<2, 4, 2, 2, 2>>>>, <<"CloseUpvalues", <<2>>>>,
       <<"ReturnDynamic", << >>>>, <<"ReturnDynamicPrefix", <<2, 2>>>>>>

ReadLayout == ReadFirst \o ReadSecond \o ReadThird

ReadOperands(r, layout) ==
  On(Numbers(r, layout[2]), LAMBDA args : Yields(args, Instruction(layout[1], args.v)))

ReadOperation(r) ==
  On(Number(r, 1), LAMBDA tag :
    IF tag.v + 1 \in DOMAIN ReadLayout THEN ReadOperands(tag, ReadLayout[tag.v + 1]) ELSE Fail(tag))

ReadConstantOf(r, tag) ==
  CASE tag \in 0 .. 2 -> Yields(r, Constant(tag, << >>))
    [] tag = 4        -> On(Owned(SizedBytes(r, "constant_bytes"), "total_constant_bytes"),
                            LAMBDA text : Yields(text, Constant(4, text.v)))
    [] tag \in {3, 5} -> On(Take(r, 8), LAMBDA word : Yields(word, Constant(tag, word.v)))

ReadConstant(r) ==
  On(Require(Number(r, 1), 0 .. 5), LAMBDA tag : ReadConstantOf(tag, tag.v))

ReadUpvalue(r) ==
  On(Numbers(r, <<1, 2>>), LAMBDA both :
    IF both.v[1] \in {0, 1} THEN Yields(both, [tag |-> both.v[1], index |-> both.v[2]]) ELSE Fail(both))

(* ByteSpan::new refuses a span that ends before it starts. *)
ReadSpan(r) ==
  On(Numbers(r, <<4, 4, 4>>), LAMBDA span : IF span.v[2] <= span.v[3] THEN span ELSE Fail(span))

ReadDebug(r) ==
  On(Owned(SizedBytes(r, "debug_name_bytes"), "total_debug_bytes"), LAMBDA name :
    On(Numbers(name, <<2, 4, 4>>), LAMBDA rest :
      Yields(rest, [name |-> name.v, index |-> rest.v[1], start_pc |-> rest.v[2], end_pc |-> rest.v[3]])))

ReadWord(r) == Number(r, 4)

(* As many lines as instructions, in the newer format. *)
ReadLineInfo(r, format, code) ==
  IF format # 2 THEN Yields(r, << >>)
  ELSE On(Require(Count(r, "code", 4, 0), {Len(code)}), LAMBDA count :
         On(Spend(count, "decoded_bytes", (Charge.source_map \div 3) * count.v), LAMBDA charged :
           Many(charged, count.v, ReadWord)))

(* The lines a function is defined at: in format 2 ahead of the features,  *)
(* in format 1 behind them, and only where they were stripped.             *)
ReadEarlyLines(r, format) == IF format = 2 THEN Numbers(r, <<4, 4>>) ELSE Yields(r, <<0, 0>>)
ReadLateLines(r, format, early) ==
  IF format = 1 /\ FeatureBit("StrippedDebugLines") \in r.v THEN Numbers(r, <<4, 4>>) ELSE Yields(r, early)

ReadRegisters(r) ==
  On(Require(Number(r, 2), 0 .. r.limits["registers"]), LAMBDA count : Spend(count, "total_registers", count.v))

ReadDebugList(r) == List(r, "debug_entries", 14, "total_debug_entries", Charge.debug, ReadDebug)

(* A prototype in four parts, each of which gives a part of the record. *)
ReadKind(r) ==
  On(Require(Number(r, 1), DOMAIN Profiles), LAMBDA profile :
  On(Require(Number(profile, 1), {0, 1}), LAMBDA vararg :
  On(Number(Require(Number(vararg, 2), {0}), 4), LAMBDA source :
    Yields(source, [profile |-> Profiles[profile.v], is_vararg |-> vararg.v = 1, source |-> source.v]))))

ReadShape(r, format) ==
  On(ReadRegisters(r), LAMBDA register :
  On(Number(register, 2), LAMBDA parameter :
  On(ReadEarlyLines(parameter, format), LAMBDA early :
  On(Bits(early), LAMBDA features :
  On(ReadLateLines(features, format, early.v), LAMBDA lines :
    Yields(lines, [register_count |-> register.v, parameter_count |-> parameter.v, features |-> features.v,
                   line_defined |-> lines.v[1], last_line_defined |-> lines.v[2]]))))))

ReadCode(r) ==
  On(List(r, "constants", 1, "total_constants", Charge.constant, ReadConstant), LAMBDA constants :
  On(List(constants, "upvalues", 3, "total_upvalues", Charge.upvalue, ReadUpvalue), LAMBDA upvalues :
  On(List(upvalues, "children", 4, "total_children", Charge.child, ReadWord), LAMBDA children :
  On(List(children, "code", 3, "total_code", Charge.instruction, ReadOperation), LAMBDA code :
    Yields(code, [constants |-> constants.v, upvalues |-> upvalues.v, children |-> children.v,
                  code |-> code.v])))))

ReadDebugInfo(r, format, code) ==
  On(List(r, "code", 12, "total_source_map_entries", Charge.source_map, ReadSpan), LAMBDA spans :
  On(ReadLineInfo(spans, format, code), LAMBDA line_info :
  On(ReadDebugList(line_info), LAMBDA locals :
  On(ReadDebugList(locals), LAMBDA named :
    Yields(named, [source_map |-> spans.v, line_info |-> line_info.v, locals |-> locals.v,
                   upvalue_debug |-> named.v])))))

ReadPrototype(r, format) ==
  On(ReadKind(r), LAMBDA kind :
  On(ReadShape(kind, format), LAMBDA shape :
  On(ReadCode(shape), LAMBDA code :
  On(ReadDebugInfo(code, format, code.v.code), LAMBDA debug :
    Yields(debug, kind.v @@ shape.v @@ code.v @@ debug.v)))))

ReadRevision(r) ==
  IF r.v = 0 THEN Yields(r, << >>)
  ELSE On(Text(r, "compiler_revision", FALSE), LAMBDA revision : Yields(revision, <<revision.v>>))

ReadCompiler(r) ==
  On(Take(r, 16), LAMBDA id :
  On(Text(id, "compiler_name", FALSE), LAMBDA name :
  On(Text(name, "compiler_version", FALSE), LAMBDA version :
  On(Require(Number(version, 1), {0, 1}), LAMBDA presence :
  On(ReadRevision(presence), LAMBDA revision :
    Yields(revision, [id |-> id.v, name |-> name.v, version |-> version.v, revision |-> revision.v]))))))

ReadSource(r) ==
  On(Number(r, 4), LAMBDA id :
  On(Text(id, "source_name", TRUE), LAMBDA name :
  On(Number(name, 4), LAMBDA length :
  On(Take(length, 32), LAMBDA digest :
    Yields(digest, [id |-> id.v, name |-> name.v, byte_len |-> length.v, digest |-> digest.v])))))

(* Mutant: what follows the last prototype is ignored. *)
AllRead(r) == r.ok
(* reader.offset != bytes.len() is an error. *)
NothingTrails(r) == r.ok /\ Remaining(r) = 0

Reader(bytes, limits) ==
  [bytes |-> bytes, at |-> 0, v |-> 0, limits |-> limits,
   ok |-> Len(bytes) <= limits["bytes"] /\ Charge.artifact <= limits["decoded_bytes"],
   spent |-> [t \in Totals |-> IF t = "decoded_bytes" THEN Charge.artifact ELSE 0]]

(* n entries, each charged before the first of them is read. *)
Charged(r, charge, n, One(_)) ==
  On(Spend(r, "decoded_bytes", charge * n), LAMBDA charged : Many(charged, n, One))

ReadVersion(r) ==
  On(Require(Number(Require(Take(r, 4), {Magic}), 2), {1, 2}), LAMBDA version :
  On(Require(Number(version, 2), {0}), LAMBDA reserved : Yields(reserved, version.v)))

ReadSources(r) ==
  On(Count(r, "sources", 44, 0), LAMBDA count : Charged(count, Charge.source, count.v, ReadSource))

ReadPrototypes(r, format) ==
  On(Count(r, "prototypes", 48, 4), LAMBDA count :
  On(Number(count, 4), LAMBDA main :
  On(Charged(main, Charge.prototype, count.v, LAMBDA q : ReadPrototype(q, format)), LAMBDA prototypes :
    Yields(prototypes, [prototypes |-> prototypes.v, main |-> main.v]))))

ReadArtifact(r) ==
  On(ReadVersion(r), LAMBDA version :
  On(ReadCompiler(version), LAMBDA compiler :
  On(ReadSources(compiler), LAMBDA sources :
  On(ReadPrototypes(sources, version.v), LAMBDA all :
    Yields(all, [format |-> version.v, compiler |-> compiler.v, sources |-> sources.v] @@ all.v)))))

Decoded(r) == IF NothingTrails(r) THEN [ok |-> TRUE, artifact |-> r.v] ELSE [ok |-> FALSE]

Decode(bytes, limits) == Decoded(ReadArtifact(Reader(bytes, limits)))
=============================================================================
