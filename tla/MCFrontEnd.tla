----------------------------- MODULE MCFrontEnd ------------------------------
(***************************************************************************)
(* Programs for the front end.                                             *)
(***************************************************************************)
EXTENDS FrontEnd

f == Name("f")
g == Name("g")
t == Name("t")
x == Name("x")
y == Name("y")
one == Constant("1")
two == Constant("2")
nil == Constant("nil")
yes == Constant("true")

C(e, args) == CallOf(e, args)
Do1(e) == CallStatement(e)
Say(e) == CallStatement(CallOf(g, <<e>>))
Let(n, e) == Local(n, "regular", <<e>>)
Closing(n, e) == Local(n, "close", <<e>>)
Lambda(params, body) == Function(params, FALSE, body)

On(profile, body) == [profile |-> profile, text |-> TextOfBlock(body), bodies |-> {body}]
Spelled(profile, text, body) == [profile |-> profile, text |-> text, bodies |-> {body}]
Nonsense(profile, text) == [profile |-> profile, text |-> text, bodies |-> {}]


z == Name("z")
h == Name("h")
When(c, body) == If(<<Clause(c, body)>>)
Ask == C(f, << >>)

(* Every sequence of n statements of an alphabet. *)
Sequences(alphabet, n) == [1 .. n -> alphabet]

(***************************************************************************)
(* Lists of expressions, wherever a program has one.                       *)
(***************************************************************************)
Atoms == {x, one, Ask, Vararg, Group(Ask)}

Lists == UNION {Sequences(Atoms, n) : n \in 0 .. 2}

ListPrograms ==
  UNION {
    {<<Let("x", t), Do1(CallOf(g, l)), ReturnOf(l)>>,
     <<Let("x", t), ReturnOf(<<Method(x, "m", l)>>)>>,
     <<Let("x", t), ReturnOf(<<x, CallOf(x, l)>>)>>,
     <<Let("x", t), Let("y", Table([j \in DOMAIN l |-> ArrayField(l[j])])), ReturnOf(<<y>>)>>} : l \in Lists}
  \cup UNION {
    {<<Let("x", t), LocalList(<<"x", "y", "z">>, [j \in 1 .. 3 |-> "regular"], l), ReturnOf(<<x, y, z>>)>>,
     <<Let("x", t), AssignList(<<x, y>>, l), ReturnOf(<<x>>)>>,
     <<Let("x", t), GenericFor(<<"y", "z">>, l, <<Say(z)>>)>>} : l \in Lists \ {<< >>}}

MCLists == {On(p, b) : p \in {"Luau", "Lua51", "Lua53", "Lua54"}, b \in ListPrograms}

(***************************************************************************)
(* Operators.                                                              *)
(***************************************************************************)
Operands == {x, one, nil, Ask, UnaryOf("not", x), UnaryOf("-", one)}

OperatorPrograms ==
  {<<Let("x", t), Let("y", BinaryOf(op, a, b)), ReturnOf(<<y, UnaryOf("#", x)>>)>> :
     op \in {"+", "..", "==", "~=", "<", ">=", "and", "or"}, a \in Operands, b \in Operands}
  \cup {<<Let("x", t), When(BinaryOf(op, a, b), <<Say(one)>>)>> :
          op \in {"==", "and", "or"}, a \in Operands, b \in Operands}

(***************************************************************************)
(* Loops, with a closure that outlives a round of the body.                *)
(***************************************************************************)
Keep(n) == Assign(h, Lambda(<<"y">>, <<Let("z", n), Assign(n, y), ReturnOf(<<z>>)>>))
Recall(e) == When(h, <<Say(C(h, <<e>>))>>)

LoopsOver(body) ==
  {While(Ask, body), Repeat(body, Ask), NumericFor("i", one, two, << >>, body),
   GenericFor(<<"i">>, <<f, t>>, body)}

LoopAlphabet == {Keep(x), Recall(one), Say(x), When(Ask, <<Break>>), Do(<<Let("w", C(g, << >>)), Keep(Name("w"))>>)}

LoopPrograms(alphabet) ==
  UNION {{<<Local("h", "regular", << >>), loop, Recall(two)>> :
            loop \in LoopsOver(<<Let("x", C(g, << >>))>> \o b)} : b \in Sequences(alphabet, 2)}

MCLoops ==
  {On("Luau", b) : b \in LoopPrograms(LoopAlphabet \cup {When(Ask, <<Continue>>)})}
  \cup {On("Lua54", b) : b \in LoopPrograms(LoopAlphabet \cup {When(Ask, <<ReturnOf(<<x>>)>>)})}

(***************************************************************************)
(* goto.                                                                   *)
(***************************************************************************)
GotoAlphabet ==
  {Label("a"), Goto("a"), When(Ask, <<Goto("a")>>), Let("x", one), Say(x),
   Do(<<Label("a"), Say(one)>>), Do(<<Let("x", t), Goto("a")>>)}

(* An unconditional goto leads forward, so that control reaches the end. *)
ReachesEnd(b) ==
  \A j \in DOMAIN b : b[j] \in {Goto("a"), Do(<<Let("x", t), Goto("a")>>)} =>
    \E i \in j + 1 .. Len(b) : b[i] = Label("a")

MCGotos ==
  {On(p, b) : p \in {"Lua52", "Lua54"},
              b \in {b \in Sequences(GotoAlphabet, 3) \cup Sequences(GotoAlphabet, 4) : ReachesEnd(b)}}

(***************************************************************************)
(* Variables: two functions deep, each level declares, reads and writes.   *)
(***************************************************************************)
Innermost == {Say(x), Assign(x, one), Let("x", y), Assign(y, x)}

Inside(a, b, c, d) ==
  <<Let("x", t), a,
    LocalFunction("h", Lambda(<<"y">>, <<b, LocalFunction("k", Lambda(<< >>, <<c, Say(x)>>)), Do1(C(Name("k"), << >>)), d>>)),
    Do1(C(h, <<x>>)), Say(x)>>

ScopePrograms == {Inside(a, b, c, d) : a \in {Say(x), Assign(x, one)}, b \in Innermost, c \in Innermost, d \in {Say(x), Assign(x, two)}}

MCScopes == {On(p, b) : p \in {"Luau", "Lua53"}, b \in ScopePrograms}

(***************************************************************************)
(* Assignments to lists of places.                                         *)
(***************************************************************************)
Places == {x, y, Index(t, x), Index(x, C(g, << >>))}

AssignPrograms ==
  {<<Let("x", t), LocalFunction("h", Lambda(<< >>, <<AssignList(to, from), Say(x)>>)), Do1(C(h, << >>)), AssignList(to, from), Say(x)>> :
     to \in Sequences(Places, 2), from \in {<<x, y>>, <<Ask>>, <<one, x, Ask>>, <<x, Ask>>}}
  \cup {<<Let("x", t), Compound(op, to, e), Say(x)>> : op \in {"+", ".."}, to \in Places, e \in {x, Ask}}

MCAssigns == {On(p, b) : p \in {"Luau", "Lua55"}, b \in AssignPrograms}

(***************************************************************************)
(* Declarations of globals.                                                *)
(***************************************************************************)
GlobalAlphabet ==
  {Global(<<"x">>, <<"regular">>, << >>), Global(<<"x", "g">>, <<"const", "regular">>, <<Vararg>>), GlobalAll("regular"),
   Let("x", one), Assign(x, two), Say(x), FunctionAt(<<"x">>, FALSE, TRUE, Lambda(<< >>, <<ReturnOf(<<x>>)>>)),
   Do(<<Global(<<"f">>, <<"regular">>, << >>), Assign(Name("f"), one)>>), GlobalAll("const")}

MCGlobals == {On("Lua55", b) : b \in Sequences(GlobalAlphabet, 3)}

(***************************************************************************)
(* Values to be closed.                                                    *)
(***************************************************************************)
CloseAlphabet ==
  {Closing("x", Ask), Closing("x", nil), Do(<<Closing("y", t), Say(one)>>), When(Ask, <<Goto("a")>>),
   When(Ask, <<ReturnOf(<<one, C(g, << >>)>>)>>), When(Ask, <<ReturnOf(<<C(g, << >>)>>)>>), When(Ask, <<ReturnOf(<<Vararg>>)>>),
   When(Ask, <<Closing("z", g), ReturnOf(<<Name("z")>>)>>)}

MCClosing ==
  {On("Lua54", <<Do(b), Say(two)>>) : b \in Sequences(CloseAlphabet \ {When(Ask, <<Goto("a")>>)}, 2)}
  \cup {On("Lua54", <<Do(b), Label("a"), Say(two)>>) : b \in Sequences(CloseAlphabet, 2)}
  \cup {On("Lua54", <<loop, Say(two)>>) :
          loop \in UNION {LoopsOver(b \o <<When(Ask, <<Break>>), Say(one)>>) : b \in Sequences(CloseAlphabet \ {When(Ask, <<Goto("a")>>)}, 1)}}
  \cup {On("Lua55", <<GenericFor(<<"y">>, <<Ask>>, <<When(Ask, <<e>>), Say(y)>>), Say(two)>>) :
          e \in {Break, ReturnOf(<<y>>), ReturnOf(<<C(y, << >>)>>)}}

(***************************************************************************)
(* The steps of numeric loops, and controls that are not numbers.          *)
(***************************************************************************)
Steps == {<<two>>, <<UnaryOf("-", one)>>, <<Ask>>, <<UnaryOf("-", Group(UnaryOf("-", two)))>>}

CountPrograms ==
  {<<NumericFor("x", from, to, step, <<Say(x), Assign(x, one), When(Ask, <<ReturnOf(<<x>>)>>)>>), Say(two)>> :
     from \in {one, Ask, two}, to \in {two, Ask, one}, step \in Steps}

MCCounts ==
  {On(p, b) : p \in {"Lua51", "Lua54"}, b \in CountPrograms}
  \cup {On("Lua53", <<NumericFor("x", one, two, <<Constant("0")>>, <<Say(x)>>)>>)}

(***************************************************************************)
(* Functions as fields and methods, varargs, and the environment.          *)
(***************************************************************************)
Variadic(params, body) == Function(params, TRUE, body)
Named(params, n, body) == [Variadic(params, body) EXCEPT !.vname = n]
Gives == {<<Ask>>, <<one, Vararg>>, <<one, two, x>>, << >>}

FunctionPrograms ==
  {<<Let("x", t), FunctionAt(path, method, FALSE, Lambda(<<"y">>, <<Say(Name("self")), ReturnOf(<<x, y>>)>>)), Say(x)>> :
     path \in {<<"x">>, <<"z">>, <<"x", "m">>, <<"t", "a", "m">>}, method \in {FALSE}}
  \cup {<<Let("x", t), FunctionAt(path, TRUE, FALSE, Lambda(<<"y">>, <<Say(Name("self"))>>)), Say(x)>> :
          path \in {<<"x", "m">>, <<"t", "a", "m">>}}
  \cup {<<Let("x", t), LocalFunction("h", Variadic(<<"y">>, <<e>>)), Say(C(h, give))>> :
          give \in Gives,
          e \in {ReturnOf(<<y, Vararg>>), ReturnOf(<<Vararg>>), ReturnOf(<<C(g, <<y, Vararg>>)>>),
                 ReturnOf(<<Method(y, "m", <<Vararg>>), Vararg>>), Say(Table(<<ArrayField(y), ArrayField(Vararg)>>)),
                 LocalList(<<"y", "z">>, <<"regular", "regular">>, <<Vararg>>), Say(Group(Vararg))}}

MCFunctions ==
  {On(p, b) : p \in {"Luau", "Lua51", "Lua53"}, b \in FunctionPrograms}
  \cup {On("Lua55", <<Let("x", t), LocalFunction("h", Named(<<"y">>, "z", <<Say(z), ReturnOf(<<Index(z, one), Vararg>>)>>)),
                      ReturnOf(<<C(h, give)>>)>>) : give \in Gives}
  \cup {On("Lua53", <<Local("_ENV", "regular", <<e>>), a, Do1(C(Name("h"), << >>)), Say(x)>>) :
          e \in {t, Table(<< >>)},
          a \in {LocalFunction("h", Lambda(<< >>, <<Assign(x, y), Say(x)>>)), Assign(h, Lambda(<<"_ENV">>, <<Assign(x, y)>>)),
                 FunctionAt(<<"h">>, FALSE, FALSE, Lambda(<< >>, <<ReturnOf(<<C(x, <<y>>)>>)>>))}}

(***************************************************************************)
(* Constructors of tables.                                                 *)
(***************************************************************************)
Fields ==
  {ArrayField(one), ArrayField(Ask), ArrayField(Vararg), NamedField("a", x), NamedField("b", one),
   IndexedField(x, Ask), IndexedField(two, x), NamedField("a", Table(<<ArrayField(two)>>))}

MCTables ==
  {On(p, <<Let("x", t), Let("y", Table(fs)), ReturnOf(<<y, Table(fs)>>)>>) :
     p \in {"Lua51", "Lua54"}, fs \in UNION {Sequences(Fields, n) : n \in 1 .. 3}}

(***************************************************************************)
(* What only some profiles have.                                           *)
(***************************************************************************)
MCDialect ==
  {On("Luau", <<Let("x", t), Let("y", e), ReturnOf(<<y, e>>)>>) :
     e \in {IfElse(a, b, c) : a \in {x, Ask, UnaryOf("not", Ask)}, b \in {x, Ask, nil}, c \in {one, Ask, Vararg}}
           \cup {Interpolated(<<Constant(a), x, Constant(""), b, Constant(a)>>) : a \in {"a", ""}, b \in {x, Ask, Vararg, Constant("b")}}}

MCOperators == {On(p, b) : p \in {"Luau", "Lua52"}, b \in OperatorPrograms}

(***************************************************************************)
(* Every text of at most five lexemes after return: the expressions of the  *)
(* manual's grammar, each with its one tree, and all that is nonsense.     *)
(***************************************************************************)
Level ==
  "or" :> 1 @@ ".." :> 8 @@ "-" :> 9 @@ "*" :> 10 @@ "^" :> 12

LevelOf(e) ==
  CASE e.k = "binary" -> Level[e.op]
    [] e.k = "unary"  -> 11
    [] OTHER          -> 13

Groups(op, l, r) ==
  /\ IF op \in {"..", "^"} THEN LevelOf(l) > Level[op] ELSE LevelOf(l) >= Level[op]
  /\ \/ r.k = "unary"
     \/ IF op \in {"..", "^"} THEN LevelOf(r) >= Level[op] ELSE LevelOf(r) > Level[op]

Phrases[n \in 1 .. 5] ==
  (IF n = 1 THEN {x} ELSE {})
  \cup (IF n < 2 THEN {} ELSE {UnaryOf("-", e) : e \in {e \in Phrases[n - 1] : LevelOf(e) >= 11}})
  \cup (IF n < 3 THEN {} ELSE
          {Group(e) : e \in Phrases[n - 2]}
          \cup {CallOf(c, << >>) : c \in {e \in Phrases[n - 2] : e.k \in {"name", "group", "call"}}}
          \cup UNION {{BinaryOf(b[1], b[2], b[3]) :
                         b \in {b \in (DOMAIN Level) \X Phrases[i] \X Phrases[n - 1 - i] : Groups(b[1], b[2], b[3])}} : i \in 1 .. n - 2})
  \cup (IF n < 4 THEN {} ELSE
          UNION {{CallOf(b[1], <<b[2]>>) :
                    b \in {e \in Phrases[i] : e.k \in {"name", "group", "call"}} \X Phrases[n - 2 - i]} : i \in 1 .. n - 3})

MCPhrases ==
  LET said == {On("Lua53", <<ReturnOf(<<e>>)>>) : e \in UNION {Phrases[n] : n \in 1 .. 5}}
      texts == UNION {Sequences({"x", "(", ")"} \cup DOMAIN Level, n) : n \in 1 .. 5} IN
  said \cup {Nonsense("Lua53", text) : text \in {<<"return">> \o w : w \in texts} \ {p.text : p \in said}}

(***************************************************************************)
(* Every text of at most five words that open, divide or end blocks: the   *)
(* blocks of the grammar, each with its one tree, and all that is          *)
(* nonsense.                                                               *)
(***************************************************************************)
BlockWords ==
  {<<"do">>, <<"if", "x", "then">>, <<"else">>, <<"end">>, <<"repeat">>, <<"until", "x">>, <<"return">>, <<";">>}

Reading(text, body) == [text |-> text, body |-> body]

Wrapped(open, blocks, close, Around(_)) ==
  {Reading(open \o b.text \o close, <<Around(b.body)>>) : b \in blocks}

(* The texts of n words: a statement, blocks that may go on, all blocks. *)
Shapes[n \in 0 .. 5] ==
  LET inner == IF n < 2 THEN {} ELSE Shapes[n - 2].all
      branches == IF n < 3 THEN {} ELSE UNION {Shapes[i].all \X Shapes[n - 3 - i].all : i \in 0 .. n - 3}
      statements ==
        Wrapped(<<"do">>, inner, <<"end">>, Do)
        \cup Wrapped(<<"if", "x", "then">>, inner, <<"end">>, LAMBDA b : When(x, b))
        \cup Wrapped(<<"repeat">>, inner, <<"until", "x">>, LAMBDA b : Repeat(b, x))
        \cup {Reading(<<"if", "x", "then">> \o b[1].text \o <<"else">> \o b[2].text \o <<"end">>,
                   <<IfOrElse(<<Clause(x, b[1].body)>>, b[2].body)>>) : b \in branches}
      Then(blocks, more) == {Reading(b[1].text \o b[2].text, b[1].body \o b[2].body) : b \in blocks \X more}
      going ==
        (IF n = 0 THEN {Reading(<< >>, << >>)} ELSE Then(Shapes[n - 1].going, {Reading(<<";">>, << >>)}))
        \cup statements \cup UNION {Then(Shapes[i].going, Shapes[n - i].statements) : i \in 1 .. n - 1}
      Ended(i, text) == IF i < 0 THEN {} ELSE Then(Shapes[i].going, {Reading(text, <<ReturnOf(<< >>)>>)}) IN
  [statements |-> statements, going |-> going,
   all |-> going \cup Ended(n - 1, <<"return">>) \cup Ended(n - 2, <<"return", ";">>)]

(* A repeat whose body always returns is compiled to code that no one reaches, *)
(* which the validator rejects; such programs are left out.                   *)
RECURSIVE Returns(_), RepeatsReturn(_)

Returns(body) ==
  body # << >> /\ LET s == Last(body) IN
    CASE s.k = "return"             -> TRUE
      [] s.k \in {"do", "repeat"}   -> Returns(s.body)
      [] s.k = "if"                 -> s.else # << >> /\ \A b \in Range(Blocks(s)) : Returns(b)
      [] OTHER                      -> FALSE

RepeatsReturn(body) ==
  \E s \in Range(body) : \/ s.k = "repeat" /\ Returns(s.body)
                         \/ \E b \in Range(Blocks(s)) : RepeatsReturn(b)

MCShapes ==
  LET said == UNION {Shapes[n].all : n \in 0 .. 5}
      texts == {FlattenSeq(w) : w \in UNION {Sequences(BlockWords, n) : n \in 0 .. 5}} IN
  {Spelled("Lua54", r.text, r.body) : r \in {r \in said : ~RepeatsReturn(r.body)}}
  \cup {Nonsense("Lua54", text) : text \in texts \ {r.text : r \in said}}

(***************************************************************************)
(* Other spellings of a tree: calls without parentheses, fields by name,   *)
(* separators that may be left out, line breaks, and types.                *)
(***************************************************************************)
a == Constant("a")
b == Constant("b")

Sugar ==
  {<< <<"x", "{", "1", ",", "}">>, <<Do1(C(x, <<Table(<<ArrayField(one)>>)>>))>> >>,
   << <<"x", "'a'", "{", "}", ";", "y", "(", ")">>, <<Do1(C(C(x, <<a>>), <<Table(<< >>)>>)), Do1(C(y, << >>))>> >>,
   << <<"x", ":", "m", "'a'", ".", "b", "=", "x", ".", "a", "[", "y", "]">>,
      <<Assign(Index(Method(x, "m", <<a>>), b), Index(Index(x, a), y))>> >>,
   << <<"local", "x", "=", "{", "1", ";", "a", "=", "2", ",", "[", "'b'", "]", "=", "1", ";", "}", "return", "x", ";">>,
      <<Let("x", Table(<<ArrayField(one), NamedField("a", two), IndexedField(b, one)>>)), ReturnOf(<<x>>)>> >>,
   << <<"x", "(", ")", "newline", "y", "(", ")", "newline", "local", "x", "y", "=", "x">>,
      <<Do1(C(x, << >>)), Do1(C(y, << >>)), Local("x", "regular", << >>), Assign(y, x)>> >>,
   << <<"(", "x", ")", ".", "a", ",", "y", "=", "1">>, <<AssignList(<<Index(Group(x), a), y>>, <<one>>)>> >>,
   << <<"(", "x", ")", "(", ")", ":", "m", "(", ")">>, <<Do1(Method(C(Group(x), << >>), "m", << >>))>> >>,
   << <<"if", "x", "then", "y", "(", ")", "elseif", "y", "then", "x", "(", ")", "else", "end">>,
      <<IfOrElse(<<Clause(x, <<Do1(C(y, << >>))>>), Clause(y, <<Do1(C(x, << >>))>>)>>, << >>)>> >>}

Typed ==
  {<< <<"local", "x", ":", "t", "=", "1", "return", "x">>, <<Let("x", one), ReturnOf(<<x>>)>> >>,
   << <<"local", "x", ":", "t", "?", ",", "y", ":", "{", "x", ":", "{", "}", "}", "=", "1">>,
      <<LocalList(<<"x", "y">>, <<"regular", "regular">>, <<one>>)>> >>,
   << <<"return", "x", "::", "t", ".", "a", "<", "t", ">", ".", ".", "1">>, << >> >>,
   << <<"return", "x", "::", "t", ".", "a", "<", "t", ">", "..", "1">>, <<ReturnOf(<<BinaryOf("..", x, one)>>)>> >>,
   << <<"local", "function", "h", "(", "x", ":", "t", ",", "...", ":", "t", ")", ":", "(", "t", ")", "-", ">", "t",
        "return", "x", "(", "...", ")", "::", "t", "end">>,
      <<LocalFunction("h", Variadic(<<"x">>, <<ReturnOf(<<C(x, <<Vararg>>)>>)>>))>> >>,
   << <<"x", "=", "if", "x", "then", "1", "elseif", "y", "then", "2", "else", "x", "+", "1">>,
      <<Assign(x, IfElse(x, one, IfElse(y, two, BinaryOf("+", x, one))))>> >>}

MCSpellings ==
  {Spelled(p, w[1], w[2]) : p \in {"Luau", "Lua51", "Lua55"}, w \in Sugar}
  \cup {Spelled("Luau", w[1], w[2]) : w \in {w \in Typed : w[2] # << >>}}
  \cup {Nonsense(p, w[1]) : p \in {"Lua51", "Lua54"}, w \in Typed}
  \cup {Nonsense("Luau", w[1]) : w \in {w \in Typed : w[2] = << >>}}
  \cup {Spelled("Lua55", <<"local", "<", "const", ">", "x", ",", "y", "<", "close", ">", "=", "1">>,
                 <<LocalList(<<"x", "y">>, <<"const", "close">>, <<one>>)>>),
        Spelled("Lua55", <<"global", "<", "const", ">", "f", ",", "g", ";", "f", "(", "g", ")">>,
                <<Global(<<"f", "g">>, <<"const", "const">>, << >>), Do1(C(f, <<g>>))>>),
        Nonsense("Luau", <<"x", "newline", "(", ")">>),
        Spelled("Lua54", <<"x", "newline", "(", ")">>, <<Do1(C(x, << >>))>>)}

(***************************************************************************)
(* Each construct that not every profile has, in every profile.            *)
(***************************************************************************)
Profiles == {"Luau", "Lua51", "Lua52", "Lua53", "Lua54", "Lua55", "Blu"}

MCProfiles ==
  {On(p, body) : p \in Profiles, body \in
    {<<Compound(op, x, one)>> : op \in {"+", "//", ".."}}
    \cup {<<ReturnOf(<<e>>)>> : e \in {BinaryOf(op, x, y) : op \in {"//", "&", "|", "~", "<<", ">>", "%"}}
                                     \cup {UnaryOf("~", x), IfElse(x, y, one), Interpolated(<<a, x, b>>)}}
    \cup {<<s>> : s \in
            {While(x, <<Continue>>), While(x, <<Break>>), Label("a"), Do(<<Goto("a"), Label("a")>>),
             Local("x", "const", <<one>>), Local("x", "close", <<nil>>), Global(<<"x">>, <<"regular">>, <<one>>), GlobalAll("regular"),
             FunctionAt(<<"x">>, FALSE, TRUE, Lambda(<< >>, << >>)), LocalFunction("h", Named(<< >>, "z", << >>)),
             LocalFunction("h", Variadic(<< >>, <<ReturnOf(<<Vararg>>)>>))}}}

(***************************************************************************)
(* Writes to what may be a constant, in its function and further in.       *)
(***************************************************************************)
WritesTo(v) == {Assign(v, two), AssignList(<<y, v>>, <<one, two>>), FunctionAt(<<v.n>>, FALSE, FALSE, Lambda(<< >>, << >>))}

MCConstants ==
  {On(p, <<Local("x", attribute, <<nil>>)>> \o body) :
     p \in {"Lua54", "Lua55"}, attribute \in {"regular", "const", "close"},
     body \in UNION {{<<w>>, <<LocalFunction("h", Lambda(<< >>, <<w>>))>>, <<LocalFunction("h", Lambda(<<"x">>, <<w>>))>>,
                      <<LocalFunction("h", Lambda(<< >>, <<Say(x), LocalFunction("k", Lambda(<< >>, <<w>>))>>))>>,
                      <<Do(<<Let("x", one), w>>), Do(<<w>>)>>, <<NumericFor("x", one, two, << >>, <<w>>)>>} : w \in WritesTo(x)}}

MCSuites ==
  <<MCLists, MCOperators, MCLoops, MCGotos, MCScopes, MCAssigns, MCGlobals, MCClosing, MCCounts, MCFunctions,
    MCTables, MCDialect, MCPhrases, MCShapes, MCSpellings, MCProfiles, MCConstants>>

(***************************************************************************)
(* Programs that are treated otherwise than they should be, each left out  *)
(* of the suites above.                                                    *)
(***************************************************************************)
(* Leaving a loop out of a block with a value to be closed. *)
MCBreaks == << {On("Lua54", <<While(x, <<Do(<<Closing("y", t), When(Ask, <<Break>>)>>)>>)>>)} >>

(* A value to be closed that is declared after a way out of the loop. *)
MCLateClosing == << {On("Lua54", <<While(x, <<When(Ask, <<Break>>), Closing("y", t)>>)>>)} >>

(* A loop whose body always returns. *)
MCRepeats == << {On("Lua54", <<Repeat(<<ReturnOf(<< >>)>>, x)>>)} >>

(* A function that ends by going back. *)
MCEndless == << {On("Lua54", <<Label("a"), Say(one), Goto("a")>>)} >>

(* A goto into the scope of a local function. *)
MCEntering == << {On("Lua54", <<Do(<<Goto("a"), LocalFunction("h", Lambda(<< >>, << >>)), Label("a"), Say(h)>>)>>)} >>

(* A list of targets none of which is declared. *)
MCUndeclared == << {On("Lua55", <<Global(<<"f">>, <<"regular">>, << >>), AssignList(<<x, y>>, <<one, two>>)>>)} >>

(* Fields that are constants, in the order of the text. *)
MCFieldOrder == << {On("Blu", <<ReturnOf(<<Table(<<NamedField("a", one), NamedField("b", two)>>)>>)>>)} >>

(* Of two captured variables of one name, the one that hides the other. *)
MCShadows ==
  << {On("Lua54", <<Let("x", one), Let("x", two),
                    LocalFunction("h", Lambda(<< >>, <<Say(x), LocalFunction("z", Lambda(<< >>, <<Say(x)>>)), Say(x)>>)),
                    Do1(C(h, << >>))>>)} >>
=============================================================================
