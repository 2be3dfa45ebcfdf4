---------------------------- MODULE MCOperations ----------------------------
(***************************************************************************)
(* Small programs for Operations: each scenario is a profile, a store of   *)
(* tables, the guest functions and the threads that run them.              *)
(***************************************************************************)
EXTENDS Operations

(* Guest functions: what they do before they return, and what they return. *)
MayYield == [do |-> "yield"]
Does(body) == [body |-> body, plain |-> TRUE, fast |-> FALSE, ordered |-> TRUE]
Ask(fn, t, arguments) == [do |-> "call", item |-> [fn |-> fn, table |-> t, arguments |-> arguments]]

MCRank(v) == IF v[1] = "num" THEN v[2] ELSE IF v[1] = "tab" THEN 20 - v[2] ELSE 0
MCReply(f, a, n) ==
    CASE f \in {"less", "lesserasing", "lesscaptured", "fastless", "objectless"} ->
           <<Bool(MCRank(a[1]) < MCRank(a[2]))>>
      [] f = "always" -> <<Bool(TRUE)>>
      [] f = "visit" -> IF a[2] = Num(3) THEN <<Num(9)>> ELSE <<>>
      [] f = "visitall" -> <<>>
      [] f = "visittwo" -> <<Nil, Num(9)>>
      [] f = "swap" -> IF a[1] = Str(<<"a">>) THEN <<Nil>>
                       ELSE IF a[1] = Str(<<"b">>) THEN <<Num(1)>> ELSE <<Str(<<"-", "c">>)>>
      [] f = "badswap" -> <<Tab(1)>>
      [] f = "reader" -> IF n = 1 THEN <<Str(<<"a">>)>> ELSE IF n = 2 THEN <<Str(<<"b", "c">>)>>
                         ELSE <<>>
      [] f = "longreader" -> <<Str(<<"a", "b">>)>>
      [] f = "badreader" -> IF n = 1 THEN <<Str(<<"a">>)>> ELSE <<Num(1)>>
      [] f = "nosearcher" -> <<Name("not found")>>
      [] f = "findsA" -> IF a[1] = Name("A") THEN <<Fun("loadA"), Name("where")>> ELSE <<>>
      [] f = "findsAll" -> IF a[1] = Name("A") THEN <<Fun("loadA")>> ELSE <<Fun("loadB")>>
      [] f = "loadA" -> <<Name("module A")>>
      [] f = "loadB" -> <<Nil>>
      [] f = "named" -> <<Name("shown")>>
      [] f = "unnamed" -> <<Num(1)>>
      [] f = "triple" -> <<Fun("visit"), Tab(2), Nil>>
      [] OTHER -> <<>>

(* Handlers of the metatables that the table library meets.                *)
MCHandle(store, f, a) ==
    CASE f = "lenof3" -> Answer(store, <<Num(Len(Listing(store[3].entries)))>>)
      [] f = "huge" -> Answer(store, <<Num(MaxInteger)>>)
      [] f = "yields" -> Refusal(store, "UnsupportedLibraryFeature")
      [] f = "seven" -> Answer(store, <<Num(7)>>)
      [] f = "keeps" -> table_set(store, a[1][2], a[2], a[3])
      [] OTHER -> Refusal(store, "GuestError")

T(entries) == [entries |-> entries, meta |-> NoMeta, frozen |-> FALSE]
L(values) == T(Listed(values))
M(fields) == T([k \in {Name(p[1]) : p \in fields} |-> (CHOOSE p \in fields : Name(p[1]) = k)[2]])
Numbers(ns) == L([i \in DOMAIN ns |-> Num(ns[i])])
E == T(<<>>)

Common == [less |-> Does(<<MayYield>>),
           lesserasing |-> Does(<<[do |-> "erase", table |-> 2], MayYield>>),
           lesscaptured |-> [Does(<<>>) EXCEPT !.plain = FALSE],
           fastless |-> [Does(<<>>) EXCEPT !.fast = TRUE],
           objectless |-> Does(<<MayYield>>),
           always |-> [Does(<<MayYield>>) EXCEPT !.ordered = FALSE],
           visit |-> Does(<<MayYield>>),
           visitall |-> Does(<<[do |-> "erasevisited", table |-> 2], MayYield>>),
           visittwo |-> Does(<<MayYield>>),
           swap |-> Does(<<MayYield>>), badswap |-> Does(<<>>),
           reader |-> Does(<<MayYield>>), longreader |-> Does(<<>>), badreader |-> Does(<<>>),
           named |-> Does(<<MayYield>>), unnamed |-> Does(<<>>), triple |-> Does(<<MayYield>>),
           breaks |-> Does(<<MayYield, [do |-> "fail"]>>),
           empty |-> Does(<<>>)]

(* One coroutine makes the calls of `items', the main thread those of      *)
(* `host'.                                                                 *)
Scene(profile, store, host, items) ==
    [profile |-> profile, store |-> <<E>> \o store, package |-> 1, globals |-> {}, host |-> {},
     names |-> {}, threads |-> [main |-> "main", a |-> "a"],
     functions |-> [main |-> Does(host), a |-> Does(items)] @@ Common]

Sorts ==
    {Scene(profile, <<Numbers(ns)>>, <<>>, <<Ask("sort", 2, <<Fun(f)>>)>>) :
        profile \in {"Blu", "Lua54"}, ns \in {<<3, 1, 2>>, <<2, 3>>}, f \in {"less", "lesserasing"}}
    \union {Scene(profile, <<Numbers(<<3, 1, 2, 4>>)>>, <<Ask("sort", 2, <<Fun(f)>>)>>, <<>>) :
              profile \in {"Blu", "Lua54"}, f \in {"less", "lesserasing", "lesscaptured", "fastless", "always"}}
    \union {Scene("Blu", <<Numbers(<<1, 2, 3, 4>>)>>, <<>>, <<Ask("sort", 2, <<Fun("always")>>)>>),
            Scene("Lua54", <<Numbers(<<2, 1>>), E>>, <<Ask("sort", 2, <<>>), Ask("sort", 3, <<>>)>>, <<>>)}

(* Objects that only the sorted table refers to, compared by a function or *)
(* by their metatable.                                                     *)
Members == L(<<Tab(3), Tab(4), Tab(5)>>)
ByMeta == [E EXCEPT !.meta = 6]
ObjectSorts ==
    {Scene("Lua54", <<Members, E, E, E>>, <<>>, <<Ask("sort", 2, <<Fun("lesserasing")>>)>>),
     Scene("Blu", <<Members, ByMeta, ByMeta, ByMeta, M({<<"__lt", Fun("objectless")>>})>>, <<>>,
           <<Ask("sort", 2, <<>>)>>),
     Scene("Blu", <<Members, E, E, E>>, <<>>, <<Ask("sort", 2, <<>>)>>)}

Fields == T(With(Listed(<<Num(1), Num(3)>>), Name("x"), Num(2)))
Visits ==
    {Scene(profile, <<Fields>>, host, <<Ask(fn, 2, <<Fun(f)>>)>>) :
        profile \in {"Blu", "Lua51"}, fn \in {"foreach", "foreachi"},
        f \in {"visit", "visitall", "visittwo", "yield"}, host \in {<<>>}}
    \union {Scene("Lua54", <<Fields>>, <<Ask("foreach", 2, <<Fun("visit")>>)>>, <<>>)}

Substitutions ==
    {Scene(profile, <<M({<<"a", Name("b")>>})>>, <<>>,
           <<Ask("gsub", NoMeta, <<Str(sp[1]), Str(sp[2]), r, Num(limit)>>)>>) :
        profile \in {"Blu", "Lua51"},
        sp \in {<<<<"a", "b", "c">>, <<"%", "a">>>>, <<<<"a", "b">>, <<"b", "*">>>>,
                <<<<"a", "b", "a">>, <<"(", "a", ")", "b", "?">>>>, <<<<"a", ".">>, <<"[">>>>,
                <<<<"a", "b", "a">>, <<"b", "*">>>>,
                <<<<"b", "a", "a">>, <<"^", "b", "-", "a", "+", "$">>>>,
                <<<<"(", "a", ")", "b">>, <<"%", "b", "(", ")">>>>,
                <<<<"a", " ", "b">>, <<"%", "f", "[", "%", "a", "]", "(", ")", ".">>>>,
                <<<<"a", "a", "b">>, <<"(", ".", ")", "%", "1">>>>},
        r \in {Fun("swap"), Tab(2), Str(<<"<", "%", "0", "%", "1", ">">>)},
        limit \in {1, 9}}
    \union {Scene("Blu", <<E>>, <<Ask("gsub", NoMeta,
              <<Str(<<"a">>), Str(<<"a">>), Fun("badswap"), Num(9)>>)>>, <<>>)}

Readers ==
    {Scene("Blu", <<>>, <<>>, <<Ask("load", NoMeta, <<Fun(f), Name("env")>>)>>) :
        f \in {"reader", "longreader", "badreader", "breaks"}}

(* Handlers that are called once.                                          *)
Handled(f) == <<[E EXCEPT !.meta = 3],
                M({<<"__tostring", Fun(f)>>, <<"__pairs", Fun(f)>>, <<"__ipairs", Fun(f)>>,
                   <<"__iter", Fun(f)>>})>>
OneCalls ==
    {Scene(profile, Handled(f), <<>>, <<Ask(fn, 2, <<Fun(f)>>)>>) :
        profile \in {"Blu", "Lua52"}, f \in {"named", "unnamed", "triple", "breaks"},
        fn \in {"tostring", "pairs", "ipairs", "iter", "dofile"}}
    \union {Scene(profile, <<E>>, <<Ask(fn, 2, <<>>)>>, <<>>) :
              profile \in {"Blu", "Lua51"}, fn \in {"tostring", "pairs", "ipairs", "iter"}}

(* Two coroutines and the host require modules A and B.                    *)
Modules(profile, searchers, body) ==
    [profile |-> profile, package |-> 1, globals |-> {Fun("loadA"), Fun("loadB")}, host |-> {Name("H")},
     names |-> {Name("A"), Name("B"), Name("H"), Name("P")},
     store |-> <<M({<<"loaded", Tab(2)>>, <<"searchers", Tab(3)>>, <<"preload", Tab(4)>>}), E,
                 L([i \in DOMAIN searchers |-> Fun(searchers[i])]),
                 M({<<"P", Fun("loadB")>>}), E>>,
     threads |-> [main |-> "main", a |-> "a", b |-> "b"],
     functions |-> [main |-> Does(<<Ask("require", NoMeta, <<Name("A")>>)>>),
                    a |-> Does(<<Ask("require", NoMeta, <<Name("A")>>)>>),
                    b |-> Does(<<Ask("require", NoMeta, <<Name("B")>>)>>),
                    findsA |-> Does(<<MayYield>>), findsAll |-> Does(<<MayYield>>),
                    nosearcher |-> Does(<<MayYield>>),
                    loadA |-> Does(body), loadB |-> Does(<<Ask("require", NoMeta, <<Name("A")>>)>>)]
                   @@ Common]
Requires2 ==
    {Modules(profile, searchers, body) :
        profile \in {"Blu", "Lua54", "Lua51"},
        searchers \in {<<"findsAll">>, <<"nosearcher", "findsA", "nosearcher">>, <<"findsA", "breaks">>},
        body \in {<<MayYield>>, <<Ask("require", NoMeta, <<Name("B")>>)>>, <<[do |-> "fail"]>>,
                  <<[do |-> "replace", field |-> "searchers", value |-> Tab(5)], MayYield>>}}
HostModules ==
    {[Modules("Blu", <<"preload_searcher", "host_searcher">>, <<>>) EXCEPT
        !.functions.a = Does(<<Ask("require", NoMeta, <<Name(n)>>)>>)] : n \in {"H", "P"}}
    \union {[Modules("Blu", <<>>, <<>>) EXCEPT !.functions.a = Does(<<Ask("require", NoMeta, <<Name("H")>>)>>)]}

(* The table library on a sequence, on a proxy of it, and at the edges.    *)
Proxy == <<[E EXCEPT !.meta = 4], Numbers(<<4, 5, 6>>),
           M({<<"__index", Tab(3)>>, <<"__newindex", Tab(3)>>, <<"__len", Fun("lenof3")>>})>>
Edited == {<<"insert", <<Num(7)>>>>, <<"insert", <<Num(1), Num(7)>>>>, <<"insert", <<Num(6), Num(7)>>>>,
           <<"remove", <<>>>>, <<"remove", <<Num(1)>>>>, <<"remove", <<Num(4)>>>>,
           <<"remove", <<Num(6)>>>>, <<"concat", <<Str(<<"-">>)>>>>, <<"unpack", <<>>>>,
           <<"unpack", <<Num(2), Num(4)>>>>, <<"gunpack", <<>>>>,
           <<"move", <<Num(1), Num(2), Num(2)>>>>, <<"move", <<Num(2), Num(3), Num(1)>>>>}
Whole == {<<"clear", <<>>>>, <<"clone", <<>>>>, <<"freeze", <<>>>>, <<"isfrozen", <<>>>>, <<"getn", <<>>>>,
          <<"maxn", <<>>>>, <<"find", <<Num(5), Num(1)>>>>, <<"find", <<Num(5), Num(0)>>>>,
          <<"move", <<Num(1), Num(3), Num(6)>>>>, <<"move", <<Num(1), Num(2), Num(2), Tab(1)>>>>}
Library ==
    {Scene(profile, Proxy, <<Ask(e[1], t, e[2]), Ask(d[1], 3, d[2])>>, <<>>) :
        profile \in {"Blu", "Luau", "Lua51", "Lua54"}, t \in {2, 3}, e \in Edited,
        d \in {<<"clone", <<>>>>, <<"remove", <<Num(1)>>>>}}
    \union {Scene(profile, Proxy, <<Ask(e[1], 3, e[2]), Ask(d[1], 3, d[2])>>, <<>>) :
        profile \in {"Blu", "Luau", "Lua52", "Lua55"}, e \in Whole,
        d \in {<<"pack", <<Num(1), Nil, Num(2)>>>>, <<"create", <<Num(2), Num(1)>>>>,
               <<"insert", <<Num(7)>>>>}}
    \union {Scene("Lua54", <<[E EXCEPT !.meta = 3], M({<<"__len", Fun(f)>>, <<"__index", Fun("seven")>>,
                                  <<"__newindex", Fun("keeps")>>})>>, <<Ask(e[1], 2, e[2])>>, <<>>) :
        f \in {"huge", "yields", "seven"}, e \in Edited}

(* Searches, and an iterator that is called once more than it has matches. *)
StringCall(fn, arguments) ==
    [do |-> "string", item |-> [fn |-> fn, table |-> NoMeta, arguments |-> arguments]]
Again == [do |-> "next", iterator |-> 1]
Searched == {<<<<"a", "b", "a">>, <<"(", "a", ")", "b", "?">>>>, <<<<"a", "b">>, <<"b", "*">>>>,
             <<<<"b", "a", "a">>, <<"^", "a", "*">>>>, <<<<"a", "a", "b">>, <<"a", "-", "b">>>>,
             <<<<"a", " ", "b">>, <<"%", "f", "[", "%", "a", "]", "(", ")", ".">>>>,
             <<<<"a", "b", "a">>, <<"b", "*">>>>, <<<<"b", "a">>, <<"a">>>>, <<<<"a", "b">>, <<>>>>}
Searches ==
    {Scene(profile, <<>>,
           <<StringCall("string.find", <<Str(sp[1]), Str(sp[2]), Num(n), Bool(n = 2)>>),
             StringCall("string.match", <<Str(sp[1]), Str(sp[2]), Num(n)>>),
             StringCall("string.sub", <<Str(sp[1]), Num(n), Num(-1)>>),
             StringCall("string.gmatch", <<Str(sp[1]), Str(sp[2]), Num(n)>>), Again, Again, Again, Again, Again>>,
           <<>>) : profile \in {"Blu", "Lua51", "Lua54"}, sp \in Searched, n \in {1, 2, -1, 5}}

MCScenarios == Searches \union Sorts \union ObjectSorts \union Visits \union Substitutions \union Readers
               \union OneCalls \union Requires2 \union HostModules \union Library
=============================================================================
