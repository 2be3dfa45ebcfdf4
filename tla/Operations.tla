----------------------------- MODULE Operations -----------------------------
(***************************************************************************)
(* The native functions that call back into guest code, and what becomes   *)
(* of them when the callback yields (vm.rs).  A native function cannot be  *)
(* suspended: when its callback yields, everything it still needs goes     *)
(* into a PendingBluOperation, the native call ends, and a second copy of  *)
(* the function (resume_blu_operation) goes on when the coroutine is       *)
(* resumed.  The two copies, what the collector keeps for them, and the    *)
(* state they share (the modules being loaded) are modelled here.          *)
(*                                                                         *)
(* A thread is a stack of frames: guest frames run the statements of a     *)
(* function of the scenario, operation frames wait for the guest frame     *)
(* above them.  An operation is "direct" until its thread is suspended and *)
(* "resumed" from then on.  The main thread cannot yield.                  *)
(***************************************************************************)
EXTENDS TableLibrary, Patterns

CONSTANTS
    Scenarios,          \* the programs: functions, tables and threads
    Reply(_, _, _),     \* what a guest function returns: name, arguments, call number
    Rank(_),            \* the order of values that < and the comparators use
    ValidateFrom,       \* 4: the shortest sequence whose comparator is validated
    SourceLimit,        \* the bytes a load reader may deliver
    MaxYields, MaxCollections

VARIABLES
    scenario,           \* chosen at the start
    vm,                 \* [store, loading, cache, iterators]: tables, loading_modules,
                        \* module_cache, the states of the iterators of gmatch
    stack,              \* the frames of every thread
    status,             \* fresh, running, suspended or dead
    current,            \* the running thread
    dead,               \* the objects the collector has freed
    finished,           \* the operation that this step finished, if any
    tainted, loads,     \* names whose loading went astray; how often a module was finished
    yields, collections

vars == <<scenario, vm, stack, status, current, dead, finished, tainted, loads, yields, collections>>

Threads == DOMAIN scenario.threads
Coroutines == Threads \ {"main"}
Package == scenario.package
Profile == scenario.profile

Guest(f, arguments) == [frame |-> "guest", fn |-> f, arguments |-> arguments, pc |-> 1]
Operation(item, t, before) ==
    [frame |-> "op", item |-> item, thread |-> t, before |-> before, mode |-> "direct",
     awaited |-> FALSE, phase |-> "start", s |-> <<>>, calls |-> <<>>, held |-> {},
     lost |-> FALSE, astray |-> FALSE]
IsOp(frame) == frame.frame = "op"
NoFinished == [done |-> FALSE]

(* What an operation does next: call a function, finish, or fail.          *)
Calls(op, v, f, arguments) ==
    [move |-> "call", vm |-> v, f |-> f, values |-> arguments, error |-> "none",
     op |-> [op EXCEPT !.calls = Append(@, arguments), !.awaited = FALSE]]
Finish(op, v, values) ==
    [move |-> "done", vm |-> v, f |-> "none", values |-> values, error |-> "none", op |-> op]
Raise(op, v, error) ==
    [move |-> "error", vm |-> v, f |-> "none", values |-> <<>>, error |-> error, op |-> op]
Storing(v, answer) == [v EXCEPT !.store = answer.store]
Ending(op, v, answer, values) ==
    IF answer.ok THEN Finish(op, Storing(v, answer), values)
    ELSE Raise(op, Storing(v, answer), answer.error)

-----------------------------------------------------------------------------
(* table.sort.  The values are read once; a coroutine sorts them by        *)
(* insertion, one callback at a time, and the main thread with the         *)
(* library's sort_unstable_by, which is taken here to ask for every pair.  *)
Sorted(values) == SortSeq(values, LAMBDA a, b : Rank(a) < Rank(b))
AllOf(values, kind) == \A i \in DOMAIN values : values[i][1] = kind
Comparator(op) == First(op.item.arguments)

finish_table_sort(op, v, values) ==
    Ending(op, v, WriteAll(v.store, LAMBDA s, n, x : table_set(s, op.item.table, Num(n), x), 1, values),
           <<>>)
WriteBack(op, v, values) ==
    Ending(op, v, WriteAll(v.store, LAMBDA s, n, x : Put(s, op.item.table, n, x), 1, values), <<>>)

(* validate_table_sort_comparator: neighbours must not be out of order.    *)
validate_table_sort_comparator(op, v, i) ==
    LET values == op.s.values
        f == Comparator(op)[2]
    IN IF Len(values) < ValidateFrom \/ ~scenario.functions[f].plain \/ i >= Len(values)
         THEN IF op.thread = "main" THEN finish_table_sort(op, v, values)
              ELSE WriteBack(op, v, values)
       ELSE Calls([op EXCEPT !.phase = "validate", !.s.index = i], v, f,
                  <<values[i + 1], values[i]>>)

SortDone(op, v) ==
    IF op.mode = "resumed" THEN finish_table_sort(op, v, op.s.values)
    ELSE IF Comparator(op) = Nil THEN WriteBack(op, v, op.s.values)
    ELSE validate_table_sort_comparator(op, v, 1)

(* The callback that compares current with the value before `position'.    *)
LessHandler(v, left, right) ==
    LET of(x) == IF IsTable(x) THEN Metamethod(v.store, x[2], "__lt") ELSE Nil
    IN IF of(left) # Nil THEN of(left) ELSE of(right)
RECURSIVE Inserting(_, _)
Inserting(op, v) ==
    LET s == op.s
        f == IF Comparator(op) = Nil THEN LessHandler(v, s.current, s.values[s.position])
             ELSE Comparator(op)
    IN CASE s.position > 0 ->
              IF f = Nil THEN Raise(op, v, "Comparison")
              ELSE Calls(op, v, f[2], <<s.current, s.values[s.position]>>)
         [] s.position = 0 /\ s.index + 1 >= Len(s.values) ->
              SortDone([op EXCEPT !.s.values[1] = s.current], v)
         [] OTHER ->
              Inserting([op EXCEPT !.s = [values |-> [s.values EXCEPT ![1] = s.current],
                                          index |-> s.index + 1, position |-> s.index + 1,
                                          current |-> s.values[s.index + 2]]], v)

(* The reply to a comparison: shift, or place the value and take the next. *)
PlacedTooLow(s) == [s.values EXCEPT ![s.position] = s.current]
Placed(s) == [s.values EXCEPT ![s.position + 1] = s.current]
Inserted(op, v, less) ==
    LET s == op.s
        placed == Placed(s)
    IN IF less
         THEN Inserting([op EXCEPT !.s.values[s.position + 1] = s.values[s.position],
                                   !.s.position = s.position - 1], v)
       ELSE IF s.index + 1 >= Len(s.values)
         THEN SortDone([op EXCEPT !.s.values = placed], v)
       ELSE Inserting([op EXCEPT !.s = [values |-> placed, index |-> s.index + 1,
                                        position |-> s.index + 1,
                                        current |-> placed[s.index + 2]]], v)

(* On the main thread: the pairs left to ask for, first in one direction   *)
(* and, unless the answer is true, in the other.  Blu and Luau notice a    *)
(* comparator that writes to the table.                                    *)
Pairs(n) == {<<i, j>> \in (1..n) \X (1..n) : i < j}
Asking(op, v) ==
    LET s == op.s
        pair == s.pairs[1]
    IN IF s.pairs = <<>>
         THEN LET below(i) == {j \in DOMAIN s.values : <<j, i>> \in s.less}
                  place(i) == Cardinality(below(i)) + 1
                  ordered == {place(i) : i \in DOMAIN s.values} = DOMAIN s.values
              IN validate_table_sort_comparator(
                     [op EXCEPT !.s.values =
                        IF ordered THEN [k \in DOMAIN s.values |->
                                            s.values[CHOOSE i \in DOMAIN s.values : place(i) = k]]
                        ELSE s.values], v, 1)
       ELSE Calls(op, v, Comparator(op)[2], <<s.values[pair[1]], s.values[pair[2]]>>)
Asked(op, v, less) ==
    LET s == op.s
        pair == s.pairs[1]
        known == IF less THEN s.less \union {pair} ELSE s.less
    IN IF Profile \in Modern /\ v.store[op.item.table].entries # op.before
         THEN Raise(op, v, "ModifiedDuringSort")
       ELSE Asking([op EXCEPT !.s.pairs = IF less \/ pair[1] > pair[2] THEN Tail(@)
                                          ELSE <<<<pair[2], pair[1]>>>> \o Tail(@),
                              !.s.less = known], v)

(* fast_table_sort_comparator recognises `a < b' without running it.       *)
Fast(op, values) ==
    /\ op.thread = "main"
    /\ scenario.functions[Comparator(op)[2]].fast
    /\ AllOf(values, "num") \/ AllOf(values, "str")

sort(op, v, length) ==
    LET read == ReadRange(v.store, op.item.table, 1, length, <<>>)
        values == read.values
        w == Storing(v, read)
        insertion == [op EXCEPT !.phase = "insert",
                                !.s = [values |-> values, index |-> 1, position |-> 1,
                                       current |-> values[2]]]
        asking == [op EXCEPT !.phase = "pairs",
                             !.s = [values |-> values, index |-> 0, less |-> {},
                                    pairs |-> SetToSeq(Pairs(Len(values)))]]
        plain == [op EXCEPT !.phase = "insert", !.s = [values |-> values]]
    IN CASE length <= 0 -> Finish(op, v, <<>>)
         [] length > 0 /\ ~read.ok -> Raise(op, w, read.error)
         [] length > 0 /\ read.ok /\ Comparator(op) # Nil ->
              IF Fast(op, values) THEN finish_table_sort(op, w, Sorted(values))
              ELSE IF op.thread = "main" THEN Asking(asking, w)
              ELSE IF Len(values) = 1 THEN SortDone(plain, w)
              ELSE Inserting(insertion, w)
         [] OTHER ->
              IF AllOf(values, "num") \/ AllOf(values, "str") THEN WriteBack(op, w, Sorted(values))
              ELSE IF Len(values) = 1 THEN SortDone(plain, w)
              ELSE Inserting(insertion, w)

SortReply(op, v, values) ==
    LET less == Truthy(First(values))
    IN CASE op.phase = "insert" -> Inserted(op, v, less)
         [] op.phase = "pairs" -> Asked(op, v, less)
         [] op.phase = "validate" ->
              IF less THEN Raise(op, v, "InvalidOrderFunction")
              ELSE validate_table_sort_comparator(op, v, op.s.index + 1)

-----------------------------------------------------------------------------
(* table.foreach and table.foreachi.  The direct copies look at the first  *)
(* result of the callback, the resumed copies at the last one.             *)
Deciding(op, values) ==
    IF values = <<>> THEN Nil
    ELSE IF op.mode = "direct" THEN values[1] ELSE Last(values)

(* Heap::table_next: the keys in the order of the table, the erased ones   *)
(* passed over.                                                            *)
NextKeys(op, v) ==
    {i \in DOMAIN op.s.order : i > op.s.at /\ RawGet(v.store, op.item.table, op.s.order[i]) # Nil}
Visit(op, v) ==
    LET i == Min(NextKeys(op, v))
        key == op.s.order[i]
        value == RawGet(v.store, op.item.table, key)
    IN IF NextKeys(op, v) = {} THEN Finish(op, v, <<Nil>>)
       ELSE Calls([op EXCEPT !.s.at = i, !.s.previous = op.s.key, !.s.key = key,
                             !.s.value = value],
                  v, op.item.arguments[1][2], <<key, value>>)
foreach(op, v) ==
    IF Profile \notin Modern \union {"Lua51"} THEN Raise(op, v, "UnsupportedSemanticProfile")
    ELSE Visit([op EXCEPT !.s = [order |-> SetToSeq(DOMAIN op.before), at |-> 0,
                                 previous |-> Nil, key |-> Nil, value |-> Nil]], v)
resume_table_foreach(op, v, values) ==
    IF Deciding(op, values) # Nil THEN Finish(op, v, <<Deciding(op, values)>>)
    ELSE Visit(op, v)

VisitIndex(op, v, i) ==
    LET value == RawGet(v.store, op.item.table, Num(i))
    IN IF i > op.s.length THEN Finish(op, v, <<Nil>>)
       ELSE Calls([op EXCEPT !.s.index = i, !.s.value = value], v, op.item.arguments[1][2],
                  <<Num(i), value>>)
foreachi(op, v, length) ==
    IF Profile \notin Modern \union {"Lua51"} THEN Raise(op, v, "UnsupportedSemanticProfile")
    ELSE VisitIndex([op EXCEPT !.s = [index |-> 0, length |-> length, value |-> Nil]], v, 1)
resume_table_foreachi(op, v, values) ==
    IF Deciding(op, values) # Nil THEN Finish(op, v, <<Deciding(op, values)>>)
    ELSE VisitIndex(op, v, op.s.index + 1)

-----------------------------------------------------------------------------
(* string.gsub: item.arguments is <<subject, pattern, replacement, limit>>.*)
Subject(op) == op.item.arguments[1][2]
Pattern(op) == op.item.arguments[2][2]
Replacement(op) == op.item.arguments[3]
Limit(op) == op.item.arguments[4][2]
LatestEmpty == Profile \in {"Blu", "Lua53", "Lua54", "Lua55"}

CaptureValue(s, c) == IF c.position THEN Num(c.start + 1) ELSE Str(Slice(s, c.start, c.end))
append_basic_capture_values(s, found) ==
    [i \in DOMAIN found.captures |-> CaptureValue(s, found.captures[i])]
CapturesOrWhole(s, found) ==
    IF found.captures = <<>> THEN <<Str(Slice(s, found.start, found.end))>>
    ELSE append_basic_capture_values(s, found)
gsub_table_key(s, found) == CapturesOrWhole(s, found)[1]

(* append_gsub_replacement: `%0', `%1' and `%%' in a replacement text; the *)
(* result is <<text>>, or <<>> for a reference to a capture that is unset. *)
RECURSIVE Expand(_, _, _, _)
Expand(text, i, s, found) ==
    LET escaped == ByteAt(text, i + 1)
        whole == Slice(s, found.start, found.end)
        capture == IF found.captures = <<>> THEN whole
                   ELSE Rendered(CaptureValue(s, found.captures[1]))
        rest(n) == Expand(text, i + n, s, found)
        joined(bytes, n) == IF rest(n) = <<>> THEN <<>> ELSE <<bytes \o rest(n)[1]>>
    IN CASE i >= Len(text) -> <<<<>>>>
         [] i < Len(text) /\ ByteAt(text, i) # "%" -> joined(<<ByteAt(text, i)>>, 1)
         [] i < Len(text) /\ ByteAt(text, i) = "%" /\ i + 1 >= Len(text) -> <<>>
         [] i + 1 < Len(text) /\ ByteAt(text, i) = "%" /\ escaped = "0" -> joined(whole, 2)
         [] i + 1 < Len(text) /\ ByteAt(text, i) = "%" /\ escaped = "%" -> joined(<<"%">>, 2)
         [] i + 1 < Len(text) /\ ByteAt(text, i) = "%" /\ escaped = "1" ->
              IF found.captures # <<>> /\ ~found.captures[1].set THEN <<>> ELSE joined(capture, 2)
         [] OTHER -> IF Profile = "Lua51" THEN joined(<<escaped>>, 2) ELSE <<>>
append_gsub_replacement(text, s, found) == Expand(text, 0, s, found)

(* append_gsub_callback_result: nil and false keep the match.              *)
GsubAppend(op, value) ==
    IF ~Truthy(value)
      THEN [op EXCEPT !.s.result = @ \o Slice(Subject(op), op.s.found.start, op.s.found.end)]
      ELSE [op EXCEPT !.s.result = @ \o Rendered(value)]
Replaceable(value) == ~Truthy(value) \/ value[1] \in {"num", "str"}

(* After a replacement.  The loops copy the byte behind an empty match;    *)
(* advance_gsub_operation, which follows a callback that was suspended,    *)
(* leaves it out.                                                          *)
Advanced(op) ==
    LET found == op.s.found
        beyond == [op EXCEPT !.s.count = @ + 1]
    IN CASE found.end > found.start ->
              [beyond EXCEPT !.s.previous = {found.end}, !.s.search = found.end,
                             !.s.copied = found.end]
         [] found.end = found.start /\ found.start < Len(Subject(op)) ->
              [beyond EXCEPT !.s.search = found.start + 1, !.s.copied = found.start + 1]
         [] OTHER ->
              [beyond EXCEPT !.s.search = Len(Subject(op)) + 1, !.s.copied = Len(Subject(op))]
advance_gsub_operation(op) == Advanced(op)
AdvancedAndCopied(op) ==
    LET found == op.s.found
    IN Advanced(IF found.end = found.start /\ found.start < Len(Subject(op))
                  THEN [op EXCEPT !.s.result = Append(@, ByteAt(Subject(op), found.start))]
                  ELSE op)

RECURSIVE GsubNext(_, _)
GsubReplace(op, v, found) ==
    LET at == [op EXCEPT !.s.found = found,
                         !.s.result = @ \o Slice(Subject(op), op.s.copied, found.start)]
        expanded == append_gsub_replacement(Replacement(op)[2], Subject(op), found)
        looked == Follow(v.store, Replacement(op)[2], gsub_table_key(Subject(op), found), ChainLimit)
        onwards(text) == GsubNext(AdvancedAndCopied(text), v)
    IN CASE IsFunction(Replacement(op)) ->
              Calls(at, v, Replacement(op)[2], CapturesOrWhole(Subject(op), found))
         [] IsTable(Replacement(op)) ->
              IF ~looked.ok \/ ~Replaceable(First(looked.values))
                THEN Raise(op, v, "InvalidReplacement")
              ELSE onwards(GsubAppend(at, First(looked.values)))
         [] Replacement(op)[1] \in {"num", "str"} ->
              IF expanded = <<>> THEN Raise(op, v, "InvalidReplacement")
              ELSE onwards([at EXCEPT !.s.result = @ \o expanded[1]])
GsubDone(op, v) ==
    Finish(op, v, <<Str(op.s.result \o Slice(Subject(op), op.s.copied, Len(Subject(op)))),
                    Num(op.s.count)>>)
GsubAt(op, v, next) ==
    CASE next[1] = Malformed -> Raise(op, v, "Malformed")
      [] next[1] = NoMatch -> GsubDone(op, v)
      [] OTHER -> GsubReplace([op EXCEPT !.s.search = next[2]], v, next[1])
GsubNext(op, v) ==
    IF op.s.count >= Limit(op) \/ op.s.search > Len(Subject(op)) THEN GsubDone(op, v)
    ELSE GsubAt(op, v, find_next_gsub_match(Subject(op), Pattern(op), op.s.search,
                                            op.s.previous, LatestEmpty))

string_gsub(op, v) ==
    GsubNext([op EXCEPT !.s = [result |-> <<>>, search |-> 0, copied |-> 0, previous |-> {},
                               count |-> 0, found |-> NoMatch]], v)
GsubReply(op, v, values) ==
    LET value == First(values)
        appended == GsubAppend(op, value)
    IN IF ~Replaceable(value) THEN Raise(op, v, "InvalidReplacement")
       ELSE GsubNext(IF op.awaited THEN advance_gsub_operation(appended)
                     ELSE AdvancedAndCopied(appended), v)

-----------------------------------------------------------------------------
(* string.sub, find and match; item.arguments is <<subject, pattern, first *)
(* position, plain>>, for sub <<subject, first, last>>.                    *)
relative_index(index, length) == IF index < 0 THEN length + index + 1 ELSE index
string_sub(s, first, last) ==
    LET start == Max({1, Min({relative_index(first, Len(s)), Len(s) + 1})})
        end == Max({0, Min({relative_index(last, Len(s)), Len(s)})})
    IN Str(IF start > end THEN <<>> ELSE Slice(s, start - 1, end))

Start(s, initial) == Max({1, relative_index(initial, Len(s))}) - 1
FindResult(s, found) ==
    IF found = NoMatch THEN <<Nil>>
    ELSE <<Num(found.start + 1), Num(found.end)>> \o append_basic_capture_values(s, found)
string_find(s, p, initial, plain) ==
    CASE Start(s, initial) > Len(s) -> <<Nil>>
      [] Start(s, initial) <= Len(s) /\ plain -> FindResult(s, PlainFind(s, p, Start(s, initial)))
      [] OTHER -> FindResult(s, find_basic_lua_pattern(s, p, Start(s, initial), FALSE))
MatchResult(s, found) == IF found = NoMatch THEN <<Nil>> ELSE CapturesOrWhole(s, found)
string_match(s, p, initial) ==
    IF Start(s, initial) > Len(s) THEN <<Nil>>
    ELSE MatchResult(s, find_basic_lua_pattern(s, p, Start(s, initial), FALSE))

(* string.gmatch: the state of an iterator, and one call of it.  `given'   *)
(* counts the calls.                                                       *)
string_gmatch(s, p, initial) ==
    LET begin == IF Profile \in Modern \union {"Lua54", "Lua55"} THEN Start(s, initial) ELSE 0
    IN [subject |-> s, pattern |-> p, next_start |-> begin, exhausted |-> begin > Len(s),
        previous |-> {}, first |-> begin, given |-> 0]
GmatchAfter(state, found, start) ==
    IF found = NoMatch THEN [state EXCEPT !.exhausted = TRUE, !.next_start = start]
    ELSE IF found.end > found.start
      THEN [state EXCEPT !.next_start = found.end, !.previous = {found.end}]
    ELSE IF found.start < Len(state.subject) THEN [state EXCEPT !.next_start = found.start + 1]
    ELSE [state EXCEPT !.exhausted = TRUE, !.next_start = start]
GmatchStep(state, next) ==
    [state |-> GmatchAfter(state, next[1], next[2]), values |-> MatchResult(state.subject, next[1])]
GmatchNext(state) ==
    IF state.exhausted THEN [state |-> state, values |-> <<Nil>>]
    ELSE GmatchStep(state, find_next_gsub_match(state.subject, state.pattern, state.next_start,
                                                state.previous, LatestEmpty))

-----------------------------------------------------------------------------
(* load with a reader: the chunks are collected until nil or "".  What the *)
(* completion makes of the text is the engine's; here it is the text.      *)
invoke_load_reader(op, v) ==
    Calls([op EXCEPT !.s = [source |-> <<>>]], v, op.item.arguments[1][2], <<>>)
consume_load_reader_chunk(op, v, values) ==
    LET chunk == First(values)
    IN CASE chunk \in {Nil, Str(<<>>)} -> Finish(op, v, <<Str(op.s.source)>>)
         [] chunk[1] = "str" /\ chunk # Str(<<>>) ->
              IF Len(op.s.source) + Len(chunk[2]) > SourceLimit
                THEN Finish(op, v, <<Nil, Name("limit")>>)
              ELSE Calls([op EXCEPT !.s.source = @ \o chunk[2]], v, op.item.arguments[1][2], <<>>)
         [] OTHER -> Finish(op, v, <<Nil, Name("type")>>)

-----------------------------------------------------------------------------
(* require.  The name is in loading_modules while its searchers and its    *)
(* loader run.                                                             *)
TableIn(v, t, name) ==
    IF t # NoMeta /\ IsTable(RawGet(v.store, t, Name(name)))
      THEN RawGet(v.store, t, Name(name))[2] ELSE NoMeta
ModuleName(op) == op.item.arguments[1]
NeverUnloading(op, v) == v
Unloading(op, v) == [v EXCEPT !.loading = @ \ {ModuleName(op)}]

finish_require_module(op, v, value) ==
    LET done == [Unloading(op, v) EXCEPT !.cache = With(@, ModuleName(op), value)]
        written == table_set(done.store, op.s.loaded, ModuleName(op), value)
    IN IF op.s.loaded = NoMeta THEN Finish(op, done, <<value>>)
       ELSE Ending(op, done, written, <<value>>)
require_loader_value(values) == IF First(values) = Nil THEN Bool(TRUE) ELSE First(values)

(* The first searcher at or after index that is not nil, if any.           *)
SearcherAt(v, searchers, index, count) ==
    {i \in index..count : RawGet(v.store, searchers, Num(i)) # Nil}
CallSearcher(op, v, i) ==
    Calls([op EXCEPT !.phase = "searcher", !.s.index = i], v,
          RawGet(v.store, op.s.searchers, Num(i))[2], <<ModuleName(op)>>)

(* continue_require_searchers, with the length of the searchers read again *)
(* for each of them.                                                       *)
continue_require_searchers(op, v, values) ==
    LET loader == First(values)
        extra == IF Len(values) < 2 THEN Nil ELSE values[2]
        left == SearcherAt(v, op.s.searchers, op.s.index + 1, Max(Borders(v.store, op.s.searchers)))
        later == [op EXCEPT !.s.first = FALSE]
    IN CASE IsFunction(loader) ->
              Calls([later EXCEPT !.phase = "loader", !.s.loader = loader], v, loader[2],
                    <<ModuleName(op), extra>>)
         [] ~IsFunction(loader) /\ values # <<>> /\ loader[1] # "str" ->
              Raise(later, Unloading(op, v), "SearcherType")
         [] OTHER ->
              IF left = {} THEN Raise(later, Unloading(op, v), "ModuleLoaderMissing")
              ELSE CallSearcher(later, v, Min(left))

require(op, v) ==
    LET name == ModuleName(op)
        loaded == TableIn(v, Package, "loaded")
        fields == IF Profile = "Lua51" THEN <<"loaders", "searchers">> ELSE <<"searchers", "loaders">>
        searchers == IF TableIn(v, Package, fields[1]) # NoMeta THEN TableIn(v, Package, fields[1])
                     ELSE TableIn(v, Package, fields[2])
        cached == IF loaded = NoMeta THEN Nil ELSE RawGet(v.store, loaded, name)
        entered == [v EXCEPT !.loading = @ \union {name}]
        begun == [op EXCEPT !.s = [loaded |-> loaded, searchers |-> searchers, index |-> 0,
                                   first |-> TRUE, loader |-> Nil]]
        all == SearcherAt(v, searchers, 1, Max(Borders(v.store, searchers)))
    IN CASE cached # Nil -> Finish(op, v, <<cached>>)
         [] cached = Nil /\ name \in DOMAIN v.cache -> Finish(op, v, <<v.cache[name]>>)
         [] cached = Nil /\ name \notin DOMAIN v.cache /\ name \in v.loading ->
              Raise(op, v, "CircularModule")
         [] OTHER ->
              IF searchers = NoMeta
                THEN IF name \in scenario.host THEN finish_require_module(begun, entered, name)
                     ELSE Raise(begun, v, "ModuleLoaderMissing")
              ELSE IF all = {} THEN Raise(begun, v, "ModuleLoaderMissing")
              ELSE CallSearcher(begun, entered, Min(all))

RequireReply(op, v, values) ==
    IF op.phase = "loader" THEN finish_require_module(op, v, require_loader_value(values))
    ELSE continue_require_searchers(op, v, values)

(* The searchers and the loader that every VM is given.                    *)
preload_searcher(v, name) ==
    LET preload == TableIn(v, Package, "preload")
    IN IF preload = NoMeta \/ RawGet(v.store, preload, name) = Nil THEN <<Name("no field")>>
       ELSE <<RawGet(v.store, preload, name)>>
host_searcher == IF scenario.host # {} THEN <<Fun("host_loader")>> ELSE <<Name("no host")>>
host_loader(name) == IF name \in scenario.host THEN <<name>> ELSE <<>>

-----------------------------------------------------------------------------
(* The functions that make one call: tostring, pairs, ipairs, the          *)
(* preparation of a generic for, and dofile.                               *)
Handler(op, v, event, profiles) ==
    IF Profile \in profiles THEN Metamethod(v.store, op.item.table, event) ELSE Nil
OneCall(op, v, handler, default) ==
    IF handler = Nil THEN Finish(op, v, default)
    ELSE Calls(op, v, handler[2], <<Tab(op.item.table)>>)
tostring(op, v) ==
    OneCall(op, v, Handler(op, v, "__tostring", Modern \union LuaFamily), <<Name("table")>>)
pairs(op, v) ==
    OneCall(op, v, Handler(op, v, "__pairs", (Modern \union LuaFamily) \ {"Lua51"}),
            <<Fun("next"), Tab(op.item.table), Nil>>)
ipairs(op, v) ==
    OneCall(op, v, Handler(op, v, "__ipairs", {"Lua52", "Lua53"}),
            <<Fun("inext"), Tab(op.item.table), Num(0)>>)
prepare_iter(op, v) ==
    OneCall(op, v, Handler(op, v, "__iter", Modern),
            IF Profile \in Modern /\ Metamethod(v.store, op.item.table, "__call") = Nil
              THEN <<Fun("next"), Tab(op.item.table), Nil>> ELSE <<Tab(op.item.table)>>)
invoke_dofile_callback(op, v) == Calls(op, v, op.item.arguments[1][2], <<>>)

tostring_callback_result(op, v, values) ==
    IF First(values)[1] # "str" THEN Raise(op, v, "TostringResult")
    ELSE Finish(op, v, <<First(values)>>)
validate_generic_iterator_result(op, v, values) ==
    LET iterator == First(values)
    IN IF IsFunction(iterator)
          \/ (IsTable(iterator) /\ Metamethod(v.store, iterator[2], "__call") # Nil)
         THEN Finish(op, v, values)
       ELSE Raise(op, v, "NotCallable")

-----------------------------------------------------------------------------
(* How an operation begins, and how it takes the results of its callback.  *)
Resumables == {"sort", "foreach", "foreachi", "gsub", "load", "require", "tostring", "pairs",
               "ipairs", "iter", "dofile"}
Begin(op, v, length) ==
    CASE op.item.fn = "sort" -> sort(op, v, length)
      [] op.item.fn = "foreach" -> foreach(op, v)
      [] op.item.fn = "foreachi" -> foreachi(op, v, length)
      [] op.item.fn = "gsub" -> string_gsub(op, v)
      [] op.item.fn = "load" -> invoke_load_reader(op, v)
      [] op.item.fn = "require" -> require(op, v)
      [] op.item.fn = "tostring" -> tostring(op, v)
      [] op.item.fn = "pairs" -> pairs(op, v)
      [] op.item.fn = "ipairs" -> ipairs(op, v)
      [] op.item.fn = "iter" -> prepare_iter(op, v)
      [] op.item.fn = "dofile" -> invoke_dofile_callback(op, v)
resume_blu_operation(op, v, values) ==
    CASE op.item.fn = "sort" -> SortReply(op, v, values)
      [] op.item.fn = "foreach" -> resume_table_foreach(op, v, values)
      [] op.item.fn = "foreachi" -> resume_table_foreachi(op, v, values)
      [] op.item.fn = "gsub" -> GsubReply(op, v, values)
      [] op.item.fn = "load" -> consume_load_reader_chunk(op, v, values)
      [] op.item.fn = "require" -> RequireReply(op, v, values)
      [] op.item.fn = "tostring" -> tostring_callback_result(op, v, values)
      [] op.item.fn = "iter" -> validate_generic_iterator_result(op, v, values)
      [] op.item.fn \in {"pairs", "ipairs", "dofile"} -> Finish(op, v, values)

(* The callbacks that must not yield (invoke_native_callback_without_yield *)
(* and _fast).                                                             *)
MustNotYield(op) ==
    \/ op.item.fn = "sort" /\ op.phase = "validate"
    \/ op.item.fn = "tostring" /\ Profile \notin Modern
    \/ op.item.fn = "require" /\ op.phase = "loader" /\ Profile \notin LuaFamily

(* An error of the callback: a require forgets that it is loading, except  *)
(* that the first searcher called directly returns without doing so.       *)
Forgets(op) == op.item.fn = "require" /\ ~(op.mode = "direct" /\ op.s.first)
Failed(op, v, error) == Raise(op, IF Forgets(op) THEN Unloading(op, v) ELSE v, error)

(* A native function answers at once; yielding itself is refused, because  *)
(* no guest frame could be captured.                                       *)
IsNative(f) == f \in {"preload_searcher", "host_searcher", "host_loader", "yield"}
Native(v, f, arguments) ==
    CASE f = "preload_searcher" -> Answer(v.store, preload_searcher(v, arguments[1]))
      [] f = "host_searcher" -> Answer(v.store, host_searcher)
      [] f = "host_loader" /\ host_loader(arguments[1]) # <<>> ->
           Answer(v.store, host_loader(arguments[1]))
      [] f = "host_loader" /\ host_loader(arguments[1]) = <<>> -> Refusal(v.store, "HostError")
      [] f = "yield" -> Refusal(v.store, "UnsupportedLibraryFeature")

(* The frames of a thread after a move of the operation on top of `under'. *)
Advance(frames) == [frames EXCEPT ![Len(frames)].pc = @ + 1]
Ended(under, m) ==
    IF m.move = "done"
      THEN [frames |-> Advance(under), vm |-> m.vm, failed |-> FALSE,
            finished |-> [done |-> TRUE, op |-> m.op, values |-> m.values,
                          store |-> vm.store, after |-> m.vm.store]]
      ELSE [frames |-> Append(under, m.op), vm |-> m.vm, finished |-> NoFinished, failed |-> TRUE]
RECURSIVE Settle(_, _)
Replied(m, answer) ==
    IF answer.ok THEN resume_blu_operation(m.op, m.vm, answer.values)
    ELSE Failed(m.op, m.vm, answer.error)
Settle(under, m) ==
    CASE m.move = "call" /\ IsNative(m.f) ->
           Settle(under, Replied(m, Native(m.vm, m.f, m.values)))
      [] m.move = "call" /\ ~IsNative(m.f) ->
           [frames |-> under \o <<m.op, Guest(m.f, m.values)>>, vm |-> m.vm,
            finished |-> NoFinished, failed |-> FALSE]
      [] OTHER -> Ended(under, m)

-----------------------------------------------------------------------------
(* What the collector finds.  A suspended operation is held by the roots   *)
(* of its PendingBluOperation, which a resume keeps until it ends; a       *)
(* direct one by its native context.                                       *)
Objects(values) == {x \in values : x[1] \in {"tab", "fun"}}
SortRootsWithoutCurrent(op) == ToSet(op.s.values)
SortRoots(op) == ToSet(op.s.values) \union (IF op.phase = "insert" THEN {op.s.current} ELSE {})
pending_blu_operation_roots(op) ==
    LET arguments == ToSet(op.item.arguments)
    IN CASE op.item.fn = "sort" ->
              {Tab(op.item.table)} \union arguments \union SortRoots(op)
         [] op.item.fn = "foreach" ->
              {Tab(op.item.table), op.s.previous, op.s.key, op.s.value} \union arguments
         [] op.item.fn = "foreachi" -> {Tab(op.item.table), op.s.value} \union arguments
         [] op.item.fn = "gsub" -> {Replacement(op)}
         [] op.item.fn = "load" -> arguments
         [] op.item.fn = "require" ->
              {Tab(op.s.loaded), ModuleName(op)}
              \union (IF op.phase = "loader" THEN {op.s.loader} ELSE {Tab(op.s.searchers)})
         [] OTHER -> {}
CallRoots(op) == ToSet(Last(op.calls))
DirectRoots(op) ==
    {Tab(op.item.table)} \union ToSet(op.item.arguments) \union CallRoots(op)
    \union (IF op.item.fn = "sort" THEN SortRoots(op) ELSE {})
(* The registers of a guest frame hold what its later statements mention;  *)
(* what a function writes to is among its upvalues.                        *)
Mentioned(statement) ==
    IF statement.do = "call"
      THEN {Tab(statement.item.table)} \union ToSet(statement.item.arguments) ELSE {}
Upvalues(f) ==
    LET body == scenario.functions[f].body
    IN {Tab(body[i].table) : i \in {j \in DOMAIN body : body[j].do \in {"erase", "erasevisited"}}}
       \union {body[i].value : i \in {j \in DOMAIN body : body[j].do = "replace"}}
GuestRoots(frame, waiting) ==
    LET body == scenario.functions[frame.fn].body
    IN {Fun(frame.fn)}
       \union UNION {Mentioned(body[i]) : i \in {j \in DOMAIN body :
                        IF waiting THEN j > frame.pc ELSE j >= frame.pc}}
FrameRoots(t, i) ==
    LET frame == stack[t][i]
    IN CASE ~IsOp(frame) -> GuestRoots(frame, i < Len(stack[t]))
         [] IsOp(frame) /\ status[t] = "suspended" -> pending_blu_operation_roots(frame)
         [] IsOp(frame) /\ status[t] # "suspended" /\ frame.mode = "direct" -> DirectRoots(frame)
         [] OTHER -> frame.held \union (IF frame.awaited THEN {} ELSE CallRoots(frame))
Roots ==
    {Tab(Package)} \union scenario.globals \union Range(vm.cache)
    \union UNION {UNION {FrameRoots(t, i) : i \in DOMAIN stack[t]} : t \in Threads}

Referred(x) ==
    IF x[1] = "fun" THEN IF x[2] \in DOMAIN scenario.functions THEN Upvalues(x[2]) ELSE {}
    ELSE IF x[2] \notin DOMAIN vm.store THEN {}
    ELSE LET table == vm.store[x[2]]
         IN DOMAIN table.entries \union Range(table.entries) \union {Tab(table.meta)}
RECURSIVE Reachable(_)
Reachable(objects) ==
    LET next == objects \union Objects(UNION {Referred(x) : x \in objects})
    IN IF next = objects THEN objects ELSE Reachable(next)
AllObjects == {Tab(t) : t \in DOMAIN vm.store} \union {Fun(f) : f \in DOMAIN scenario.functions}

-----------------------------------------------------------------------------
Init ==
    /\ scenario \in Scenarios
    /\ vm = [store |-> scenario.store, loading |-> {}, cache |-> <<>>, iterators |-> <<>>]
    /\ stack = [t \in Threads |-> <<Guest(scenario.threads[t], <<>>)>>]
    /\ status = [t \in Threads |-> IF t = "main" THEN "running" ELSE "fresh"]
    /\ current = "main"
    /\ dead = {} /\ finished = NoFinished /\ tainted = {}
    /\ loads = <<>>
    /\ yields = 0 /\ collections = 0

Frames == stack[current]
Top == Last(Frames)
Body == scenario.functions[Top.fn].body
Statement(kind) == ~IsOp(Top) /\ Top.pc <= Len(Body) /\ Body[Top.pc].do = kind
Item == Body[Top.pc].item
Requires(frames) == {f \in ToSet(frames) : IsOp(f) /\ f.item.fn = "require" /\ f.phase # "start"}
Names(ops) == {ModuleName(op) : op \in ops}

(* An error leaves every frame of its thread; the host goes on with the    *)
(* next statement of the main thread.                                      *)
Crash(frames, v) ==
    LET forgetful == {op \in Requires(frames) : Forgets(op)}
    IN /\ vm' = [v EXCEPT !.loading = @ \ Names(forgetful)]
       /\ tainted' = tainted \union Names(Requires(frames) \ forgetful)
       /\ stack' = [stack EXCEPT ![current] =
                      IF current = "main" THEN Advance(<<@[1]>>) ELSE <<>>]
       /\ status' = [status EXCEPT ![current] = IF current = "main" THEN @ ELSE "dead"]
       /\ current' = "main"
       /\ finished' = NoFinished
       /\ UNCHANGED loads

Counted(op) ==
    IF op.item.fn = "require" /\ op.s # <<>>
      THEN [n \in DOMAIN loads \union {ModuleName(op)} |->
              (IF n \in DOMAIN loads THEN loads[n] ELSE 0)
              + (IF n = ModuleName(op) THEN 1 ELSE 0)]
      ELSE loads
Becomes(r) ==
    IF r.failed THEN Crash(r.frames, r.vm)
    ELSE /\ vm' = r.vm
         /\ stack' = [stack EXCEPT ![current] = r.frames]
         /\ finished' = r.finished
         /\ loads' = IF r.finished.done THEN Counted(r.finished.op) ELSE loads
         /\ UNCHANGED <<status, current, tainted>>

(* A guest statement calls a native function that may call back ...        *)
CallResumable ==
    /\ Statement("call") /\ Item.fn \in Resumables
    /\ LET before == IF Item.table = NoMeta THEN <<>> ELSE vm.store[Item.table].entries
           op == Operation(Item, current, before)
           lengths == IF Item.fn = "sort" THEN table_library_length(vm.store, Profile, Item.table)
                      ELSE IF Item.fn = "foreachi"
                        THEN {Answer(vm.store, <<Num(n)>>) : n \in Borders(vm.store, Item.table)}
                      ELSE {Answer(vm.store, <<Num(0)>>)}
       IN \E length \in lengths :
            Becomes(Settle(Frames,
                           IF length.ok THEN Begin(op, Storing(vm, length), First(length.values)[2])
                           ELSE Raise(op, Storing(vm, length), length.error)))
    /\ UNCHANGED <<scenario, dead, yields, collections>>

(* ... or one of the table library that answers at once.                   *)
CallLibrary ==
    /\ Statement("call") /\ Item.fn \notin Resumables
    /\ LET op == Operation(Item, current, <<>>)
       IN \E answer \in Outcomes(vm.store, Profile, Item) :
            Becomes(Ended(Frames, Ending(op, vm, answer, answer.values)))
    /\ UNCHANGED <<scenario, dead, yields, collections>>

(* ... or one of the string library.  An iterator of gmatch keeps its      *)
(* state from call to call.                                                *)
StringAnswer(item) ==
    LET a == item.arguments
    IN CASE item.fn = "string.sub" -> <<string_sub(a[1][2], a[2][2], a[3][2])>>
         [] item.fn = "string.find" -> string_find(a[1][2], a[2][2], a[3][2], Truthy(a[4]))
         [] item.fn = "string.match" -> string_match(a[1][2], a[2][2], a[3][2])
         [] item.fn = "string.gmatch" -> <<Fun("iterator")>>
CallString ==
    /\ Statement("string")
    /\ LET made == string_gmatch(Item.arguments[1][2], Item.arguments[2][2], Item.arguments[3][2])
           v == IF Item.fn = "string.gmatch" THEN [vm EXCEPT !.iterators = Append(@, made)] ELSE vm
       IN Becomes(Ended(Frames, Finish(Operation(Item, current, <<>>), v, StringAnswer(Item))))
    /\ UNCHANGED <<scenario, dead, yields, collections>>
CallIterator ==
    /\ Statement("next")
    /\ LET i == Body[Top.pc].iterator
           step == GmatchNext(vm.iterators[i])
           after == [step.state EXCEPT !.given = @ + 1]
           op == Operation([fn |-> "next", table |-> NoMeta, arguments |-> <<after>>], current, <<>>)
       IN Becomes(Ended(Frames, Finish(op, [vm EXCEPT !.iterators[i] = after], step.values)))
    /\ UNCHANGED <<scenario, dead, yields, collections>>

(* Statements of callbacks: erase the table's entries or the one just      *)
(* visited, put another table into `package', fail.                        *)
Continue(store) ==
    /\ vm' = [vm EXCEPT !.store = store]
    /\ stack' = [stack EXCEPT ![current] = Advance(@)]
    /\ finished' = NoFinished
    /\ UNCHANGED <<scenario, status, current, dead, tainted, loads, yields, collections>>
Erase ==
    /\ Statement("erase")
    /\ Continue([vm.store EXCEPT ![Body[Top.pc].table].entries = <<>>])
EraseVisited ==
    /\ Statement("erasevisited")
    /\ Continue([vm.store EXCEPT ![Body[Top.pc].table].entries = With(@, Top.arguments[1], Nil)])
Replace ==
    /\ Statement("replace")
    /\ Continue([vm.store EXCEPT ![Package].entries =
                    With(@, Name(Body[Top.pc].field), Body[Top.pc].value)])
Fail ==
    /\ Statement("fail")
    /\ Crash(Frames, vm)
    /\ UNCHANGED <<scenario, dead, yields, collections>>

(* A function returns to the operation that called it, or ends its thread. *)
Return ==
    /\ ~IsOp(Top) /\ Top.pc > Len(Body) /\ Len(Frames) > 1
    /\ LET op == Frames[Len(Frames) - 1]
       IN Becomes(Settle(SubSeq(Frames, 1, Len(Frames) - 2),
                         resume_blu_operation(op, vm, Reply(Top.fn, Top.arguments, Len(op.calls)))))
    /\ UNCHANGED <<scenario, dead, yields, collections>>
ThreadEnds ==
    /\ Frames # <<>> /\ Top.pc > Len(Body) /\ Len(Frames) = 1 /\ current # "main"
    /\ stack' = [stack EXCEPT ![current] = <<>>]
    /\ status' = [status EXCEPT ![current] = "dead"]
    /\ current' = "main" /\ finished' = NoFinished
    /\ UNCHANGED <<scenario, vm, dead, tainted, loads, yields, collections>>

(* coroutine.yield, where the scenario allows it.  Every operation of the  *)
(* thread becomes pending; a require that called a later searcher or the   *)
(* loader directly takes the yield for an error and forgets its name.      *)
Blockers == {i \in DOMAIN Frames : IsOp(Frames[i]) /\ MustNotYield(Frames[i])}
Pending(frame) ==
    IF ~IsOp(frame) THEN frame
    ELSE LET found == frame.s.found
             empty == frame.item.fn = "gsub" /\ found.end = found.start
                      /\ found.start < Len(Subject(frame))
             waiting == [frame EXCEPT !.mode = "resumed", !.awaited = TRUE,
                                      !.astray = @ \/ empty]
         IN IF frame.item.fn = "require"
              THEN [waiting EXCEPT !.lost = @ \/ (frame.mode = "direct" /\ ~frame.s.first),
                                   !.s.first = FALSE]
              ELSE waiting
Yield ==
    /\ Statement("yield") /\ current # "main" /\ yields < MaxYields
    /\ yields' = yields + 1
    /\ IF Blockers # {}
         THEN Crash(Frames, vm)
         ELSE LET frames == [i \in DOMAIN Frames |-> Pending(Advance(Frames)[i])]
                  forgotten == {op \in Requires(Frames) : op.mode = "direct" /\ ~op.s.first}
              IN /\ stack' = [stack EXCEPT ![current] = frames]
                 /\ vm' = [vm EXCEPT !.loading = @ \ Names(forgotten)]
                 /\ tainted' = tainted \union Names(forgotten)
                 /\ status' = [status EXCEPT ![current] = "suspended"]
                 /\ current' = "main" /\ finished' = NoFinished
                 /\ UNCHANGED loads
    /\ UNCHANGED <<scenario, dead, collections>>
GoOn ==
    /\ Statement("yield")
    /\ Continue(vm.store)

(* The host, between two statements of the main thread.                    *)
AtHost == current = "main" /\ Len(stack["main"]) = 1
Holding(frame) ==
    IF IsOp(frame) THEN [frame EXCEPT !.held = pending_blu_operation_roots(frame)] ELSE frame
Resume(t) ==
    /\ AtHost /\ status[t] \in {"fresh", "suspended"}
    /\ stack' = [stack EXCEPT ![t] = [i \in DOMAIN stack[t] |-> Holding(stack[t][i])]]
    /\ status' = [status EXCEPT ![t] = "running"]
    /\ current' = t /\ finished' = NoFinished
    /\ UNCHANGED <<scenario, vm, dead, tainted, loads, yields, collections>>
Close(t) ==
    /\ AtHost /\ status[t] = "suspended"
    /\ tainted' = tainted \union Names(Requires(stack[t]))
    /\ stack' = [stack EXCEPT ![t] = <<>>]
    /\ status' = [status EXCEPT ![t] = "dead"]
    /\ finished' = NoFinished
    /\ UNCHANGED <<scenario, vm, current, dead, loads, yields, collections>>

Collect ==
    /\ collections < MaxCollections /\ Frames # <<>> /\ ~IsOp(Top)
    /\ collections' = collections + 1
    /\ dead' = dead \union (AllObjects \ Reachable(Objects(Roots)))
    /\ finished' = NoFinished
    /\ UNCHANGED <<scenario, vm, stack, status, current, tainted, loads, yields>>

AllDone ==
    /\ AtHost /\ Top.pc > Len(Body)
    /\ \A t \in Coroutines : status[t] = "dead"
    /\ UNCHANGED vars

Next ==
    \/ CallResumable \/ CallLibrary \/ CallString \/ CallIterator \/ Return \/ ThreadEnds
    \/ Erase \/ EraseVisited \/ Replace \/ Fail
    \/ Yield \/ GoOn \/ Collect
    \/ \E t \in Coroutines : Resume(t) \/ Close(t)
    \/ AllDone

Spec == Init /\ [][Next]_vars

-----------------------------------------------------------------------------
TypeOK ==
    /\ current \in Threads /\ status[current] = "running"
    /\ \A t \in Threads :
         /\ status[t] \in {"fresh", "running", "suspended", "dead"}
         /\ (stack[t] = <<>>) <=> (status[t] = "dead")
         /\ \A i \in DOMAIN stack[t] : IsOp(stack[t][i]) <=> i % 2 = 0
    /\ DOMAIN vm.cache \subseteq DOMAIN loads

(* The meaning of each function, from what it was given and from what its  *)
(* callback says to each call, whoever yielded in between.                 *)
Listing(entries) ==
    LET full == {n \in 0..MaxInteger : \A i \in 1..n : Num(i) \in DOMAIN entries}
    IN [i \in 1..Max(full) |-> entries[Num(i)]]
SaidTo(op, f, i) == Reply(f, op.calls[i], i)

SortMeant(f) ==
    LET op == f.op
        orderly == Comparator(op) = Nil \/ scenario.functions[Comparator(op)[2]].ordered
    IN orderly => Listing(f.after[op.item.table].entries) = Sorted(Listing(op.before))

(* foreach stops at the first result that is not nil.  After a yield the   *)
(* resumed copy looks at the last result: callbacks with several results   *)
(* are left out there.                                                     *)
VisitsMeant(f, all) ==
    LET op == f.op
        said(i) == SaidTo(op, op.item.arguments[1][2], i)
        n == Len(op.calls)
        single == \A i \in 1..n : Len(said(i)) <= 1
        last == IF n = 0 THEN Nil ELSE First(said(n))
    IN single \/ op.mode = "direct" =>
         /\ f.values = <<last>>
         /\ \A i \in 1..(n - 1) : First(said(i)) = Nil
         /\ IsInjective(op.calls)
         /\ IF last = Nil THEN ToSet(op.calls) = all ELSE ToSet(op.calls) \subseteq all
ForeachMeant(f) == VisitsMeant(f, {<<k, f.op.before[k]>> : k \in DOMAIN f.op.before})
ForeachiMeant(f) ==
    LET listed == Listing(f.op.before)
    IN VisitsMeant(f, {<<Num(i), listed[i]>> : i \in DOMAIN listed})

GsubMeantFor(f, s, matches) ==
    LET replacement == Replacement(f.op)
        whole(m) == Slice(s, m.start, m.end)
        said(i) ==
            LET key == CapturesOrWhole(s, matches[i])
            IN CASE IsFunction(replacement) -> First(Reply(replacement[2], key, i))
                 [] IsTable(replacement) -> RawGet(f.store, replacement[2], key[1])
                 [] OTHER -> Str(append_gsub_replacement(replacement[2], s, matches[i])[1])
        text(value, m) == IF Truthy(value) THEN Rendered(value) ELSE whole(m)
        texts == [i \in DOMAIN matches |-> text(said(i), matches[i])]
    IN f.values = <<Str(Weave(s, matches, texts, 0)), Num(Len(matches))>>
GsubMeant(f) ==
    LET s == Subject(f.op)
    IN ~f.op.astray =>
         GsubMeantFor(f, s, AllMatches(s, Pattern(f.op), 0, -1, LatestEmpty, Limit(f.op)))

LoadMeant(f) ==
    LET op == f.op
        n == Len(op.calls)
        chunk(i) == First(SaidTo(op, op.item.arguments[1][2], i))
        text == FlattenSeq([i \in 1..(n - 1) |-> chunk(i)[2]])
    IN /\ \A i \in 1..(n - 1) : chunk(i)[1] = "str" /\ chunk(i)[2] # <<>>
       /\ Len(text) <= SourceLimit
       /\ IF f.values = <<Str(text)>> THEN chunk(n) \in {Nil, Str(<<>>)}
          ELSE /\ First(f.values) = Nil
               /\ chunk(n)[1] # "str" \/ Len(text) + Len(chunk(n)[2]) > SourceLimit

(* What a function of the string or table library returns and stores does  *)
(* not depend on whether, where and how often its callbacks yielded: both  *)
(* copies of every operation, direct and resumed, do what the function     *)
(* means.  Left out: the byte that gsub loses when a callback yields at an *)
(* empty match, and callbacks of foreach with several results.             *)
YieldsAreInvisible ==
    finished.done =>
        CASE finished.op.item.fn = "sort" -> SortMeant(finished)
          [] finished.op.item.fn = "foreach" -> ForeachMeant(finished)
          [] finished.op.item.fn = "foreachi" -> ForeachiMeant(finished)
          [] finished.op.item.fn = "gsub" -> GsubMeant(finished)
          [] finished.op.item.fn = "load" -> LoadMeant(finished)
          [] OTHER -> TRUE

Replaced(entries, r) ==
    LET kept == Restrict(entries, DOMAIN entries \ {Num(i) : i \in DOMAIN Listing(entries)})
    IN [k \in DOMAIN kept \union DOMAIN Listed(r) |->
          IF k \in DOMAIN kept THEN kept[k] ELSE Listed(r)[k]]
Meant(f) ==
    LET item == f.op.item
        t == item.table
        a == item.arguments
        q == Listing(f.store[t].entries)
        n == Len(q)
        at == IF item.fn = "insert" /\ Len(a) = 1 THEN n + 1
              ELSE IF a = <<>> THEN n ELSE a[1][2]
        range(first, last) == [i \in 1..(last - first + 1) |-> RawGet(f.store, t, Num(first + i - 1))]
        becomes(r) == f.after = [f.store EXCEPT ![t].entries = Replaced(@, r)]
        u == IF Len(a) = 4 THEN a[4][2] ELSE t
        moved(k) == IF k[1] = "num" /\ k[2] \in a[3][2]..(a[3][2] + a[2][2] - a[1][2])
                      THEN RawGet(f.store, t, Num(a[1][2] + k[2] - a[3][2]))
                      ELSE RawGet(f.store, u, k)
    IN CASE item.fn = "insert" ->
              at \in 1..(n + 1) => becomes(InsertAt(q, at, Last(a)))
         [] item.fn = "remove" ->
              at \in 1..n => becomes(RemoveAt(q, at)) /\ f.values = <<q[at]>>
         [] item.fn = "move" ->
              /\ \A k \in DOMAIN f.store[u].entries \union DOMAIN f.after[u].entries
                          \union {Num(i) : i \in MinInteger..MaxInteger} :
                    RawGet(f.after, u, k) = moved(k)
              /\ \A x \in DOMAIN f.store \ {u} : f.after[x] = f.store[x]
         [] item.fn \in {"unpack", "gunpack"} ->
              /\ f.after = f.store
              /\ a = <<>> => f.values = q
              /\ Len(a) = 2 => f.values = range(a[1][2], a[2][2])
         [] item.fn = "concat" ->
              /\ f.after = f.store
              /\ Len(a) = 1 => f.values = <<Str(Joined(q, a[1][2]))>>
         [] item.fn = "clone" ->
              \A k \in DOMAIN f.store[t].entries \union DOMAIN f.after[f.values[1][2]].entries :
                 RawGet(f.after, f.values[1][2], k) = RawGet(f.store, t, k)
         [] OTHER -> TRUE
(* find, match and gmatch give the matches of the pattern by the meaning   *)
(* of patterns (Preferred), which knows no stack and no iterator.          *)
StringMeant(f) ==
    LET item == f.op.item
        a == item.arguments
        s == a[1][2]
        from == Start(s, a[3][2])
        found == AllMatches(s, a[2][2], from, -1, FALSE, 1)
        anchored == ByteAt(a[2][2], 0) = "^"
        given == AllMatches(a[1].subject, a[1].pattern, a[1].first, -1, LatestEmpty, a[1].given)
    IN CASE item.fn = "string.find" /\ (from = 0 \/ ~anchored) /\ ~Truthy(a[4]) ->
              f.values = FindResult(s, IF found = <<>> THEN NoMatch ELSE found[1])
         [] item.fn = "string.match" /\ (from = 0 \/ ~anchored) ->
              f.values = MatchResult(s, IF found = <<>> THEN NoMatch ELSE found[1])
         [] item.fn = "next" ->
              f.values = IF Len(given) < a[1].given THEN <<Nil>>
                         ELSE CapturesOrWhole(a[1].subject, Last(given))
         [] OTHER -> TRUE
ProxyOf(store, t) ==
    LET target == Metamethod(store, t, "__index")
    IN IF /\ t \in DOMAIN store /\ store[t].entries = <<>> /\ IsTable(target)
          /\ Metamethod(store, t, "__newindex") = target /\ Metamethod(store, t, "__len") # Nil
         THEN {target[2]} ELSE {}
Sequential(store, t) == store[t].meta = NoMeta /\ Cardinality(Borders(store, t)) = 1

(* The table functions on a plain sequence do to it what their manual says *)
(* at once, although they shift one position after the other; on a proxy,  *)
(* a table that is empty and forwards to another by its metatable, they do *)
(* what they would do on that other table.  find, match and the iterators  *)
(* of gmatch, which keep their place from call to call, give the matches   *)
(* of the pattern.                                                         *)
LibraryMeansWhatItSays ==
    finished.done /\ finished.op.item.fn \notin Resumables =>
        LET f == finished
            item == f.op.item
        IN /\ StringMeant(f)
           /\ (item.table # NoMeta /\ Sequential(f.store, item.table)) => Meant(f)
           /\ (item.table # NoMeta /\ Profile # "Lua51" /\ item.fn \in AsksLength \union {"move"}) =>
                \A d \in ProxyOf(f.store, item.table) :
                   \E answer \in Outcomes(f.store, Profile, [item EXCEPT !.table = d]) :
                      /\ answer.ok /\ answer.store = f.after
                      /\ item.fn # "move" => answer.values = f.values

(* What an operation still needs is not collected while its callback runs  *)
(* or while it is suspended: the values a sort has read, the one it is     *)
(* inserting (which is in no table any more), the tables and functions it  *)
(* goes on with.  Left out: a direct require does not hold the tables of   *)
(* `package' that it read.                                                 *)
Uses(op) ==
    CASE op.item.fn = "sort" ->
           {Tab(op.item.table), Comparator(op)} \union ToSet(op.s.values)
           \union (IF op.phase = "insert" THEN {op.s.current} ELSE {})
      [] op.item.fn \in {"foreach", "foreachi"} -> {Tab(op.item.table), op.item.arguments[1]}
      [] op.item.fn = "gsub" -> {Replacement(op)}
      [] op.item.fn = "load" -> ToSet(op.item.arguments)
      [] op.item.fn = "require" ->
           IF op.mode = "direct" THEN {}
           ELSE {Tab(op.s.loaded)} \union (IF op.phase = "loader" THEN {} ELSE {Tab(op.s.searchers)})
      [] OTHER -> {}
OperationsKeepTheirValues ==
    \A t \in Threads : \A i \in DOMAIN stack[t] :
        /\ IsOp(stack[t][i]) => Uses(stack[t][i]) \intersect dead = {}
        /\ ~IsOp(stack[t][i]) => Fun(stack[t][i].fn) \notin dead

(* A module is loaded once, whichever threads ask for it and however often *)
(* its searchers and loaders yield or fail: its name is being loaded       *)
(* exactly while one require works on it, at most one does, and everyone   *)
(* gets the value of the one load that was finished.  Left out: names that *)
(* a failing first searcher, a loader that yields to a direct require or   *)
(* the closing of a coroutine have taken out of step (tainted).            *)
Working(name) ==
    {<<t, i>> \in Threads \X (1..Max({Len(stack[x]) : x \in Threads})) :
        /\ i \in DOMAIN stack[t] /\ stack[t][i] \in Requires(stack[t])
        /\ ModuleName(stack[t][i]) = name}
ModulesLoadOnce ==
    \A name \in scenario.names \ tainted :
        /\ Cardinality(Working(name)) <= 1
        /\ (name \in vm.loading) <=> (Working(name) # {})
        /\ name \in DOMAIN loads => loads[name] = 1
        /\ finished.done /\ finished.op.item.fn = "require" /\ ModuleName(finished.op) = name
             => finished.values = <<vm.cache[name]>>
=============================================================================
