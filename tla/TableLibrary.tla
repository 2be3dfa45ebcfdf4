---------------------------- MODULE TableLibrary ----------------------------
(***************************************************************************)
(* The table library of vm.rs (install_table_library) as functions from a  *)
(* store of tables to an answer [ok, store, values, error].  Every access  *)
(* follows the metatables the way index_value and set_index do, one        *)
(* position after the other, so an error in the middle of a shift leaves   *)
(* the positions written so far.                                           *)
(*                                                                         *)
(* A table is a partial function from keys to values with a metatable and  *)
(* a frozen mark.  How long a table with holes is depends on its storage   *)
(* (TableStore); here `length' is any border the storage could report.     *)
(* Integers have the width of MaxInteger, so that `#t + 1' can wrap.       *)
(***************************************************************************)
EXTENDS Integers, Sequences, FiniteSets, SequencesExt, FiniteSetsExt, Functions

CONSTANTS
    MaxInteger,         \* i64::MAX
    ChainLimit,         \* the metatables an access follows
    MaxResults,         \* the results unpack may return
    Handle(_, _, _)     \* what a metamethod does to a store

Nil == <<"nil">>
Num(n) == <<"num", n>>
Str(s) == <<"str", s>>
Tab(t) == <<"tab", t>>
Fun(f) == <<"fun", f>>
Bool(b) == <<"bool", b>>
Name(n) == Str(<<n>>)
IsTable(v) == v[1] = "tab"
IsFunction(v) == v[1] = "fun"
Truthy(v) == v \notin {Nil, Bool(FALSE)}

NoMeta == 0
MinInteger == -MaxInteger - 1
Wrap(n) == IF n > MaxInteger THEN n - 2 * (MaxInteger + 1) ELSE n
AtMost(n) == IF n > MaxInteger THEN MaxInteger ELSE n

Modern == {"Blu", "Luau"}
LuaFamily == {"Lua51", "Lua52", "Lua53", "Lua54", "Lua55"}

Answer(store, values) == [ok |-> TRUE, store |-> store, values |-> values, error |-> "none"]
Refusal(store, error) == [ok |-> FALSE, store |-> store, values |-> <<>>, error |-> error]
First(values) == IF values = <<>> THEN Nil ELSE values[1]

-----------------------------------------------------------------------------
(* Raw reads and writes (Heap::table_get, Vm::table_set).                  *)
RawGet(store, t, key) ==
    IF key \in DOMAIN store[t].entries THEN store[t].entries[key] ELSE Nil
With(entries, key, value) ==
    IF value = Nil THEN Restrict(entries, DOMAIN entries \ {key})
    ELSE [k \in DOMAIN entries \union {key} |-> IF k = key THEN value ELSE entries[k]]
table_set(store, t, key, value) ==
    IF store[t].frozen THEN Refusal(store, "FrozenTable")
    ELSE Answer([store EXCEPT ![t].entries = With(@, key, value)], <<>>)

Metamethod(store, t, event) ==
    IF store[t].meta = NoMeta THEN Nil ELSE RawGet(store, store[t].meta, Name(event))

(* index_value through native_table_get_without_yield: the metatables are  *)
(* followed while the key is absent; a function answers for its table.     *)
RECURSIVE Follow(_, _, _, _)
Follow(store, t, key, fuel) ==
    LET value == RawGet(store, t, key)
        index == Metamethod(store, t, "__index")
        reply == Handle(store, index[2], <<Tab(t), key>>)
    IN CASE fuel = 0 -> Refusal(store, "MetatableLoop")
         [] fuel > 0 /\ (value # Nil \/ index = Nil) -> Answer(store, <<value>>)
         [] fuel > 0 /\ value = Nil /\ IsTable(index) -> Follow(store, index[2], key, fuel - 1)
         [] fuel > 0 /\ value = Nil /\ IsFunction(index) ->
              IF reply.ok THEN Answer(reply.store, <<First(reply.values)>>) ELSE reply
         [] OTHER -> Refusal(store, "UnsupportedMetamethod")
Get(store, t, n) == Follow(store, t, Num(n), ChainLimit)

(* set_index through native_table_set_without_yield: an entry that exists  *)
(* is assigned where it is, an absent one goes where __newindex says.      *)
RECURSIVE Assign(_, _, _, _, _)
Assign(store, t, key, value, fuel) ==
    LET existing == RawGet(store, t, key)
        newindex == Metamethod(store, t, "__newindex")
        reply == Handle(store, newindex[2], <<Tab(t), key, value>>)
    IN CASE fuel = 0 -> Refusal(store, "MetatableLoop")
         [] fuel > 0 /\ (existing # Nil \/ newindex = Nil) -> table_set(store, t, key, value)
         [] fuel > 0 /\ existing = Nil /\ IsTable(newindex) ->
              Assign(store, newindex[2], key, value, fuel - 1)
         [] fuel > 0 /\ existing = Nil /\ IsFunction(newindex) ->
              IF reply.ok THEN Answer(reply.store, <<>>) ELSE reply
         [] OTHER -> Refusal(store, "UnsupportedMetamethod")
Put(store, t, n, value) == Assign(store, t, Num(n), value, ChainLimit)

(* The lengths a table can report: table_length_for_profile for the raw    *)
(* ones, the answer of __len for table_library_length (not in Lua 5.1).    *)
Borders(store, t) ==
    {n \in 0..MaxInteger : /\ n = 0 \/ RawGet(store, t, Num(n)) # Nil
                           /\ n = MaxInteger \/ RawGet(store, t, Num(n + 1)) = Nil}
table_library_length(store, profile, t) ==
    LET handler == Metamethod(store, t, "__len")
        reply == Handle(store, handler[2], <<Tab(t), Tab(t)>>)
    IN IF profile = "Lua51" \/ handler = Nil
         THEN {Answer(store, <<Num(n)>>) : n \in Borders(store, t)}
       ELSE IF ~reply.ok THEN {reply}
       ELSE IF First(reply.values)[1] # "num" THEN {Refusal(reply.store, "LengthNotInteger")}
       ELSE {Answer(reply.store, <<First(reply.values)>>)}

-----------------------------------------------------------------------------
(* Copies t[from(i)] to u[to(i)] for the steps i = 1..count in order, and  *)
(* stops at the first access that fails.                                   *)
RECURSIVE Copy(_, _, _, _, _, _, _)
Copy(store, t, u, From(_), To(_), i, count) ==
    LET read == Get(store, t, From(i))
        written == Put(read.store, u, To(i), First(read.values))
    IN IF i > count THEN Answer(store, <<>>)
       ELSE IF ~read.ok THEN read
       ELSE IF ~written.ok THEN written
       ELSE Copy(written.store, t, u, From, To, i + 1, count)

(* The values at from, from + 1, ..., to.                                  *)
RECURSIVE ReadRange(_, _, _, _, _)
ReadRange(store, t, from, to, values) ==
    LET read == Get(store, t, from)
    IN IF from > to THEN Answer(store, values)
       ELSE IF ~read.ok THEN read
       ELSE ReadRange(read.store, t, from + 1, to, Append(values, First(read.values)))

(* Stores the values at from, from + 1, ... with set(store, position, v).  *)
RECURSIVE WriteAll(_, _, _, _)
WriteAll(store, Set(_, _, _), from, values) ==
    LET written == Set(store, from, Head(values))
    IN IF values = <<>> THEN Answer(store, <<>>)
       ELSE IF ~written.ok THEN written
       ELSE WriteAll(written.store, Set, from + 1, Tail(values))

Nat0(n) == IF n < 0 THEN 0 ELSE n

(* table.insert: the tail moves up from its end.  Blu and Luau store at a  *)
(* position outside the sequence, the others refuse it.                    *)
insert(store, profile, t, arguments, length) ==
    LET appending == Len(arguments) = 1
        position == IF appending THEN Wrap(length + 1) ELSE arguments[1][2]
        value == Last(arguments)
        outside == position < 1 \/ position > AtMost(length + 1)
        shifted == Copy(store, t, t, LAMBDA i : length - i + 1,
                        LAMBDA i : Wrap(length - i + 2), 1, Nat0(length - position + 1))
    IN CASE Len(arguments) \notin {1, 2} -> Refusal(store, "WrongArguments")
         [] Len(arguments) \in {1, 2} /\ outside ->
              IF appending \/ profile \in Modern THEN Put(store, t, position, value)
              ELSE Refusal(store, "TablePosition")
         [] OTHER -> IF shifted.ok THEN Put(shifted.store, t, position, value) ELSE shifted

(* table.remove: Lua 5.1 and Luau answer nil for a position outside the    *)
(* sequence; the others also accept #t and #t + 1.                         *)
remove(store, profile, t, arguments, length) ==
    LET position == IF arguments = <<>> THEN length ELSE arguments[1][2]
        strict == profile \in {"Blu", "Lua52", "Lua53", "Lua54", "Lua55"}
        valid == position = length \/ (position >= 1 /\ position <= AtMost(length + 1))
        removed == Get(store, t, position)
        shifted == Copy(removed.store, t, t, LAMBDA i : position + i, LAMBDA i : position + i - 1,
                        1, Nat0(length - position))
        cleared == Put(shifted.store, t, IF position > length THEN position ELSE length, Nil)
    IN CASE strict /\ ~valid -> Refusal(store, "TablePosition")
         [] ~strict /\ (position < 1 \/ position > length) -> Answer(store, <<Nil>>)
         [] OTHER -> IF ~removed.ok THEN removed
                     ELSE IF position < 0 \/ length < 0 THEN Refusal(removed.store, "InvalidRange")
                     ELSE IF ~shifted.ok THEN shifted
                     ELSE IF ~cleared.ok THEN cleared
                     ELSE Answer(cleared.store, removed.values)

(* table.concat reads every value twice: first to check and to measure it, *)
(* then to append it.                                                      *)
Rendered(v) == IF v[1] = "str" THEN v[2] ELSE <<ToString(v[2])>>
Joined(values, separator) ==
    FlattenSeq([i \in DOMAIN values |->
                  (IF i = 1 THEN <<>> ELSE separator) \o Rendered(values[i])])
concat(store, profile, t, arguments, length) ==
    LET separator == IF arguments = <<>> THEN <<>> ELSE arguments[1][2]
        start == IF Len(arguments) < 2 THEN 1 ELSE arguments[2][2]
        end == IF Len(arguments) < 3 THEN length ELSE arguments[3][2]
        measured == ReadRange(store, t, start, end, <<>>)
        copied == ReadRange(measured.store, t, start, end, <<>>)
    IN IF ~measured.ok THEN measured
       ELSE IF \E i \in DOMAIN measured.values : measured.values[i][1] \notin {"num", "str"}
         THEN Refusal(measured.store, "ConcatType")
       ELSE IF ~copied.ok THEN copied
       ELSE Answer(copied.store, <<Str(Joined(copied.values, separator))>>)

(* table.pack and table.unpack.                                            *)
Fresh(store) == Max(DOMAIN store) + 1
Allocate(store, entries, meta) ==
    [t \in DOMAIN store \union {Fresh(store)} |->
        IF t = Fresh(store) THEN [entries |-> entries, meta |-> meta, frozen |-> FALSE]
        ELSE store[t]]
Listed(values) == [k \in {Num(i) : i \in {j \in DOMAIN values : values[j] # Nil}} |-> values[k[2]]]
pack(store, profile, arguments) ==
    IF profile = "Lua51" THEN Refusal(store, "UnsupportedSemanticProfile")
    ELSE Answer(Allocate(store, With(Listed(arguments), Name("n"), Num(Len(arguments))), NoMeta),
                <<Tab(Fresh(store))>>)
unpack_table_values(store, profile, t, arguments, length) ==
    LET given(i, default) ==
            IF Len(arguments) < i \/ arguments[i] = Nil THEN default ELSE arguments[i][2]
        start == given(1, 1)
        end == given(2, length)
    IN IF end < start THEN Answer(store, <<>>)
       ELSE IF end - start + 1 > MaxResults THEN Refusal(store, "StackLimit")
       ELSE ReadRange(store, t, start, end, <<>>)
unpack(store, profile, t, arguments, length) ==
    IF profile = "Lua51" THEN Refusal(store, "UnsupportedSemanticProfile")
    ELSE unpack_table_values(store, profile, t, arguments, length)
global_unpack(store, profile, t, arguments, length) ==
    IF profile \in {"Lua53", "Lua54", "Lua55"} THEN Refusal(store, "UnsupportedSemanticProfile")
    ELSE unpack_table_values(store, profile, t, arguments, length)

(* table.move: backwards when the target overlaps the source from above.   *)
NeverBackwards(t, u, first, last, target) == FALSE
Backwards(t, u, first, last, target) == t = u /\ target > first /\ target <= last
move_values(store, profile, t, arguments) ==
    LET first == arguments[1][2]
        last == arguments[2][2]
        target == arguments[3][2]
        u == IF Len(arguments) < 4 THEN t ELSE arguments[4][2]
        count == last - first + 1
        step(i) == IF Backwards(t, u, first, last, target) THEN count - i ELSE i - 1
        moved == Copy(store, t, u, LAMBDA i : first + step(i), LAMBDA i : target + step(i),
                      1, count)
    IN IF profile \in {"Lua51", "Lua52"} THEN Refusal(store, "UnsupportedSemanticProfile")
       ELSE IF profile \in Modern /\ store[u].frozen THEN Refusal(store, "FrozenTable")
       ELSE IF last < first THEN Answer(store, <<Tab(u)>>)
       ELSE IF count > MaxInteger THEN Refusal(store, "TooManyElements")
       ELSE IF target + count - 1 > MaxInteger THEN Refusal(store, "WrapAround")
       ELSE IF ~moved.ok THEN moved
       ELSE Answer(moved.store, <<Tab(u)>>)

(* The functions of Blu and Luau: create, find, clear, clone, freeze and   *)
(* isfrozen work on the raw table; so do getn and maxn.  find is given a   *)
(* number: two tables it would compare by their __eq, which is left out.   *)
create(store, profile, count, fill) ==
    IF profile \notin Modern \union {"Lua55"} THEN Refusal(store, "UnsupportedSemanticProfile")
    ELSE IF count < 0 THEN Refusal(store, "TableCreateOutOfRange")
    ELSE Answer(Allocate(store, Listed([i \in 1..count |-> IF profile = "Lua55" THEN Nil ELSE fill]),
                         NoMeta),
                <<Tab(Fresh(store))>>)
find(store, profile, t, needle, start, length) ==
    LET run == {n \in start..MaxInteger : \A i \in start..n : RawGet(store, t, Num(i)) # Nil}
        end == IF length < start /\ run # {} THEN Max(run) ELSE length
        found == {n \in start..end : RawGet(store, t, Num(n)) = needle}
    IN IF profile \notin Modern THEN Refusal(store, "UnsupportedSemanticProfile")
       ELSE IF start < 1 THEN Refusal(store, "InvalidRange")
       ELSE Answer(store, <<IF found = {} THEN Nil ELSE Num(Min(found))>>)
clear(store, profile, t) ==
    IF profile \notin Modern THEN Refusal(store, "UnsupportedSemanticProfile")
    ELSE IF store[t].frozen THEN Refusal(store, "FrozenTable")
    ELSE Answer([store EXCEPT ![t].entries = <<>>], <<>>)
clone_table(store, profile, t) ==
    IF profile \notin Modern THEN Refusal(store, "UnsupportedSemanticProfile")
    ELSE IF Metamethod(store, t, "__metatable") # Nil THEN Refusal(store, "MetatableProtected")
    ELSE Answer(Allocate(store, store[t].entries, store[t].meta), <<Tab(Fresh(store))>>)
freeze(store, profile, t) ==
    IF profile \notin Modern THEN Refusal(store, "UnsupportedSemanticProfile")
    ELSE IF Metamethod(store, t, "__metatable") # Nil THEN Refusal(store, "MetatableProtected")
    ELSE IF store[t].frozen THEN Refusal(store, "AlreadyFrozen")
    ELSE Answer([store EXCEPT ![t].frozen = TRUE], <<Tab(t)>>)
is_frozen(store, profile, t) ==
    IF profile \notin Modern THEN Refusal(store, "UnsupportedSemanticProfile")
    ELSE Answer(store, <<Bool(store[t].frozen)>>)
getn(store, profile, t, length) ==
    IF profile \notin Modern \union {"Lua51"} THEN Refusal(store, "UnsupportedSemanticProfile")
    ELSE Answer(store, <<Num(length)>>)
maxn(store, profile, t) ==
    LET numbers == {k[2] : k \in {x \in DOMAIN store[t].entries : x[1] = "num"}}
    IN IF profile \notin Modern \union {"Lua51", "Lua52"}
         THEN Refusal(store, "UnsupportedSemanticProfile")
       ELSE Answer(store, <<Num(Max(numbers \union {0}))>>)

-----------------------------------------------------------------------------
(* One call of the library: item is [fn, table, arguments].  The length is *)
(* asked for before the arguments are looked at, as in the code; the raw   *)
(* functions ignore __len.                                                 *)
AsksLength == {"insert", "remove", "concat", "unpack", "gunpack"}
RawLength == {"find", "getn"}
Lengths(store, profile, item) ==
    CASE item.fn \in AsksLength -> table_library_length(store, profile, item.table)
      [] item.fn \in RawLength -> {Answer(store, <<Num(n)>>) : n \in Borders(store, item.table)}
      [] OTHER -> {Answer(store, <<Num(0)>>)}

Apply(item, profile, s, length) ==
    LET t == item.table
        a == item.arguments
    IN CASE item.fn = "insert" -> insert(s, profile, t, a, length)
         [] item.fn = "remove" -> remove(s, profile, t, a, length)
         [] item.fn = "concat" -> concat(s, profile, t, a, length)
         [] item.fn = "pack" -> pack(s, profile, a)
         [] item.fn = "unpack" -> unpack(s, profile, t, a, length)
         [] item.fn = "gunpack" -> global_unpack(s, profile, t, a, length)
         [] item.fn = "move" -> move_values(s, profile, t, a)
         [] item.fn = "create" -> create(s, profile, a[1][2], a[2])
         [] item.fn = "find" -> find(s, profile, t, a[1], a[2][2], length)
         [] item.fn = "clear" -> clear(s, profile, t)
         [] item.fn = "clone" -> clone_table(s, profile, t)
         [] item.fn = "freeze" -> freeze(s, profile, t)
         [] item.fn = "isfrozen" -> is_frozen(s, profile, t)
         [] item.fn = "getn" -> getn(s, profile, t, length)
         [] item.fn = "maxn" -> maxn(s, profile, t)

Outcomes(store, profile, item) ==
    {IF length.ok THEN Apply(item, profile, length.store, First(length.values)[2]) ELSE length :
        length \in Lengths(store, profile, item)}
=============================================================================
