------------------------------ MODULE Patterns ------------------------------
(***************************************************************************)
(* Lua patterns: find_basic_lua_pattern, match_basic_pattern_at and the    *)
(* functions of the string library that are built on them (vm.rs).  A      *)
(* string is a sequence of bytes and a byte is a one-letter string; the    *)
(* order of ByteOrder stands for the numeric order of the bytes.           *)
(* Positions count from 0, as in the code: the byte at position p of s is  *)
(* s[p + 1].  A match is [start, end, captures, count]; NoMatch is the     *)
(* None of the code and Malformed any of its errors about a pattern.       *)
(*                                                                         *)
(* The work limit of the matcher (10 000 000 steps) and the limit of 32    *)
(* captures are out of reach of the small strings used here.               *)
(***************************************************************************)
EXTENDS Naturals, Sequences, SequencesExt, FiniteSetsExt

NoMatch == [result |-> "none"]
Malformed == [result |-> "error"]

(* A few bytes of every class the patterns tell apart; Zero is the byte    *)
(* that a frontier sees beyond both ends of the subject.                   *)
Zero == "zero"
Digits == {"0", "1"}
Lower == {"a", "b", "c"}
Upper == {"A"}
Space == {" "}
Punctuation == {".", "-", "(", ")", "%", "[", "]", "^", "$", "*", "+", "?"}
ByteOrder == <<Zero, " ", "$", "%", "(", ")", "*", "+", "-", ".", "0", "1", "?",
               "A", "[", "]", "^", "a", "b", "c">>
Bytes == ToSet(ByteOrder)
Special == {"^", "$", "(", ")", "%", ".", "[", "]", "*", "+", "-", "?"}

ByteAt(s, p) == IF p \in 0..(Len(s) - 1) THEN s[p + 1] ELSE Zero
Slice(s, from, to) == SubSeq(s, from + 1, to)

-----------------------------------------------------------------------------
(* The letters that name a class after `%'; a capital one is the rest      *)
(* (`%g', which Lua 5.1 lacks, and most capitals are left out).            *)
ClassOf(letter) ==
    CASE letter = "a" -> Lower \union Upper
      [] letter = "A" -> Bytes \ (Lower \union Upper)
      [] letter \in {"c", "z"} -> {Zero}
      [] letter = "d" -> Digits
      [] letter = "l" -> Lower
      [] letter = "p" -> Punctuation
      [] letter = "s" -> Space
      [] letter = "u" -> Upper
      [] letter = "w" -> Lower \union Upper \union Digits
      [] letter = "x" -> Lower \union Upper \union Digits
ClassLetters == {"a", "A", "c", "d", "l", "p", "s", "u", "w", "x", "z"}

(* parse_basic_pattern_set: the end of the set is found first (a `]' that  *)
(* is the first item is an ordinary byte), then escapes, ranges and single *)
(* bytes are collected.  The result is <<set, position after it>>, or      *)
(* <<>> for a set without an end.                                          *)
RECURSIVE SetEnd(_, _, _)
SetEnd(p, i, first) ==
    CASE i >= Len(p) -> Len(p)
      [] ByteAt(p, i) = "]" /\ i > first -> i
      [] OTHER -> SetEnd(p, i + (IF ByteAt(p, i) = "%" THEN 2 ELSE 1), first)

ByteRange(low, high) ==
    {ByteOrder[i] : i \in IndexFirstSubSeq(<<low>>, ByteOrder)..
                          IndexFirstSubSeq(<<high>>, ByteOrder)}

RECURSIVE SetItems(_, _, _)
SetItems(p, i, end) ==
    CASE i >= end -> {}
      [] ByteAt(p, i) = "%" ->
           (IF ByteAt(p, i + 1) \in ClassLetters THEN ClassOf(ByteAt(p, i + 1))
                                                 ELSE {ByteAt(p, i + 1)})
           \union SetItems(p, i + 2, end)
      [] ByteAt(p, i) # "%" /\ i + 2 < end /\ ByteAt(p, i + 1) = "-" ->
           ByteRange(ByteAt(p, i), ByteAt(p, i + 2)) \union SetItems(p, i + 3, end)
      [] OTHER -> {ByteAt(p, i)} \union SetItems(p, i + 1, end)

parse_basic_pattern_set(p, start) ==
    LET negated == ByteAt(p, start + 1) = "^"
        first == start + (IF negated THEN 2 ELSE 1)
        end == SetEnd(p, first, first)
        items == SetItems(p, first, end)
    IN IF end >= Len(p) THEN <<>>
       ELSE <<IF negated THEN Bytes \ items ELSE items, end + 1>>

-----------------------------------------------------------------------------
(* One atom of a pattern at position i: [atom, next], [atom |-> "error"]   *)
(* when it is malformed.  `open' holds the captures not yet closed.        *)
Atom(kind, next) == [kind |-> kind, next |-> next, set |-> {}, capture |-> 0,
                     pair |-> <<>>]
EscapedAtom(p, i) ==
    LET letter == ByteAt(p, i + 1)
    IN CASE i + 1 >= Len(p) -> Atom("error", i)
         [] letter = "b" ->
              IF i + 3 >= Len(p) THEN Atom("error", i)
              ELSE [Atom("balanced", i + 4) EXCEPT
                      !.pair = <<ByteAt(p, i + 2), ByteAt(p, i + 3)>>]
         [] letter = "f" ->
              IF ByteAt(p, i + 2) # "[" \/ parse_basic_pattern_set(p, i + 2) = <<>>
                THEN Atom("error", i)
              ELSE [Atom("frontier", parse_basic_pattern_set(p, i + 2)[2]) EXCEPT
                      !.set = parse_basic_pattern_set(p, i + 2)[1]]
         [] letter \in ClassLetters -> [Atom("one", i + 2) EXCEPT !.set = ClassOf(letter)]
         [] letter = "1" -> Atom("back", i + 2)
         [] letter = "0" -> Atom("error", i)
         [] OTHER -> [Atom("one", i + 2) EXCEPT !.set = {letter}]

PlainAtom(p, i, open, count) ==
    LET byte == ByteAt(p, i)
        set == parse_basic_pattern_set(p, i)
    IN CASE byte = "." -> [Atom("one", i + 1) EXCEPT !.set = Bytes]
         [] byte = "%" -> EscapedAtom(p, i)
         [] byte = "[" -> IF set = <<>> THEN Atom("error", i)
                          ELSE [Atom("one", set[2]) EXCEPT !.set = set[1]]
         [] byte = "(" /\ ByteAt(p, i + 1) = ")" ->
              [Atom("position", i + 2) EXCEPT !.capture = count]
         [] byte = "(" /\ ByteAt(p, i + 1) # ")" ->
              [Atom("start", i + 1) EXCEPT !.capture = count]
         [] byte = ")" -> IF open = <<>> THEN Atom("error", i)
                          ELSE [Atom("end", i + 1) EXCEPT !.capture = Last(open)]
         [] byte \in {"*", "+", "?", "-", "]"} -> Atom("error", i)
         [] OTHER -> [Atom("one", i + 1) EXCEPT !.set = {byte}]

(* The pieces of a pattern: [ok, pieces, tail, count] with tail when the   *)
(* pattern ends in `$'.                                                    *)
RECURSIVE Pieces(_, _, _, _, _)
Extended(p, atom, pieces, open, count) ==
    LET mark == ByteAt(p, atom.next)
        repeated == mark \in {"*", "+", "?", "-"}
    IN Pieces(p, atom.next + (IF repeated THEN 1 ELSE 0),
              Append(pieces, [atom |-> atom, repetition |-> IF repeated THEN mark ELSE "one"]),
              CASE atom.kind = "start" -> Append(open, atom.capture)
                [] atom.kind = "end" -> Front(open)
                [] OTHER -> open,
              count + (IF atom.kind \in {"start", "position"} THEN 1 ELSE 0))
OrError(atom, extended) ==
    IF atom.kind = "error" THEN [ok |-> FALSE, pieces |-> <<>>, tail |-> FALSE, count |-> 0]
    ELSE extended
Pieces(p, i, pieces, open, count) ==
    LET tail == ByteAt(p, i) = "$" /\ i + 1 = Len(p)
        atom == PlainAtom(p, i, open, count)
    IN IF i >= Len(p) \/ tail
         THEN [ok |-> open = <<>>, pieces |-> pieces, tail |-> tail, count |-> count]
       ELSE OrError(atom, Extended(p, atom, pieces, open, count))

-----------------------------------------------------------------------------
(* The captures of a match, from the events on the way to it.  A capture   *)
(* counts as set once its end has been passed; a position capture is both  *)
(* ends at once (materialize_basic_captures).                              *)
Unset == [set |-> FALSE, position |-> FALSE, start |-> 0, end |-> 0]
Event(kind, atom, at) == [kind |-> kind, capture |-> atom.capture, at |-> at]

materialize_basic_captures(trail, count) ==
    [c \in 1..count |->
        LET at(kind) == {e.at : e \in {x \in ToSet(trail) : x.capture = c - 1 /\ x.kind = kind}}
        IN CASE at("position") # {} ->
                  [set |-> TRUE, position |-> TRUE,
                   start |-> Max(at("position")), end |-> Max(at("position"))]
             [] at("end") # {} ->
                  [set |-> TRUE, position |-> FALSE,
                   start |-> Max(at("start")), end |-> Max(at("end"))]
             [] OTHER -> Unset]

(* The end of the balanced stretch that starts at position p, if any.      *)
RECURSIVE BalancedEnd(_, _, _, _)
BalancedEnd(s, pair, p, depth) ==
    CASE p >= Len(s) -> 0
      [] ByteAt(s, p) = pair[2] -> IF depth = 1 THEN p + 1 ELSE BalancedEnd(s, pair, p + 1, depth - 1)
      [] ByteAt(s, p) = pair[1] /\ pair[1] # pair[2] -> BalancedEnd(s, pair, p + 1, depth + 1)
      [] OTHER -> BalancedEnd(s, pair, p + 1, depth)

(* How many bytes in a row the atom of a repeated piece takes at most.     *)
RECURSIVE Reach(_, _, _)
Reach(s, piece, p) ==
    IF p >= Len(s) \/ ByteAt(s, p) \notin piece.atom.set THEN 0
    ELSE IF piece.repetition = "?" THEN 1
    ELSE 1 + Reach(s, piece, p + 1)

(* match_basic_pattern_at: a stack of states to try, the last one first.   *)
(* A Match state stands before a piece; a Repeat state still has shorter   *)
(* (or, for `-', longer) repetitions of its piece to offer.                *)
Matching(piece, p, trail) == [try |-> "match", piece |-> piece, at |-> p, trail |-> trail,
                              count |-> 0, bound |-> 0]
Repeating(piece, p, trail, count, bound) ==
    [try |-> "repeat", piece |-> piece, at |-> p, trail |-> trail,
     count |-> count, bound |-> bound]

(* The states that one Match state before an atom that is not repeated     *)
(* leaves behind; <<Malformed>> for a reference to an unfinished capture.  *)
After(s, pattern, state) ==
    LET piece == pattern.pieces[state.piece]
        next(p, trail) == <<Matching(state.piece + 1, p, trail)>>
        p == state.at
        atom == piece.atom
        stop == BalancedEnd(s, atom.pair, p + 1, 1)
        capture == materialize_basic_captures(state.trail, pattern.count)[1]
        text == Slice(s, capture.start, capture.end)
    IN CASE atom.kind \in {"start", "end", "position"} ->
              next(p, Append(state.trail, Event(atom.kind, atom, p)))
         [] atom.kind = "frontier" ->
              IF ByteAt(s, p - 1) \notin atom.set /\ ByteAt(s, p) \in atom.set
                THEN next(p, state.trail) ELSE <<>>
         [] atom.kind = "balanced" ->
              IF p < Len(s) /\ ByteAt(s, p) = atom.pair[1] /\ stop # 0
                THEN next(stop, state.trail) ELSE <<>>
         [] atom.kind = "back" ->
              IF pattern.count = 0 THEN <<Malformed>>
              ELSE IF ~capture.set THEN <<Malformed>>
              ELSE IF ~capture.position /\ p + Len(text) <= Len(s)
                      /\ Slice(s, p, p + Len(text)) = text
                THEN next(p + Len(text), state.trail) ELSE <<>>
         [] atom.kind = "one" ->
              IF p < Len(s) /\ ByteAt(s, p) \in atom.set
                THEN next(p + 1, state.trail) ELSE <<>>

RECURSIVE TryStates(_, _, _)
TryStates(s, pattern, states) ==
    IF states = <<>> THEN NoMatch
    ELSE LET state == Last(states)
             rest == Front(states)
             piece == pattern.pieces[state.piece]
             most == Reach(s, piece, state.at)
             least == IF piece.repetition = "+" THEN 1 ELSE 0
             after == After(s, pattern, state)
         IN CASE state.try = "match" /\ state.piece > Len(pattern.pieces) ->
                   IF ~pattern.tail \/ state.at = Len(s)
                     THEN [result |-> "match", end |-> state.at, trail |-> state.trail]
                     ELSE TryStates(s, pattern, rest)
              [] state.try = "match" /\ state.piece <= Len(pattern.pieces)
                 /\ piece.repetition = "one" ->
                   IF after = <<Malformed>> THEN Malformed
                   ELSE TryStates(s, pattern, rest \o after)
              [] state.try = "match" /\ state.piece <= Len(pattern.pieces)
                 /\ piece.repetition # "one" ->
                   IF piece.atom.kind # "one" THEN Malformed
                   ELSE IF most < least THEN TryStates(s, pattern, rest)
                   ELSE TryStates(s, pattern, Append(rest,
                          IF piece.repetition = "-"
                            THEN Repeating(state.piece, state.at, state.trail, least, most)
                            ELSE Repeating(state.piece, state.at, state.trail, most, least)))
              [] state.try = "repeat" ->
                   TryStates(s, pattern,
                     rest
                     \o (CASE piece.repetition = "-" /\ state.count < state.bound ->
                               <<[state EXCEPT !.count = @ + 1]>>
                           [] piece.repetition # "-" /\ state.count > state.bound ->
                               <<[state EXCEPT !.count = @ - 1]>>
                           [] OTHER -> <<>>)
                     \o <<Matching(state.piece + 1, state.at + state.count, state.trail)>>)

match_basic_pattern_at(s, pattern, p) ==
    TryStates(s, pattern, <<Matching(1, p, <<>>)>>)

(* find_basic_lua_pattern: the first position at or after start where the  *)
(* pattern matches.  A pattern without special bytes is searched for as it *)
(* stands; the functions that iterate apply `^' only at the very start.    *)
Found(start, end, captures) ==
    [result |-> "match", start |-> start, end |-> end, captures |-> captures]

PlainFind(s, p, start) ==
    LET at == {i \in start..Len(s) : i + Len(p) <= Len(s) /\ Slice(s, i, i + Len(p)) = p}
    IN IF at = {} THEN NoMatch ELSE Found(Min(at), Min(at) + Len(p), <<>>)

FirstOf(tried, pattern) ==
    LET places == {i \in DOMAIN tried : tried[i] # NoMatch}
        first == Min(places)
    IN IF places = {} THEN NoMatch
       ELSE IF tried[first] = Malformed THEN Malformed
       ELSE Found(first, tried[first].end,
                  materialize_basic_captures(tried[first].trail, pattern.count))
SearchFrom(s, pattern, start, last) ==
    IF ~pattern.ok THEN Malformed
    ELSE FirstOf([i \in start..last |-> match_basic_pattern_at(s, pattern, i)], pattern)

Compiled(p) == Pieces(p, IF ByteAt(p, 0) = "^" THEN 1 ELSE 0, <<>>, <<>>, 0)
find_basic_lua_pattern(s, p, start, iterating) ==
    LET anchored == ByteAt(p, 0) = "^"
    IN CASE start > Len(s) -> NoMatch
         [] start <= Len(s) /\ ToSet(p) \intersect Special = {} -> PlainFind(s, p, start)
         [] start <= Len(s) /\ ToSet(p) \intersect Special # {} /\ iterating
            /\ anchored /\ start # 0 -> NoMatch
         [] OTHER -> SearchFrom(s, Compiled(p), start, IF anchored THEN start ELSE Len(s))

(* find_next_gsub_match: profiles after Lua 5.2 skip an empty match right  *)
(* behind a match that was not empty.  The result is <<match, where the    *)
(* next search starts if it is not used>>.                                 *)
RECURSIVE find_next_gsub_match(_, _, _, _, _)
NotRepeated(s, p, start, previous, modern, found) ==
    IF found.result = "match" /\ modern /\ found.start = found.end /\ previous = {found.start}
      THEN find_next_gsub_match(s, p, found.start + 1, previous, modern)
      ELSE <<found, start>>
find_next_gsub_match(s, p, start, previous, modern) ==
    NotRepeated(s, p, start, previous, modern, find_basic_lua_pattern(s, p, start, TRUE))

-----------------------------------------------------------------------------
(* What a pattern means, stated without a stack.  Ways(k, p) is the end of *)
(* the preferred way to match the pieces from k on at p: a greedy piece    *)
(* prefers its longest repetition that lets the rest match, a lazy one the *)
(* shortest.                                                               *)
RECURSIVE Preferred(_, _, _, _, _)
Preferred(s, pattern, k, p, trail) ==
    IF k > Len(pattern.pieces)
      THEN IF pattern.tail /\ p # Len(s) THEN NoMatch
           ELSE [result |-> "match", end |-> p, trail |-> trail]
    ELSE LET piece == pattern.pieces[k]
             set == piece.atom.set
             counts == {n \in 0..(Len(s) - p) :
                          /\ \A i \in 0..(n - 1) : ByteAt(s, p + i) \in set
                          /\ CASE piece.repetition = "one" -> n = 1
                               [] piece.repetition = "?" -> n <= 1
                               [] piece.repetition = "+" -> n >= 1
                               [] OTHER -> TRUE}
             rest(n) == Preferred(s, pattern, k + 1, p + n, trail)
             good == {n \in counts : rest(n) # NoMatch}
             after == After(s, pattern, Matching(k, p, trail))
         IN IF piece.atom.kind # "one"
              THEN IF after = <<>> THEN NoMatch
                   ELSE IF after = <<Malformed>> THEN Malformed
                   ELSE Preferred(s, pattern, k + 1, after[1].at, after[1].trail)
            ELSE IF good = {} THEN NoMatch
            ELSE rest(IF piece.repetition = "-" THEN Min(good) ELSE Max(good))

RECURSIVE AllMatches(_, _, _, _, _, _)
MatchesOf(s, p, previous, modern, limit, count, way) ==
    LET places == {j \in DOMAIN way : /\ way[j] # NoMatch
                                      /\ ByteAt(p, 0) = "^" => j = 0
                                      /\ ~(modern /\ way[j].end = j /\ j = previous)}
        i == Min(places)
        end == way[i].end
    IN IF limit = 0 \/ places = {} THEN <<>>
       ELSE <<Found(i, end, materialize_basic_captures(way[i].trail, count))>>
            \o (IF end > i THEN AllMatches(s, p, end, end, modern, limit - 1)
                ELSE AllMatches(s, p, i + 1, previous, modern, limit - 1))
PreferredFrom(s, pattern, from) == [i \in from..Len(s) |-> Preferred(s, pattern, 1, i, <<>>)]
AllMatches(s, p, from, previous, modern, limit) ==
    MatchesOf(s, p, previous, modern, limit, Compiled(p).count,
              PreferredFrom(s, Compiled(p), from))

(* The subject with each match replaced and every other byte kept.         *)
RECURSIVE Weave(_, _, _, _)
Weave(s, matches, replies, from) ==
    IF matches = <<>> THEN Slice(s, from, Len(s))
    ELSE Slice(s, from, Head(matches).start) \o Head(replies)
         \o Weave(s, Tail(matches), Tail(replies), Head(matches).end)
=============================================================================
