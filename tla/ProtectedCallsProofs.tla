------------------------ MODULE ProtectedCallsProofs ------------------------
(***************************************************************************)
(* Protected calls, for every limit, any number of values and any number   *)
(* of moves of guest code: counters follow the Rust activations, nesting   *)
(* is bounded, outcomes reach the calls they belong to, and close_values   *)
(* is what is open.                                                        *)
(***************************************************************************)
EXTENDS ProtectedCalls, FiniteSetTheorems, SequenceTheorems, TLAPS

-----------------------------------------------------------------------------
(* Stacks                                                                  *)

IsStack(s) == \E A : s \in Seq(A)

LEMMA StackFacts ==
    ASSUME NEW s, IsStack(s)
    PROVE  /\ Len(s) \in Nat /\ DOMAIN s = 1 .. Len(s)
           /\ (s = << >>) <=> (Len(s) = 0)
           /\ Last(s) = s[Len(s)]
<1>1. PICK A : s \in Seq(A)
  BY DEF IsStack
<1> QED BY <1>1 DEF Last

LEMMA PopFacts ==
    ASSUME NEW s, IsStack(s), s # << >>
    PROVE  /\ IsStack(Front(s)) /\ Len(Front(s)) = Len(s) - 1
           /\ \A i \in 1 .. Len(s) - 1 : Front(s)[i] = s[i]
<1>1. PICK A : s \in Seq(A)
  BY DEF IsStack
<1>2. Len(s) \in Nat \ {0}
  BY <1>1
<1> DEFINE n == Len(s)
           u == SubSeq(s, 1, n - 1)
<1>3. /\ u \in Seq(A) /\ Len(u) = IF 1 <= n - 1 THEN n - 1 - 1 + 1 ELSE 0
      /\ \A i \in 1 .. n - 1 - 1 + 1 : u[i] = s[1 + i - 1]
  BY <1>1, <1>2, ElementOfSeq, SubSeqProperties
<1>4. Front(s) = u
  BY DEF Front
<1> HIDE DEF u, n
<1>5. n \in Nat \ {0}
  BY <1>2 DEF n
<1>6. Len(u) = n - 1 /\ \A i \in 1 .. n - 1 : u[i] = s[i]
  BY <1>3, <1>5
<1> QED BY <1>3, <1>4, <1>6 DEF n, IsStack

LEMMA PushFacts ==
    ASSUME NEW s, IsStack(s), NEW a
    PROVE  /\ IsStack(Append(s, a)) /\ Len(Append(s, a)) = Len(s) + 1
           /\ Append(s, a)[Len(s) + 1] = a
           /\ \A i \in 1 .. Len(s) : Append(s, a)[i] = s[i]
           /\ s \o <<a>> = Append(s, a)
<1>1. PICK A : s \in Seq(A)
  BY DEF IsStack
<1>2. s \in Seq(A \cup {a}) /\ a \in A \cup {a} /\ <<a>> \in Seq(A \cup {a})
  BY <1>1
<1>3. Append(s, a) \in Seq(A \cup {a})
  BY <1>2
<1>4. s \o <<a>> = Append(s, a)
  BY <1>2
<1> QED BY <1>1, <1>2, <1>3, <1>4 DEF IsStack

LEMMA PushTwice ==
    ASSUME NEW s, IsStack(s), NEW a, NEW b
    PROVE  s \o <<a, b>> = Append(Append(s, a), b)
<1>1. PICK A : s \in Seq(A)
  BY DEF IsStack
<1>2. s \in Seq(A \cup {a, b}) /\ <<a, b>> \in Seq(A \cup {a, b})
  BY <1>1
<1> QED BY <1>2

LEMMA EmptyStack == IsStack(<< >>) /\ Len(<< >>) = 0
BY DEF IsStack

LEMMA SingleStack ==
    ASSUME NEW a
    PROVE  <<a>> = Append(<< >>, a)
OBVIOUS

LEMMA DoubleStack ==
    ASSUME NEW a, NEW b
    PROVE  <<a, b>> = Append(<<a>>, b)
OBVIOUS

-----------------------------------------------------------------------------
(* Counting activations                                                    *)

(* The marks by which the counters count an activation.                    *)
Has(a, tag) ==
    \/ tag = "entered" /\ a.kind = "fallback" /\ a.entered
    \/ tag = "guest" /\ a.kind = "fallback" /\ a.entered /\ ~a.native
    \/ tag = "bypass" /\ a.kind = "fallback" /\ a.restore
    \/ tag = "handler" /\ a.kind = "handler"
    \/ tag = "loop" /\ a.kind = "loop"
    \/ tag = "target" /\ a.kind = "loop" /\ a.by = "target"
    \/ tag = "activated" /\ a.kind = "loop" /\ a.err = Activation
    \/ tag = "finish" /\ a.kind = "loop" /\ a.by = "main" /\ a.status = "unwind"

Marked(s, tag, k) == {i \in 1 .. k : Has(s[i], tag)}
Count(s, tag, k) == Cardinality(Marked(s, tag, k))

LEMMA CountFacts ==
    ASSUME NEW s, NEW tag, NEW k \in Nat
    PROVE  /\ IsFiniteSet(Marked(s, tag, k)) /\ Count(s, tag, k) \in Nat
           /\ Count(s, tag, 0) = 0
           /\ Count(s, tag, k) = 0 <=> \A i \in 1 .. k : ~Has(s[i], tag)
           /\ Count(s, tag, k + 1) = Count(s, tag, k) + (IF Has(s[k + 1], tag) THEN 1 ELSE 0)
<1>1. IsFiniteSet(1 .. k) /\ IsFiniteSet(1 .. 0)
  BY FS_Interval
<1>2. IsFiniteSet(Marked(s, tag, k))
  BY <1>1, FS_Subset DEF Marked
<1>3. Marked(s, tag, 0) = {}
  BY DEF Marked
<1>4. Count(s, tag, k) \in Nat /\ Count(s, tag, 0) = 0
  BY <1>2, <1>3, FS_CardinalityType, FS_EmptySet DEF Count
<1>5. Count(s, tag, k) = 0 <=> Marked(s, tag, k) = {}
  BY <1>2, FS_EmptySet DEF Count
<1>6. Marked(s, tag, k) = {} <=> \A i \in 1 .. k : ~Has(s[i], tag)
  BY DEF Marked
<1>7. CASE Has(s[k + 1], tag)
  <2>1. Marked(s, tag, k + 1) = Marked(s, tag, k) \cup {k + 1}
    BY <1>7 DEF Marked
  <2>2. k + 1 \notin Marked(s, tag, k)
    BY DEF Marked
  <2>3. Count(s, tag, k + 1) = Count(s, tag, k) + 1
    BY <1>2, <2>1, <2>2, FS_AddElement DEF Count
  <2> QED BY <1>2, <1>4, <1>5, <1>6, <1>7, <2>3
<1>8. CASE ~Has(s[k + 1], tag)
  BY <1>8, <1>2, <1>4, <1>5, <1>6 DEF Marked, Count
<1> QED BY <1>7, <1>8

LEMMA CountKept ==
    ASSUME NEW s, NEW u, NEW tag, NEW k \in Nat, \A i \in 1 .. k : s[i] = u[i]
    PROVE  Count(s, tag, k) = Count(u, tag, k)
  BY DEF Marked, Count

Total(s, tag) == Count(s, tag, Len(s))

LEMMA PopTotals ==
    ASSUME NEW s, IsStack(s), s # << >>, NEW tag
    PROVE  /\ Total(s, tag) \in Nat /\ Total(Front(s), tag) \in Nat
           /\ Total(s, tag) = Total(Front(s), tag) + (IF Has(Last(s), tag) THEN 1 ELSE 0)
<1> DEFINE k == Len(s) - 1
           u == Front(s)
<1>1. k \in Nat /\ Len(s) = k + 1 /\ Last(s) = s[k + 1]
  BY StackFacts
<1>2. Len(u) = k /\ \A i \in 1 .. k : u[i] = s[i]
  BY PopFacts
<1> HIDE DEF k, u
<1>3. Count(u, tag, k) = Count(s, tag, k)
  BY <1>1, <1>2, CountKept
<1>4. /\ Count(s, tag, k) \in Nat
      /\ Count(s, tag, k + 1) = Count(s, tag, k) + (IF Has(s[k + 1], tag) THEN 1 ELSE 0)
  BY <1>1, CountFacts
<1>5. Total(s, tag) = Count(s, tag, k) + (IF Has(Last(s), tag) THEN 1 ELSE 0)
  BY <1>1, <1>4 DEF Total
<1>6. Total(u, tag) = Count(s, tag, k)
  BY <1>2, <1>3 DEF Total
<1> QED BY <1>4, <1>5, <1>6 DEF u

LEMMA PushTotals ==
    ASSUME NEW s, IsStack(s), NEW a, NEW tag
    PROVE  /\ Total(s, tag) \in Nat /\ Total(Append(s, a), tag) \in Nat
           /\ Total(Append(s, a), tag) = Total(s, tag) + (IF Has(a, tag) THEN 1 ELSE 0)
<1> DEFINE k == Len(s)
           u == Append(s, a)
<1>1. k \in Nat
  BY StackFacts
<1>2. Len(u) = k + 1 /\ u[k + 1] = a /\ \A i \in 1 .. k : u[i] = s[i]
  BY PushFacts
<1> HIDE DEF k, u
<1>3. Count(u, tag, k) = Count(s, tag, k)
  BY <1>1, <1>2, CountKept
<1>4. /\ Count(u, tag, k) \in Nat
      /\ Count(u, tag, k + 1) = Count(u, tag, k) + (IF Has(u[k + 1], tag) THEN 1 ELSE 0)
  BY <1>1, CountFacts
<1>5. Total(u, tag) = Count(s, tag, k) + (IF Has(a, tag) THEN 1 ELSE 0)
  BY <1>2, <1>3, <1>4 DEF Total
<1>6. Total(s, tag) = Count(s, tag, k)
  BY DEF Total, k
<1> QED BY <1>3, <1>4, <1>5, <1>6 DEF u

LEMMA EmptyTotals ==
    ASSUME NEW tag
    PROVE  Total(<< >>, tag) = 0
BY EmptyStack, CountFacts DEF Total

-----------------------------------------------------------------------------
(* The shapes of activations and results                                   *)

IsResult(r) ==
    \/ r = None
    \/ r = Activation
    \/ r = [kind |-> "ok", to |-> r.to]
    \/ r = [kind |-> "error", to |-> r.to, limit |-> r.limit]

IsLoop(a) ==
    /\ a = [kind |-> "loop", by |-> a.by, id |-> a.id, catch |-> a.catch, marker |-> a.marker,
            depth |-> a.depth, scopes |-> a.scopes, status |-> a.status, err |-> a.err]
    /\ a.by \in {"main", "call", "target", "resume"}
    /\ a.depth \in Nat /\ IsStack(a.scopes) /\ a.scopes # << >>
    /\ a.depth + Len(a.scopes) <= CallLimit + 1
    /\ a.status \in {"run", "busy", "leave", "closing", "unwind"}
    /\ a.status \in {"run", "busy"} => a.err = None
    /\ IsResult(a.err)

IsCont(a) == IsLoop(a) /\ a.status = "run"

IsRequest(q) ==
    /\ q = [kind |-> "request", call |-> q.call, caller |-> q.caller, handler |-> q.handler,
            depth |-> q.depth]
    /\ q.depth \in Nat

IsNative(a) == a = [kind |-> "native", prev |-> a.prev, to |-> a.to]

IsFallback(a) ==
    /\ a = [kind |-> "fallback", call |-> a.call, caller |-> a.caller, handler |-> a.handler,
            native |-> a.native, restore |-> a.restore, prev |-> a.prev, depth |-> a.depth,
            entered |-> a.entered]
    /\ a.native \in BOOLEAN /\ a.restore \in BOOLEAN /\ a.entered \in BOOLEAN
    /\ a.depth \in Nat /\ a.depth <= CallLimit

IsHandler(a) ==
    /\ a = [kind |-> "handler", call |-> a.call, caller |-> a.caller, cont |-> a.cont,
            retry |-> a.retry, errors |-> a.errors, depth |-> a.depth]
    /\ a.depth \in Nat
    /\ a.cont = None \/ IsCont(a.cont)

(* The driver and the main loop are below everything else; targets,        *)
(* continuations and their handlers are right above the driver.            *)
AtBottom(a) == a = Driver \/ (IsLoop(a) /\ a.by = "main")
OnDriver(a) ==
    \/ IsLoop(a) /\ a.by \in {"target", "resume"} /\ (a.by = "target" => a.depth >= BaseDepth)
    \/ IsHandler(a) /\ a.cont # None
Above(a) ==
    \/ IsLoop(a) /\ a.by = "call"
    \/ IsNative(a)
    \/ IsFallback(a)
    \/ IsHandler(a) /\ a.cont = None

(* There are at most as many loops as levels, and handlers more: a handler *)
(* may run on the level of its caller.                                     *)
Levels(s, a, i) ==
    /\ Count(s, "loop", i) <= 1 + Count(s, "handler", i) + CallLimit
    /\ a.kind \in {"loop", "fallback"} =>
         Count(s, "loop", i) <= 1 + Count(s, "handler", i) + a.depth
    /\ a.kind = "handler" =>
         /\ Count(s, "loop", i) <= Count(s, "handler", i) + a.depth
         /\ Count(s, "loop", i) <= Count(s, "handler", i) + CallLimit

(* A guest target is run by the recursive fallback only where the          *)
(* scheduler is off.                                                       *)
Bypassed(s, a, i) ==
    Has(a, "guest") => \E j \in 1 .. i : Has(s[j], "bypass") \/ Has(s[j], "finish")

FitsAt(s, i) ==
    /\ \/ i = 1 /\ AtBottom(s[i])
       \/ i = 2 /\ s[1] = Driver /\ OnDriver(s[i])
       \/ i > 1 /\ Above(s[i])
    /\ Levels(s, s[i], i)
    /\ Bypassed(s, s[i], i)

WellStacked(s) == IsStack(s) /\ \A i \in 1 .. Len(s) : FitsAt(s, i)

LEMMA FitsInPrefix ==
    ASSUME NEW s, NEW u, NEW i \in Nat \ {0}, \A j \in 1 .. i : s[j] = u[j], FitsAt(s, i)
    PROVE  FitsAt(u, i)
  BY CountKept DEF FitsAt, Levels, Bypassed

LEMMA PopStays ==
    ASSUME NEW s, WellStacked(s), s # << >>
    PROVE  WellStacked(Front(s))
<1>1. /\ IsStack(Front(s)) /\ Len(Front(s)) = Len(s) - 1 /\ Len(s) \in Nat
      /\ \A i \in 1 .. Len(s) - 1 : Front(s)[i] = s[i]
  BY PopFacts, StackFacts DEF WellStacked
<1>2. ASSUME NEW i \in 1 .. Len(s) - 1 PROVE FitsAt(Front(s), i)
  BY <1>1, FitsInPrefix DEF WellStacked
<1> QED BY <1>1, <1>2 DEF WellStacked

LEMMA PushStays ==
    ASSUME NEW s, WellStacked(s), NEW a, FitsAt(Append(s, a), Len(s) + 1)
    PROVE  WellStacked(Append(s, a))
<1>1. /\ IsStack(Append(s, a)) /\ Len(Append(s, a)) = Len(s) + 1 /\ Len(s) \in Nat
      /\ \A i \in 1 .. Len(s) : Append(s, a)[i] = s[i]
  BY PushFacts, StackFacts DEF WellStacked
<1>2. ASSUME NEW i \in 1 .. Len(s) PROVE FitsAt(Append(s, a), i)
  <2>1. FitsAt(s, i) /\ i \in Nat \ {0} /\ \A j \in 1 .. i : s[j] = Append(s, a)[j]
    BY <1>1 DEF WellStacked
  <2> QED BY <2>1, FitsInPrefix
<1> QED BY <1>1, <1>2 DEF WellStacked

-----------------------------------------------------------------------------
(* What is on top                                                          *)

LEMMA TopFits ==
    ASSUME NEW s, WellStacked(s), s # << >>
    PROVE  /\ Len(s) \in Nat \ {0} /\ Last(s) = s[Len(s)]
           /\ FitsAt(s, Len(s))
           /\ \A tag : Total(s, tag) = Count(s, tag, Len(s))
  BY StackFacts DEF WellStacked, Total

LEMMA TopShapes ==
    ASSUME NEW s, WellStacked(s), s # << >>
    PROVE  /\ Last(s).kind = "loop" =>
                /\ IsLoop(Last(s))
                /\ Last(s).by = "main" <=> Len(s) = 1
                /\ Last(s).by \in {"target", "resume"} => Len(s) = 2 /\ s[1] = Driver
                /\ Last(s).by = "target" => Last(s).depth >= BaseDepth
           /\ Last(s).kind = "native" => IsNative(Last(s)) /\ Len(s) > 1
           /\ Last(s).kind = "fallback" => IsFallback(Last(s)) /\ Len(s) > 1
           /\ Last(s).kind = "handler" =>
                /\ IsHandler(Last(s)) /\ Len(s) > 1
                /\ Last(s).cont # None => Len(s) = 2 /\ s[1] = Driver
           /\ Last(s).kind = "driver" => Len(s) = 1 /\ Last(s) = Driver
<1> DEFINE a == Last(s)
           n == Len(s)
<1>1. n \in Nat \ {0} /\ a = s[n] /\ FitsAt(s, n)
  BY TopFits
<1>2. \/ n = 1 /\ AtBottom(a)
      \/ n = 2 /\ s[1] = Driver /\ OnDriver(a)
      \/ n > 1 /\ Above(a)
  BY <1>1 DEF FitsAt
<1> HIDE DEF a, n
<1> USE <1>1
<1>3. CASE n = 1 /\ AtBottom(a)
  <2>1. CASE a = Driver
    BY <1>3, <2>1 DEF Driver, a, n
  <2>2. CASE IsLoop(a) /\ a.by = "main"
    BY <2>2, <1>3 DEF IsLoop, a, n
  <2> QED BY <1>3, <2>1, <2>2 DEF AtBottom
<1>4. CASE n = 2 /\ s[1] = Driver /\ OnDriver(a)
  <2>1. CASE IsLoop(a) /\ a.by \in {"target", "resume"} /\ (a.by = "target" => a.depth >= BaseDepth)
    BY <2>1, <1>4 DEF IsLoop, a, n
  <2>2. CASE IsHandler(a) /\ a.cont # None
    BY <2>2, <1>4 DEF IsHandler, a, n
  <2> QED BY <1>4, <2>1, <2>2 DEF OnDriver
<1>5. CASE n > 1 /\ Above(a)
  <2>1. CASE IsLoop(a) /\ a.by = "call"
    BY <2>1, <1>5 DEF IsLoop, a, n
  <2>2. CASE IsNative(a)
    BY <2>2, <1>5 DEF IsNative, a, n
  <2>3. CASE IsFallback(a)
    BY <2>3, <1>5 DEF IsFallback, a, n
  <2>4. CASE IsHandler(a) /\ a.cont = None
    BY <2>4, <1>5 DEF IsHandler, a, n
  <2> QED BY <1>5, <2>1, <2>2, <2>3, <2>4 DEF Above
<1> QED BY <1>2, <1>3, <1>4, <1>5

-----------------------------------------------------------------------------
(* A stack with its counters                                               *)

(* q is the request that waits for the driver and r the result on its way  *)
(* down: an activation is under way only where there is a request.         *)
Sound(s, q, r) ==
    /\ WellStacked(s)
    /\ IsResult(r)
    /\ q = None => r # Activation /\ Total(s, "activated") = 0

Tally(s, sched, acts, handlers, targets) ==
    /\ acts = Total(s, "entered") /\ acts <= MaxActivations
    /\ handlers = Total(s, "handler")
    /\ targets = Total(s, "guest") + Total(s, "target")
    /\ sched \in BOOLEAN
    /\ s # << >> =>
         /\ Total(s, "bypass") + Total(s, "finish") <= 1
         /\ sched => Total(s, "bypass") + Total(s, "finish") = 0
         /\ ~sched => Total(s, "bypass") + Total(s, "finish") = 1

(* b takes the place of the loop a.                                        *)
Succeeds(b, a) ==
    /\ IsLoop(b) /\ IsLoop(a)
    /\ b.by = a.by /\ b.depth = a.depth
    /\ Has(b, "finish") <=> Has(a, "finish")

Tags == {"entered", "guest", "bypass", "handler", "loop", "target", "finish"}

LEMMA LoopTags ==
    ASSUME NEW a, NEW b, Succeeds(b, a)
    PROVE  /\ \A tag \in Tags : Has(b, tag) <=> Has(a, tag)
           /\ a.kind = "loop" /\ b.kind = "loop"
           /\ ~Has(b, "guest") /\ Has(b, "loop") /\ ~Has(b, "handler")
  BY DEF Succeeds, IsLoop, Has, Tags

LEMMA ReplaceTotals ==
    ASSUME NEW s, IsStack(s), s # << >>, NEW b, NEW tag
    PROVE  /\ IsStack(Append(Front(s), b)) /\ Len(Append(Front(s), b)) = Len(s)
           /\ Last(Append(Front(s), b)) = b /\ Append(Front(s), b)[Len(s)] = b
           /\ \A i \in 1 .. Len(s) - 1 : Append(Front(s), b)[i] = s[i]
           /\ Total(Append(Front(s), b), tag) \in Nat /\ Total(s, tag) \in Nat
           /\ (Has(b, tag) <=> Has(Last(s), tag)) => Total(Append(Front(s), b), tag) = Total(s, tag)
           /\ ~Has(b, tag) => Total(Append(Front(s), b), tag) <= Total(s, tag)
<1>1. /\ IsStack(Front(s)) /\ Len(Front(s)) = Len(s) - 1 /\ Len(s) \in Nat
      /\ \A i \in 1 .. Len(s) - 1 : Front(s)[i] = s[i]
  BY PopFacts, StackFacts
<1> DEFINE f == Front(s)
           u == Append(f, b)
<1>2. /\ IsStack(u) /\ Len(u) = Len(f) + 1 /\ u[Len(f) + 1] = b
      /\ \A i \in 1 .. Len(f) : u[i] = f[i]
  BY <1>1, PushFacts
<1>3. Last(u) = b
  BY <1>1, <1>2, StackFacts
<1>4. /\ Total(f, tag) \in Nat /\ Total(u, tag) \in Nat
      /\ Total(u, tag) = Total(f, tag) + (IF Has(b, tag) THEN 1 ELSE 0)
  BY <1>1, PushTotals
<1>5. /\ Total(s, tag) \in Nat
      /\ Total(s, tag) = Total(f, tag) + (IF Has(Last(s), tag) THEN 1 ELSE 0)
  BY PopTotals
<1> HIDE DEF u, f
<1>6. /\ IsStack(u) /\ Len(u) = Len(s) /\ u[Len(s)] = b
      /\ \A i \in 1 .. Len(s) - 1 : u[i] = s[i]
  BY <1>2, <1>1 DEF f
<1> QED BY <1>3, <1>4, <1>5, <1>6 DEF u, f

LEMMA ReplaceTop ==
    ASSUME NEW s, NEW q, NEW r, Sound(s, q, r), s # << >>, Last(s).kind = "loop",
           NEW b, Succeeds(b, Last(s)), NEW r2, IsResult(r2),
           b.err = Activation => r = Activation \/ Last(s).err = Activation \/ q # None,
           r2 = Activation => r = Activation \/ Last(s).err = Activation \/ q # None
    PROVE  /\ Sound(Append(Front(s), b), q, r2)
           /\ Append(Front(s), b) # << >>
           /\ Last(Append(Front(s), b)) = b
           /\ Len(Append(Front(s), b)) = Len(s)
           /\ \A tag \in Tags : Total(Append(Front(s), b), tag) = Total(s, tag)
<1> DEFINE u == Append(Front(s), b)
           n == Len(s)
           a == Last(s)
<1> SUFFICES /\ Sound(u, q, r2) /\ u # << >> /\ Last(u) = b /\ Len(u) = n
             /\ \A tag \in Tags : Total(u, tag) = Total(s, tag)
  OBVIOUS
<1>1. WellStacked(s) /\ IsStack(s)
  BY DEF Sound, WellStacked
<1>2. /\ n \in Nat \ {0} /\ a = s[n] /\ FitsAt(s, n)
      /\ \A tag : Total(s, tag) = Count(s, tag, n)
  BY <1>1, TopFits
<1>3. /\ IsStack(u) /\ Len(u) = n /\ Last(u) = b /\ u[n] = b
      /\ \A i \in 1 .. n - 1 : u[i] = s[i]
  BY <1>1, ReplaceTotals
<1>4. /\ \A tag \in Tags : Has(b, tag) <=> Has(a, tag)
      /\ a.kind = "loop" /\ b.kind = "loop"
      /\ ~Has(b, "guest") /\ Has(b, "loop") /\ ~Has(b, "handler")
  BY LoopTags
<1>5. \A tag \in Tags : Total(u, tag) = Total(s, tag)
  BY <1>1, <1>4, ReplaceTotals
<1>6. q = None => Total(u, "activated") = 0
  <2> SUFFICES ASSUME q = None PROVE Total(u, "activated") = 0
    OBVIOUS
  <2>1. r # Activation /\ Total(s, "activated") = 0
    BY DEF Sound
  <2>2. a.err # Activation
    <3>1. ~Has(a, "activated")
      BY <1>1, <1>2, <2>1, CountFacts
    <3> QED BY <3>1, <1>4 DEF Has
  <2>3. ~Has(b, "activated")
    BY <1>4, <2>1, <2>2 DEF Has
  <2>4. Total(u, "activated") <= Total(s, "activated") /\ Total(u, "activated") \in Nat
    BY <1>1, <2>3, ReplaceTotals
  <2> QED BY <2>1, <2>4
<1>7. q = None => r2 # Activation
  <2> SUFFICES ASSUME q = None PROVE r2 # Activation
    OBVIOUS
  <2>1. r # Activation /\ Total(s, "activated") = 0
    BY DEF Sound
  <2>2. ~Has(a, "activated")
    BY <1>1, <1>2, <2>1, CountFacts
  <2> QED BY <2>1, <2>2, <1>4 DEF Has
<1>8. b.by = a.by /\ b.depth = a.depth /\ IsLoop(b) /\ IsLoop(a)
  BY DEF Succeeds
<1> HIDE DEF u, n, a
<1>9. FitsAt(u, n)
  <2>1. Levels(u, u[n], n)
    BY <1>2, <1>3, <1>4, <1>8, <1>5 DEF FitsAt, Tags, Levels, Total
  <2>2. Bypassed(u, u[n], n)
    BY <1>3, <1>4 DEF Bypassed
  <2>3. a # Driver /\ a.kind # "handler" /\ ~IsNative(a) /\ ~IsFallback(a)
    BY <1>4 DEF Driver, IsNative, IsFallback
  <2>4. ~IsHandler(a)
    BY <1>4 DEF IsHandler
  <2>5. \/ n = 1 /\ AtBottom(b)
        \/ n = 2 /\ u[1] = Driver /\ OnDriver(b)
        \/ n > 1 /\ Above(b)
    BY <1>2, <1>3, <1>8, <2>3, <2>4 DEF AtBottom, OnDriver, Above, FitsAt
  <2> QED BY <1>3, <2>1, <2>2, <2>5 DEF FitsAt
<1>10. WellStacked(u)
  <2>1. ASSUME NEW i \in 1 .. n - 1 PROVE FitsAt(u, i)
    BY <1>1, <1>2, <1>3, FitsInPrefix DEF WellStacked, n
  <2> QED BY <1>2, <1>3, <1>9, <2>1 DEF WellStacked
<1>11. u # << >>
  BY <1>2, <1>3, EmptyStack
<1> QED BY <1>3, <1>5, <1>6, <1>7, <1>10, <1>11 DEF Sound

LEMMA SameTally ==
    ASSUME NEW s, NEW u, NEW sched, NEW acts, NEW handlers, NEW targets,
           Tally(s, sched, acts, handlers, targets), s # << >>,
           \A tag \in Tags \ {"loop"} : Total(u, tag) = Total(s, tag)
    PROVE  Tally(u, sched, acts, handlers, targets)
BY DEF Tally, Tags

(* An activation is taken off.                                             *)
LEMMA PopTop ==
    ASSUME NEW s, NEW q, NEW r, Sound(s, q, r), Len(s) > 1, NEW r2, IsResult(r2),
           r2 = Activation => r = Activation \/ Has(Last(s), "activated") \/ q # None
    PROVE  /\ Sound(Front(s), q, r2) /\ Front(s) # << >> /\ s # << >>
           /\ \A tag \in Tags :
                Total(s, tag) = Total(Front(s), tag) + (IF Has(Last(s), tag) THEN 1 ELSE 0)
<1>1. WellStacked(s) /\ IsStack(s)
  BY DEF Sound, WellStacked
<1>2. s # << >>
  BY EmptyStack
<1>3. Front(s) # << >> /\ IsStack(Front(s))
  BY <1>1, <1>2, PopFacts, StackFacts, EmptyStack
<1>4. WellStacked(Front(s))
  BY <1>1, <1>2, PopStays
<1>5. \A tag : /\ Total(s, tag) \in Nat /\ Total(Front(s), tag) \in Nat
               /\ Total(s, tag) = Total(Front(s), tag) + (IF Has(Last(s), tag) THEN 1 ELSE 0)
  BY <1>1, <1>2, PopTotals
<1>6. q = None => r2 # Activation /\ Total(Front(s), "activated") = 0
  <2> SUFFICES ASSUME q = None PROVE r2 # Activation /\ Total(Front(s), "activated") = 0
    OBVIOUS
  <2>1. r # Activation /\ Total(s, "activated") = 0
    BY DEF Sound
  <2> HIDE DEF Sound
  <2>2. ~Has(Last(s), "activated") /\ Total(Front(s), "activated") = 0
    BY <2>1, <1>5
  <2> QED BY <2>1, <2>2
<1> QED BY <1>2, <1>3, <1>4, <1>5, <1>6 DEF Sound

One(b) == IF b THEN 1 ELSE 0

(* There is room on s for one more loop at the depth below.                *)
Room(s, depth) ==
    /\ depth \in Nat
    /\ Total(s, "loop") <= 1 + Total(s, "handler") + depth
    /\ Total(s, "loop") <= 1 + Total(s, "handler") + CallLimit

(* The levels that a takes on s.                                           *)
Fits(s, a) ==
    LET loops == Total(s, "loop") + One(a.kind = "loop")
        handlers == Total(s, "handler") + One(a.kind = "handler") IN
    /\ loops <= 1 + handlers + CallLimit
    /\ a.kind \in {"loop", "fallback"} => loops <= 1 + handlers + a.depth
    /\ a.kind = "handler" => loops <= handlers + a.depth /\ loops <= handlers + CallLimit

LEMMA PushTop ==
    ASSUME NEW s, NEW q, NEW r, Sound(s, q, r), s # << >>,
           NEW a, Above(a) \/ (Len(s) = 1 /\ s[1] = Driver /\ OnDriver(a)),
           Fits(s, a), ~Has(a, "activated"),
           Has(a, "guest") => Has(a, "bypass") \/ Total(s, "bypass") + Total(s, "finish") # 0,
           NEW r2, IsResult(r2), q = None => r2 # Activation
    PROVE  /\ Sound(Append(s, a), q, r2) /\ Append(s, a) # << >>
           /\ \A tag \in Tags : Total(Append(s, a), tag) = Total(s, tag) + One(Has(a, tag))
<1> DEFINE u == Append(s, a)
           n == Len(s)
<1> SUFFICES /\ Sound(u, q, r2) /\ u # << >>
             /\ \A tag \in Tags : Total(u, tag) = Total(s, tag) + One(Has(a, tag))
  OBVIOUS
<1>1. WellStacked(s) /\ IsStack(s)
  BY DEF Sound, WellStacked
<1>2. n \in Nat \ {0}
  BY <1>1, StackFacts
<1>3. /\ IsStack(u) /\ Len(u) = n + 1 /\ u[n + 1] = a
      /\ \A i \in 1 .. n : u[i] = s[i]
  BY <1>1, PushFacts
<1>4. \A tag : /\ Total(s, tag) \in Nat /\ Total(u, tag) \in Nat
               /\ Total(u, tag) = Total(s, tag) + One(Has(a, tag))
  BY <1>1, PushTotals DEF One
<1>5. q = None => Total(u, "activated") = 0
  BY <1>4 DEF Sound, One
<1> HIDE DEF u
<1>6. FitsAt(u, n + 1)
  <2>1. Levels(u, a, n + 1)
    BY <1>3, <1>4 DEF Has, Total, One, Levels, Fits
  <2>2. Bypassed(u, a, n + 1)
    <3> SUFFICES ASSUME Has(a, "guest")
                 PROVE  \E j \in 1 .. n + 1 : Has(u[j], "bypass") \/ Has(u[j], "finish")
      BY DEF Bypassed
    <3>1. CASE Has(a, "bypass")
      BY <1>2, <1>3, <3>1
    <3>2. CASE Total(s, "bypass") + Total(s, "finish") # 0
      <4>1. \A tag : Total(s, tag) = Count(s, tag, n)
        BY DEF Total, n
      <4>2. \A tag : Count(s, tag, n) # 0 => \E i \in 1 .. n : Has(s[i], tag)
        BY <1>2, CountFacts
      <4> HIDE DEF n
      <4>3. \E i \in 1 .. n : Has(s[i], "bypass") \/ Has(s[i], "finish")
        BY <4>1, <4>2, <1>4, <3>2
      <4>4. PICK i \in 1 .. n : Has(s[i], "bypass") \/ Has(s[i], "finish")
        BY <4>3
      <4> QED BY <1>2, <1>3, <4>4
    <3> QED BY <3>1, <3>2
  <2>3. u[n + 1] = a /\ u[1] = s[1] /\ n + 1 > 1 /\ (Len(s) = 1 => n + 1 = 2)
    BY <1>2, <1>3
  <2> QED BY <2>1, <2>2, <2>3 DEF FitsAt
<1>7. WellStacked(u)
  BY <1>1, <1>6, PushStays DEF u
<1>8. u # << >>
  BY <1>2, <1>3, EmptyStack
<1> QED BY <1>4, <1>5, <1>7, <1>8 DEF Sound

(* What a loop and what a fallback leave for the calls they make.          *)
LEMMA TopRoom ==
    ASSUME NEW s, WellStacked(s), s # << >>
    PROVE  /\ Last(s).kind = "loop" =>
                /\ Depth(Last(s)) \in Nat /\ Depth(Last(s)) <= CallLimit
                /\ Room(s, Depth(Last(s))) /\ Room(s, Last(s).depth)
           /\ Last(s).kind = "fallback" => Room(s, Last(s).depth)
<1> DEFINE a == Last(s)
           n == Len(s)
<1>1. /\ n \in Nat \ {0} /\ a = s[n] /\ FitsAt(s, n)
      /\ Total(s, "loop") = Count(s, "loop", n) /\ Total(s, "handler") = Count(s, "handler", n)
      /\ Count(s, "loop", n) \in Nat /\ Count(s, "handler", n) \in Nat
  BY TopFits, CountFacts
<1>2. a.kind = "loop" => IsLoop(a)
  BY TopShapes
<1>3. a.kind = "fallback" => IsFallback(a)
  BY TopShapes
<1> HIDE DEF a, n
<1>4. Levels(s, a, n)
  BY <1>1 DEF FitsAt
<1>5. ASSUME a.kind = "loop"
      PROVE  Depth(a) \in Nat /\ Depth(a) <= CallLimit /\ Room(s, Depth(a)) /\ Room(s, a.depth)
  <2>1. a.depth \in Nat /\ Len(a.scopes) \in Nat \ {0} /\ a.depth + Len(a.scopes) <= CallLimit + 1
    BY <1>2, <1>5, StackFacts DEF IsLoop
  <2>2. CallLimit \in Nat
    BY LimitsAssumption
  <2>3. Depth(a) \in Nat /\ Depth(a) <= CallLimit /\ a.depth <= Depth(a)
    BY <2>1, <2>2 DEF Depth
  <2>4. Room(s, a.depth)
    BY <1>1, <1>4, <1>5, <2>1 DEF Levels, Room
  <2> QED BY <1>1, <2>1, <2>3, <2>4 DEF Room
<1>6. ASSUME a.kind = "fallback" PROVE Room(s, a.depth)
  BY <1>1, <1>3, <1>4, <1>6 DEF Levels, Room, IsFallback
<1> QED BY <1>5, <1>6 DEF a

LEMMA NewLoopShape ==
    ASSUME NEW by \in {"main", "call", "target", "resume"}, NEW id, NEW catch, NEW marker,
           NEW depth \in Nat, depth <= CallLimit
    PROVE  /\ IsLoop(NewLoop(by, id, catch, depth, marker))
           /\ NewLoop(by, id, catch, depth, marker).by = by
           /\ NewLoop(by, id, catch, depth, marker).depth = depth
           /\ NewLoop(by, id, catch, depth, marker).kind = "loop"
           /\ NewLoop(by, id, catch, depth, marker).err = None
           /\ NewLoop(by, id, catch, depth, marker).status = "run"
<1>1. IsStack(<< << >> >>) /\ << << >> >> # << >> /\ Len(<< << >> >>) = 1
  <2>1. << << >> >> \in Seq({<< >>})
    OBVIOUS
  <2> QED BY <2>1 DEF IsStack
<1> DEFINE a == NewLoop(by, id, catch, depth, marker)
<1>2. a = [kind |-> "loop", by |-> by, id |-> id, catch |-> catch, marker |-> marker,
           depth |-> depth, scopes |-> << << >> >>, status |-> "run", err |-> None]
  BY DEF NewLoop
<1> HIDE DEF a
<1>3. /\ a.by = by /\ a.depth = depth /\ a.kind = "loop" /\ a.err = None /\ a.status = "run"
      /\ a.id = id /\ a.catch = catch /\ a.marker = marker /\ a.scopes = << << >> >>
  BY <1>2
<1>4. IsLoop(a)
  BY <1>2, <1>3, <1>1, LimitsAssumption DEF IsResult, IsLoop
<1> QED BY <1>3, <1>4 DEF a

LEMMA NotActivation ==
    /\ \A c : /\ IsResult(Ok(c)) /\ Ok(c) # Activation
              /\ IsResult(Raised(c)) /\ Raised(c) # Activation
              /\ IsResult(CallLimitError(c)) /\ CallLimitError(c) # Activation
    /\ IsResult(None) /\ None # Activation
    /\ IsResult(Activation)
BY DEF IsResult, Ok, Raised, CallLimitError, Activation, None

(* call_blu_closure on s leaves s2 and the result r2.                      *)
Called(s, s2, r2, id, catch, depth, marker) ==
    IF depth + 1 > CallLimit
    THEN s2 = s /\ r2 = CallLimitError(catch)
    ELSE s2 = Append(s, NewLoop("call", id, catch, depth + 1, marker)) /\ r2 = None

LEMMA GuestCalled ==
    ASSUME NEW s, NEW q, NEW r, Sound(s, q, r), s # << >>,
           NEW depth, Room(s, depth), NEW id, NEW catch, NEW marker, NEW s2, NEW r2,
           Called(s, s2, r2, id, catch, depth, marker)
    PROVE  /\ Sound(s2, q, r2) /\ s2 # << >>
           /\ \A tag \in Tags \ {"loop"} : Total(s2, tag) = Total(s, tag)
<1>1. CallLimit \in Nat /\ depth \in Nat
  BY LimitsAssumption DEF Room
<1>2. CASE depth + 1 > CallLimit
  BY <1>2, NotActivation DEF Called, Sound
<1>3. CASE ~(depth + 1 > CallLimit)
  <2> DEFINE a == NewLoop("call", id, catch, depth + 1, marker)
  <2>1. s2 = Append(s, a) /\ r2 = None
    BY <1>3 DEF Called
  <2>2. IsLoop(a) /\ a.by = "call" /\ a.depth = depth + 1 /\ a.kind = "loop" /\ a.err = None
    BY <1>1, <1>3, NewLoopShape
  <2> HIDE DEF a
  <2>3. Above(a)
    BY <2>2 DEF Above
  <2>4. \A tag : Has(a, tag) => tag = "loop"
    BY <2>2, NotActivation DEF Has
  <2>5. Fits(s, a)
    <3>1. Total(s, "loop") \in Nat /\ Total(s, "handler") \in Nat
      BY PushTotals DEF Sound, WellStacked
    <3> QED BY <1>1, <1>3, <2>2, <3>1 DEF Fits, Room, One
  <2>6. q = None => r2 # Activation
    BY <2>1, NotActivation
  <2>7. IsResult(r2)
    BY <2>1, NotActivation
  <2>8. ~Has(a, "activated") /\ ~Has(a, "guest")
    BY <2>4
  <2>9. /\ Sound(Append(s, a), q, r2) /\ Append(s, a) # << >>
        /\ \A tag \in Tags : Total(Append(s, a), tag) = Total(s, tag) + One(Has(a, tag))
    BY <2>3, <2>5, <2>6, <2>7, <2>8, PushTop
  <2>10. \A tag \in Tags \ {"loop"} : Total(Append(s, a), tag) = Total(s, tag)
    <3> SUFFICES ASSUME NEW tag \in Tags \ {"loop"} PROVE Total(Append(s, a), tag) = Total(s, tag)
      OBVIOUS
    <3>1. Total(Append(s, a), tag) = Total(s, tag) + One(Has(a, tag)) /\ ~Has(a, tag)
      BY <2>4, <2>9
    <3>2. Total(s, tag) \in Nat
      BY PushTotals DEF Sound, WellStacked
    <3> QED BY <3>1, <3>2 DEF One
  <2> QED BY <2>1, <2>9, <2>10
<1> QED BY <1>2, <1>3

LEMMA TotalsNat ==
    ASSUME NEW s, NEW q, NEW r, Sound(s, q, r), NEW tag
    PROVE  Total(s, tag) \in Nat
  BY PushTotals DEF Sound, WellStacked

LEMMA NativePushed ==
    ASSUME NEW s, NEW q, NEW r, Sound(s, q, r), s # << >>, NEW depth, Room(s, depth),
           NEW a, IsNative(a)
    PROVE  /\ Sound(Append(s, a), q, r) /\ Append(s, a) # << >>
           /\ Room(Append(s, a), depth)
           /\ \A tag \in Tags : Total(Append(s, a), tag) = Total(s, tag)
<1>1. a.kind = "native"
  BY DEF IsNative
<1>2. \A tag : ~Has(a, tag)
  BY <1>1 DEF Has
<1>3. Fits(s, a)
  BY <1>1, LimitsAssumption, TotalsNat DEF Fits, Room, One
<1>4. /\ Sound(Append(s, a), q, r) /\ Append(s, a) # << >>
      /\ \A tag \in Tags : Total(Append(s, a), tag) = Total(s, tag) + One(Has(a, tag))
  BY <1>2, <1>3, PushTop DEF Above, Sound
<1>5. \A tag \in Tags : Total(Append(s, a), tag) = Total(s, tag)
  <2> SUFFICES ASSUME NEW tag \in Tags PROVE Total(Append(s, a), tag) = Total(s, tag)
    OBVIOUS
  <2>1. Total(Append(s, a), tag) = Total(s, tag) + One(Has(a, tag)) /\ ~Has(a, tag)
    BY <1>2, <1>4
  <2> QED BY <2>1, TotalsNat DEF One
<1>6. Room(Append(s, a), depth)
  BY <1>5 DEF Room, Tags
<1> QED BY <1>4, <1>5, <1>6

LEMMA FallbackPushed ==
    ASSUME NEW s, NEW q, NEW r, Sound(s, q, r), s # << >>, NEW depth, Room(s, depth),
           NEW a, IsFallback(a), a.depth = depth,
           Has(a, "guest") => Has(a, "bypass") \/ Total(s, "bypass") + Total(s, "finish") # 0,
           NEW r2, IsResult(r2), q = None => r2 # Activation
    PROVE  /\ Sound(Append(s, a), q, r2) /\ Append(s, a) # << >>
           /\ Room(Append(s, a), depth)
           /\ \A tag \in Tags : Total(Append(s, a), tag) = Total(s, tag) + One(Has(a, tag))
<1>1. a.kind = "fallback"
  BY DEF IsFallback
<1>2. ~Has(a, "loop") /\ ~Has(a, "handler") /\ ~Has(a, "activated")
  BY <1>1 DEF Has
<1>3. Total(s, "loop") \in Nat /\ Total(s, "handler") \in Nat
  BY TotalsNat
<1>4. Fits(s, a)
  BY <1>1, <1>3, LimitsAssumption DEF Fits, Room, One
<1>5. Above(a)
  BY DEF Above
<1>6. /\ Sound(Append(s, a), q, r2) /\ Append(s, a) # << >>
      /\ \A tag \in Tags : Total(Append(s, a), tag) = Total(s, tag) + One(Has(a, tag))
  BY <1>2, <1>4, <1>5, PushTop
<1>7. Room(Append(s, a), depth)
  BY <1>2, <1>3, <1>6 DEF Room, Tags, One
<1> QED BY <1>6, <1>7

LEMMA MinOfTwo ==
    ASSUME NEW a \in Int, NEW b \in Int
    PROVE  Min({a, b}) \in {a, b} /\ Min({a, b}) <= a /\ Min({a, b}) <= b
<1>1. \E x \in {a, b} : \A y \in {a, b} : x <= y
  <2>1. CASE a <= b
    BY <2>1
  <2>2. CASE b <= a
    BY <2>2
  <2> QED BY <2>1, <2>2
<1>2. Min({a, b}) = CHOOSE x \in {a, b} : \A y \in {a, b} : x <= y
  BY DEF Min
<1> QED BY <1>1, <1>2

(* call_xpcall_handler with the record a on s leaves s2.                   *)
Handled(s, s2, a, id, catch, depth, marker) ==
    s2 = s \o <<a, NewLoop("call", id, catch, 1 + Min({depth, CallLimit - 1}), marker)>>

LEMMA HandlerStarted ==
    ASSUME NEW s, NEW q, NEW r, Sound(s, q, r), s # << >>, NEW depth, Room(s, depth),
           NEW a, IsHandler(a), a.depth = depth,
           a.cont = None \/ (Len(s) = 1 /\ s[1] = Driver),
           NEW id, NEW catch, NEW marker, NEW s2,
           Handled(s, s2, a, id, catch, depth, marker)
    PROVE  /\ Sound(s2, q, None) /\ s2 # << >>
           /\ \A tag \in Tags \ {"loop"} : Total(s2, tag) = Total(s, tag) + One(tag = "handler")
<1>1. CallLimit \in Nat \ {0} /\ depth \in Nat
  BY LimitsAssumption DEF Room
<1> DEFINE level == 1 + Min({depth, CallLimit - 1})
           b == NewLoop("call", id, catch, level, marker)
           u == Append(s, a)
<1>2. level \in Nat /\ level <= CallLimit /\ (level = 1 + depth \/ level = CallLimit)
  <2>1. Min({depth, CallLimit - 1}) \in {depth, CallLimit - 1} /\ Min({depth, CallLimit - 1}) <= CallLimit - 1
    <3>1. depth \in Int /\ CallLimit - 1 \in Int
      BY <1>1
    <3> QED BY <3>1, MinOfTwo
  <2> DEFINE m == Min({depth, CallLimit - 1})
  <2> HIDE DEF m
  <2>2. 1 + m \in Nat /\ 1 + m <= CallLimit /\ (1 + m = 1 + depth \/ 1 + m = CallLimit)
    BY <1>1, <2>1 DEF m
  <2> QED BY <2>2 DEF m
<1> HIDE DEF level
<1>3. s2 = Append(u, b)
  BY PushTwice DEF Sound, WellStacked, level, Handled
<1>4. IsLoop(b) /\ b.by = "call" /\ b.depth = level /\ b.kind = "loop" /\ b.err = None
  BY <1>2, NewLoopShape
<1> HIDE DEF b
<1>5. a.kind = "handler"
  BY DEF IsHandler
<1>6. \A tag \in Tags \cup {"activated"} : Has(a, tag) => tag = "handler"
  BY <1>5 DEF Has
<1>7. Has(a, "handler")
  BY <1>5 DEF Has
<1>8. \A tag \in Tags \cup {"activated"} : Has(b, tag) => tag = "loop"
  BY <1>4, NotActivation DEF Has
<1>9. Total(s, "loop") \in Nat /\ Total(s, "handler") \in Nat
  BY TotalsNat
<1>10. /\ Sound(u, q, None) /\ u # << >>
       /\ \A tag \in Tags : Total(u, tag) = Total(s, tag) + One(Has(a, tag))
  BY <1>1, <1>5, <1>9, <1>6, NotActivation, PushTop DEF Fits, Room, One, Above, OnDriver, Tags
<1> HIDE DEF u
<1>11. /\ Sound(s2, q, None) /\ s2 # << >>
       /\ \A tag \in Tags : Total(s2, tag) = Total(u, tag) + One(Has(b, tag))
  <2>1. Fits(u, b)
    BY <1>1, <1>2, <1>4, <1>9, <1>6, <1>7, <1>10 DEF Fits, Room, One, Tags
  <2>2. Above(b)
    BY <1>4 DEF Above
  <2>3. ~Has(b, "activated") /\ ~Has(b, "guest")
    BY <1>8 DEF Tags
  <2> QED BY <1>3, <1>10, <2>1, <2>2, <2>3, NotActivation, PushTop
<1>12. ASSUME NEW tag \in Tags \ {"loop"}
       PROVE  Total(s2, tag) = Total(s, tag) + One(tag = "handler")
  BY <1>10, <1>11, <1>6, <1>8, TotalsNat, <1>7 DEF One
<1> QED BY <1>11, <1>12

(* A stack of one activation at the bottom, which has no marks but, when   *)
(* the execution ends with an error, that one.                             *)
LEMMA BottomAlone ==
    ASSUME NEW a, AtBottom(a), ~Has(a, "activated"), NEW q, NEW r, IsResult(r),
           q = None => r # Activation
    PROVE  /\ Sound(<<a>>, q, r) /\ <<a>> # << >> /\ Len(<<a>>) = 1 /\ <<a>>[1] = a
           /\ \A tag \in Tags : Total(<<a>>, tag) = One(Has(a, tag))
           /\ \A tag \in Tags \ {"loop", "finish"} : ~Has(a, tag)
<1>1. IsStack(<< >>) /\ Len(<< >>) = 0 /\ \A tag : Total(<< >>, tag) = 0
  BY EmptyStack, EmptyTotals
<1> DEFINE s == << >>
           u == Append(s, a)
<1>2. <<a>> = u
  BY SingleStack
<1>3. IsStack(u) /\ Len(u) = Len(s) + 1 /\ u[Len(s) + 1] = a
  BY <1>1, PushFacts
<1>4. \A tag : Total(u, tag) = One(Has(a, tag))
  <2> SUFFICES ASSUME NEW tag PROVE Total(u, tag) = One(Has(a, tag))
    OBVIOUS
  <2>1. Total(u, tag) = Total(s, tag) + (IF Has(a, tag) THEN 1 ELSE 0) /\ Total(s, tag) = 0
    BY <1>1, PushTotals
  <2> QED BY <2>1 DEF One
<1>5. Len(u) = 1 /\ u[1] = a /\ IsStack(u)
  BY <1>1, <1>3
<1> HIDE DEF u, s
<1>6. a.kind = "driver" \/ (a.kind = "loop" /\ a.by = "main" /\ a.depth \in Nat)
  BY DEF AtBottom, Driver, IsLoop
<1>7. ASSUME NEW tag \in Tags \ {"loop", "finish"} PROVE ~Has(a, tag)
  BY <1>6 DEF Tags, Has
<1>8. FitsAt(u, 1)
  <2>1. \A tag : Count(u, tag, 1) = One(Has(a, tag))
    BY <1>4, <1>5 DEF Total
  <2>2. Count(u, "handler", 1) = 0
    BY <1>7, <2>1 DEF Tags, One
  <2>3. Levels(u, a, 1)
    BY <1>6, <2>2, LimitsAssumption, <2>1 DEF Levels, One
  <2>4. Bypassed(u, a, 1)
    BY <1>7 DEF Tags, Bypassed
  <2> QED BY <1>5, <2>3, <2>4 DEF FitsAt
<1>9. WellStacked(u)
  BY <1>5, <1>8 DEF WellStacked
<1>10. Total(u, "activated") = 0
  BY <1>4 DEF One
<1>11. u # << >>
  BY <1>1, <1>5 DEF s
<1> QED BY <1>2, <1>4, <1>5, <1>7, <1>9, <1>10, <1>11 DEF Sound

LEMMA NothingStacked ==
    ASSUME NEW q, NEW r, IsResult(r), q = None => r # Activation
    PROVE  Sound(<< >>, q, r)
BY EmptyStack, EmptyTotals DEF Sound, WellStacked

-----------------------------------------------------------------------------
(* Loops that go on                                                        *)

Revised(a, scopes, status, err) ==
    [kind |-> "loop", by |-> a.by, id |-> a.id, catch |-> a.catch, marker |-> a.marker,
     depth |-> a.depth, scopes |-> scopes, status |-> status, err |-> err]

LEMMA RevisedFields ==
    ASSUME NEW a, NEW sc, NEW st, NEW e
    PROVE  LET b == Revised(a, sc, st, e) IN
           /\ b.kind = "loop" /\ b.by = a.by /\ b.id = a.id /\ b.catch = a.catch /\ b.marker = a.marker
           /\ b.depth = a.depth /\ b.scopes = sc /\ b.status = st /\ b.err = e
BY DEF Revised

LEMMA LoopUpdates ==
    ASSUME NEW a, IsLoop(a), NEW x, NEW y
    PROVE  /\ [a EXCEPT !.status = x] = Revised(a, a.scopes, x, a.err)
           /\ [a EXCEPT !.err = x] = Revised(a, a.scopes, a.status, x)
           /\ [a EXCEPT !.status = x, !.err = y] = Revised(a, a.scopes, x, y)
           /\ [a EXCEPT !.scopes = x] = Revised(a, x, a.status, a.err)
           /\ [a EXCEPT !.scopes = x, !.status = y] = Revised(a, x, y, a.err)
           /\ [a EXCEPT !.by = x] = [kind |-> "loop", by |-> x, id |-> a.id, catch |-> a.catch,
                                     marker |-> a.marker, depth |-> a.depth, scopes |-> a.scopes,
                                     status |-> a.status, err |-> a.err]
<1>1. a = [kind |-> "loop", by |-> a.by, id |-> a.id, catch |-> a.catch, marker |-> a.marker,
           depth |-> a.depth, scopes |-> a.scopes, status |-> a.status, err |-> a.err]
  BY DEF IsLoop
<1>2. PICK p, i, c, m, d, sc, st, e :
        a = [kind |-> "loop", by |-> p, id |-> i, catch |-> c, marker |-> m,
             depth |-> d, scopes |-> sc, status |-> st, err |-> e]
  BY <1>1
<1> HIDE <1>1
<1>3. /\ a.by = p /\ a.id = i /\ a.catch = c /\ a.marker = m /\ a.depth = d /\ a.scopes = sc
      /\ a.status = st /\ a.err = e
  BY ONLY <1>2
<1>4. \A z : [a EXCEPT !.scopes = z] = Revised(a, z, a.status, a.err)
  BY ONLY <1>2, <1>3 DEF Revised
<1>5. ASSUME NEW z PROVE [a EXCEPT !.scopes = z, !.status = y] = Revised(a, z, y, a.err)
  <2>1. [a EXCEPT !.scopes = z, !.status = y] = [[a EXCEPT !.scopes = z] EXCEPT !.status = y]
    OBVIOUS
  <2>2. [Revised(a, z, a.status, a.err) EXCEPT !.status = y] = Revised(a, z, y, a.err)
    BY ONLY <1>3 DEF Revised
  <2> QED BY ONLY <1>4, <2>1, <2>2
<1>6. [a EXCEPT !.status = x] = Revised(a, a.scopes, x, a.err)
  BY ONLY <1>2, <1>3 DEF Revised
<1>7. [a EXCEPT !.err = x] = Revised(a, a.scopes, a.status, x)
  BY ONLY <1>2, <1>3 DEF Revised
<1>8. [a EXCEPT !.status = x, !.err = y] = Revised(a, a.scopes, x, y)
  <2>1. [a EXCEPT !.status = x, !.err = y] = [[a EXCEPT !.status = x] EXCEPT !.err = y]
    OBVIOUS
  <2>2. [Revised(a, a.scopes, x, a.err) EXCEPT !.err = y] = Revised(a, a.scopes, x, y)
    BY ONLY <1>3 DEF Revised
  <2> QED BY ONLY <1>6, <2>1, <2>2
<1>9. [a EXCEPT !.by = x] = [kind |-> "loop", by |-> x, id |-> a.id, catch |-> a.catch,
                             marker |-> a.marker, depth |-> a.depth, scopes |-> a.scopes,
                             status |-> a.status, err |-> a.err]
  BY ONLY <1>2, <1>3
<1> QED BY <1>4, <1>5, <1>6, <1>7, <1>8, <1>9, Zenon

LEMMA ScopeUpdates ==
    ASSUME NEW a, IsLoop(a), NEW x, NEW n
    PROVE  [a EXCEPT !.scopes[n] = x] = Revised(a, [a.scopes EXCEPT ![n] = x], a.status, a.err)
<1>1. a = [kind |-> "loop", by |-> a.by, id |-> a.id, catch |-> a.catch, marker |-> a.marker,
           depth |-> a.depth, scopes |-> a.scopes, status |-> a.status, err |-> a.err]
  BY DEF IsLoop
<1>2. PICK p, i, c, m, d, sc, st, e :
        a = [kind |-> "loop", by |-> p, id |-> i, catch |-> c, marker |-> m,
             depth |-> d, scopes |-> sc, status |-> st, err |-> e]
  BY <1>1
<1> HIDE <1>1
<1>3. /\ a.by = p /\ a.id = i /\ a.catch = c /\ a.marker = m /\ a.depth = d /\ a.scopes = sc
      /\ a.status = st /\ a.err = e
  BY ONLY <1>2
<1>4. [a EXCEPT !.scopes[n] = x] = [a EXCEPT !.scopes = [a.scopes EXCEPT ![n] = x]]
  BY ONLY <1>2, <1>3
<1> QED BY <1>4, LoopUpdates, Zenon

LEMMA RevisedSucceeds ==
    ASSUME NEW a, IsLoop(a), NEW sc, IsStack(sc), sc # << >>, a.depth + Len(sc) <= CallLimit + 1,
           NEW st \in {"run", "busy", "leave", "closing", "unwind"},
           NEW e, IsResult(e), st \in {"run", "busy"} => e = None
    PROVE  /\ IsLoop(Revised(a, sc, st, e))
           /\ (a.by = "main" => (st = "unwind" <=> a.status = "unwind")) => Succeeds(Revised(a, sc, st, e), a)
<1> DEFINE b == Revised(a, sc, st, e)
<1>1. /\ b.kind = "loop" /\ b.by = a.by /\ b.id = a.id /\ b.catch = a.catch /\ b.marker = a.marker
      /\ b.depth = a.depth /\ b.scopes = sc /\ b.status = st /\ b.err = e
  BY RevisedFields
<1>2. b = [kind |-> "loop", by |-> a.by, id |-> a.id, catch |-> a.catch, marker |-> a.marker,
           depth |-> a.depth, scopes |-> sc, status |-> st, err |-> e]
  BY DEF Revised
<1> HIDE DEF b
<1>3. IsLoop(b)
  BY <1>1, <1>2 DEF IsLoop
<1>4. a.kind = "loop"
  BY DEF IsLoop
<1>5. ASSUME a.by = "main" => (st = "unwind" <=> a.status = "unwind") PROVE Has(b, "finish") <=> Has(a, "finish")
  BY <1>1, <1>4, <1>5 DEF Has
<1> QED BY <1>1, <1>3, <1>5 DEF Succeeds, b

LEMMA StackUpdate ==
    ASSUME NEW s, IsStack(s), s # << >>, NEW n, NEW x
    PROVE  IsStack([s EXCEPT ![n] = x]) /\ [s EXCEPT ![n] = x] # << >> /\ Len([s EXCEPT ![n] = x]) = Len(s)
<1>1. PICK A : s \in Seq(A)
  BY DEF IsStack
<1> DEFINE k == Len(s)
           u == [s EXCEPT ![n] = x]
<1>2. k \in Nat /\ s \in [1 .. k -> A]
  BY <1>1, LenProperties
<1>3. u \in [1 .. k -> A \cup {x}]
  <2> HIDE DEF k
  <2> QED BY <1>2
<1>4. u \in Seq(A \cup {x}) /\ Len(u) = k
  <2> HIDE DEF k, u
  <2>1. u \in Seq(A \cup {x}) /\ DOMAIN u = 1 .. k
    BY <1>2, <1>3 DEF Seq
  <2> QED BY <1>2, <2>1, LenProperties
<1>5. IsStack(u)
  BY <1>4 DEF IsStack
<1>6. u # << >>
  BY <1>4, <1>5, StackFacts
<1> QED BY <1>4, <1>5, <1>6

-----------------------------------------------------------------------------
(* The invariant                                                           *)

IsFrame(f) == f = [cont |-> f.cont, req |-> f.req] /\ IsCont(f.cont) /\ IsRequest(f.req)

Waiting ==
    /\ captured = None \/ IsCont(captured)
    /\ request = None \/ IsRequest(request)
    /\ IsStack(frames) /\ \A i \in 1 .. Len(frames) : IsFrame(frames[i])

Inv ==
    /\ Running => stack # << >>
    /\ Sound(stack, request, res)
    /\ Tally(stack, scheduler, activations, handlerDepth, targetDepth)
    /\ Waiting

LEMMA InvInit ==
    ASSUME Init
    PROVE  Inv
<1> DEFINE m == MainLoop
<1>1. stack = <<m>>
  BY DEF Init
<1> HIDE DEF m
<1>2. IsLoop(m) /\ m.by = "main" /\ m.err = None /\ m.status = "run"
  BY LimitsAssumption, NewLoopShape DEF m, MainLoop
<1>3. AtBottom(m) /\ ~Has(m, "activated") /\ ~Has(m, "finish")
  BY <1>2, NotActivation DEF AtBottom, Has
<1>4. /\ Sound(<<m>>, request, res) /\ <<m>> # << >>
      /\ \A tag \in Tags : Total(<<m>>, tag) = One(Has(m, tag))
      /\ \A tag \in Tags \ {"loop", "finish"} : ~Has(m, tag)
  BY <1>3, NotActivation, BottomAlone DEF Init
<1>5. Tally(stack, scheduler, activations, handlerDepth, targetDepth)
  BY LimitsAssumption, <1>1, <1>3, <1>4 DEF Init, Tally, Tags, One
<1>6. Waiting
  BY EmptyStack DEF Init, Waiting
<1> QED BY <1>1, <1>4, <1>5, <1>6 DEF Inv

-----------------------------------------------------------------------------
(* Moves of guest code keep the invariant                                  *)

LEMMA LoopOnTop ==
    ASSUME Inv, Running, Top.kind = "loop"
    PROVE  /\ stack # << >> /\ WellStacked(stack) /\ IsStack(stack) /\ IsLoop(Top)
           /\ Top.depth \in Nat /\ Len(Top.scopes) \in Nat \ {0} /\ Top.depth + Len(Top.scopes) <= CallLimit + 1
           /\ IsStack(Top.scopes) /\ Top.scopes # << >>
           /\ IsResult(Top.err) /\ IsResult(res)
           /\ Top.status \in {"run", "busy"} => Top.err = None
<1>1. stack # << >> /\ WellStacked(stack) /\ IsStack(stack) /\ IsResult(res)
  BY DEF Inv, Sound, WellStacked
<1>2. IsLoop(Top)
  BY <1>1, TopShapes DEF Top
<1> DEFINE a == Top
<1>3. IsLoop(a)
  BY <1>2
<1> HIDE DEF a
<1> QED BY <1>1, <1>2, <1>3, StackFacts DEF a, IsLoop

LEMMA TopGoesOn ==
    ASSUME Inv, Running, Top.kind = "loop",
           NEW sc, IsStack(sc), sc # << >>, Top.depth + Len(sc) <= CallLimit + 1,
           NEW st \in {"run", "busy", "leave", "closing", "unwind"},
           NEW e, IsResult(e), st \in {"run", "busy"} => e = None,
           Top.by = "main" => (st = "unwind" <=> Top.status = "unwind"),
           NEW r2, IsResult(r2),
           e = Activation => res = Activation \/ Top.err = Activation \/ request # None,
           r2 = Activation => res = Activation \/ Top.err = Activation \/ request # None
    PROVE  /\ Sound(WithTop(Revised(Top, sc, st, e)), request, r2)
           /\ Tally(WithTop(Revised(Top, sc, st, e)), scheduler, activations, handlerDepth, targetDepth)
           /\ WithTop(Revised(Top, sc, st, e)) # << >>
           /\ Last(WithTop(Revised(Top, sc, st, e))) = Revised(Top, sc, st, e)
           /\ Len(WithTop(Revised(Top, sc, st, e))) = Len(stack)
           /\ \A tag \in Tags : Total(WithTop(Revised(Top, sc, st, e)), tag) = Total(stack, tag)
<1> DEFINE s == stack
           a == Last(s)
           b == Revised(a, sc, st, e)
           u == Append(Front(s), b)
<1>1. stack # << >> /\ IsLoop(Top)
  BY LoopOnTop
<1>2. s # << >> /\ IsLoop(a) /\ a.kind = "loop"
  BY <1>1 DEF Top
<1>3. WithTop(Revised(Top, sc, st, e)) = u /\ Revised(Top, sc, st, e) = b /\ Top = a
  BY DEF WithTop, Below, Top
<1>4. Sound(s, request, res) /\ Tally(s, scheduler, activations, handlerDepth, targetDepth)
  BY DEF Inv
<1>5. Succeeds(b, a)
  <2> HIDE DEF a, s
  <2> QED BY <1>2, RevisedSucceeds, <1>3
<1>6. b.err = e
  BY RevisedFields
<1> HIDE DEF b
<1>7. /\ Sound(u, request, r2) /\ u # << >> /\ Last(u) = b /\ Len(u) = Len(s)
      /\ \A tag \in Tags : Total(u, tag) = Total(s, tag)
  BY <1>2, <1>4, <1>5, ReplaceTop, <1>3, <1>6
<1> HIDE DEF u, s, a
<1> QED BY <1>3, <1>7, <1>2, <1>4, SameTally DEF s

LEMMA TopAsIs ==
    ASSUME Inv, Running, Top.kind = "loop", NEW x, NEW y
    PROVE  /\ [Top EXCEPT !.status = x] = Revised(Top, Top.scopes, x, Top.err)
           /\ [Top EXCEPT !.err = x] = Revised(Top, Top.scopes, Top.status, x)
           /\ [Top EXCEPT !.status = x, !.err = y] = Revised(Top, Top.scopes, x, y)
           /\ [Top EXCEPT !.scopes = x] = Revised(Top, x, Top.status, Top.err)
           /\ [Top EXCEPT !.scopes = x, !.status = y] = Revised(Top, x, y, Top.err)
<1>1. IsLoop(Top)
  BY LoopOnTop
<1>2. [Top EXCEPT !.status = x] = Revised(Top, Top.scopes, x, Top.err)
  BY ONLY <1>1, LoopUpdates, Zenon
<1>3. [Top EXCEPT !.err = x] = Revised(Top, Top.scopes, Top.status, x)
  BY ONLY <1>1, LoopUpdates, Zenon
<1>4. [Top EXCEPT !.status = x, !.err = y] = Revised(Top, Top.scopes, x, y)
  <2>1. [Top EXCEPT !.status = x, !.err = y] = [[Top EXCEPT !.status = x] EXCEPT !.err = y]
    OBVIOUS
  <2>2. [Revised(Top, Top.scopes, x, Top.err) EXCEPT !.err = y] = Revised(Top, Top.scopes, x, y)
    BY DEF Revised
  <2> QED BY ONLY <1>2, <2>1, <2>2
<1>5. [Top EXCEPT !.scopes = x] = Revised(Top, x, Top.status, Top.err)
  BY ONLY <1>1, LoopUpdates, Zenon
<1>6. [Top EXCEPT !.scopes = x, !.status = y] = Revised(Top, x, y, Top.err)
  BY ONLY <1>1, LoopUpdates, Zenon
<1> QED BY <1>2, <1>3, <1>4, <1>5, <1>6

LEMMA RaiseStep ==
    ASSUME Inv, Raise
    PROVE  Inv'
<1>1. Running /\ Top.kind = "loop" /\ Top.status = "run" /\ res = None
  BY DEF Raise, Ready
<1>2. stack' = WithTop([Top EXCEPT !.status = "leave"]) /\ res' = Raised(Top.catch)
  BY DEF Raise
<1>3. stack' = WithTop(Revised(Top, Top.scopes, "leave", Top.err))
  BY <1>1, <1>2, TopAsIs, Zenon
<1>4. Top.err = None
  BY <1>1, LoopOnTop
<1>5. /\ Sound(stack', request, res') /\ stack' # << >>
      /\ Tally(stack', scheduler, activations, handlerDepth, targetDepth)
  BY <1>1, <1>2, <1>3, <1>4, LoopOnTop, NotActivation, TopGoesOn
<1> QED BY <1>5 DEF Inv, Raise, Waiting, Events, Counters

LEMMA GuestCallStep ==
    ASSUME Inv, GuestCall
    PROVE  Inv'
<1>1. /\ Running /\ Top.kind = "loop" /\ Top.status = "run" /\ res = None
      /\ Running' /\ UNCHANGED <<closing, Events, Counters, Ghosts, outcome>>
  BY DEF GuestCall, Moves, Ready, Running
<1>2. /\ Top.err = None /\ Top.depth \in Nat /\ Len(Top.scopes) \in Nat \ {0}
      /\ Top.depth + Len(Top.scopes) <= CallLimit + 1 /\ IsStack(Top.scopes) /\ Top.scopes # << >>
  BY <1>1, LoopOnTop
<1>3. CASE Depth(Top) + 1 > CallLimit
  <2>1. stack' = WithTop([Top EXCEPT !.status = "leave"]) /\ res' = CallLimitError(Top.catch)
    BY <1>3 DEF GuestCall
  <2>2. stack' = WithTop(Revised(Top, Top.scopes, "leave", Top.err))
    BY <1>1, <2>1, TopAsIs, Zenon
  <2>3. /\ Sound(stack', request, res') /\ stack' # << >>
        /\ Tally(stack', scheduler, activations, handlerDepth, targetDepth)
    BY <1>1, <1>2, <2>1, <2>2, NotActivation, TopGoesOn
  <2> QED BY <1>1, <2>3 DEF Inv, Waiting, Events, Counters
<1>4. CASE ~(Depth(Top) + 1 > CallLimit)
  <2> DEFINE sc == Append(Top.scopes, << >>)
  <2>1. stack' = WithTop([Top EXCEPT !.scopes = sc]) /\ res' = res
    BY <1>4 DEF GuestCall
  <2>2. IsStack(sc) /\ Len(sc) = Len(Top.scopes) + 1
    BY <1>2, PushFacts
  <2> HIDE DEF sc
  <2>3. sc # << >>
    BY <1>2, <2>2, EmptyStack
  <2>4. Top.depth + Len(sc) <= CallLimit + 1
    BY <1>2, <1>4, <2>2, LimitsAssumption DEF Depth
  <2>5. stack' = WithTop(Revised(Top, sc, "run", Top.err))
    BY <1>1, <2>1, TopAsIs, Zenon
  <2>6. /\ Sound(stack', request, res') /\ stack' # << >>
        /\ Tally(stack', scheduler, activations, handlerDepth, targetDepth)
    BY <1>1, <1>2, <2>2, <2>3, <2>4, <2>5, TopGoesOn, <2>1, NotActivation
  <2> QED BY <1>1, <2>6 DEF Inv, Waiting, Events, Counters
<1> QED BY <1>3, <1>4

(* The innermost frame of the loop on top returns.                         *)
LEMMA FrameReturns ==
    ASSUME Inv, Running, Top.kind = "loop", Top.status \in {"run", "closing"}, Top.err = None,
           ReturnFrame(Top)
    PROVE  /\ Sound(stack', request, res') /\ stack' # << >>
           /\ Tally(stack', scheduler, activations, handlerDepth, targetDepth)
           /\ \E sc, st : stack' = WithTop(Revised(Top, sc, st, None))
           /\ res' # Activation
           /\ Len(stack') = Len(stack)
<1>1. /\ Top.depth \in Nat /\ Len(Top.scopes) \in Nat \ {0}
      /\ Top.depth + Len(Top.scopes) <= CallLimit + 1 /\ IsStack(Top.scopes) /\ Top.scopes # << >>
  BY LoopOnTop
<1>2. CASE Len(Top.scopes) > 1
  <2> DEFINE sc == Front(Top.scopes)
  <2>1. stack' = WithTop([Top EXCEPT !.scopes = sc, !.status = "run"]) /\ res' = None
    BY <1>2 DEF ReturnFrame
  <2>2. IsStack(sc) /\ Len(sc) = Len(Top.scopes) - 1
    BY <1>1, PopFacts
  <2> HIDE DEF sc
  <2>3. stack' = WithTop(Revised(Top, sc, "run", None))
    BY <2>1, TopAsIs, Zenon
  <2>4. IsResult(res') /\ res' # Activation /\ IsResult(None) /\ None # Activation
    BY <2>1, NotActivation
  <2>5. /\ Sound(stack', request, res') /\ stack' # << >>
        /\ Tally(stack', scheduler, activations, handlerDepth, targetDepth)
        /\ Len(stack') = Len(stack)
    BY <2>2, <2>3, <2>4, TopGoesOn, <1>1, <1>2, EmptyStack, LimitsAssumption
  <2> QED BY <2>3, <2>4, <2>5
<1>3. CASE ~(Len(Top.scopes) > 1)
  <2> DEFINE sc == << << >> >>
  <2>1. stack' = WithTop([Top EXCEPT !.scopes = sc, !.status = "leave"]) /\ res' = Ok(Top.catch)
    BY <1>3 DEF ReturnFrame
  <2>2. IsStack(sc) /\ sc # << >> /\ Len(sc) = 1
    <3>1. sc \in Seq({<< >>})
      OBVIOUS
    <3> QED BY <3>1 DEF IsStack
  <2> HIDE DEF sc
  <2>3. Top.depth + Len(sc) <= CallLimit + 1
    BY <1>1, <2>2, LimitsAssumption
  <2>4. stack' = WithTop(Revised(Top, sc, "leave", None))
    BY <2>1, TopAsIs, Zenon
  <2>5. IsResult(res') /\ res' # Activation /\ IsResult(None) /\ None # Activation
    BY <2>1, NotActivation
  <2>6. /\ Sound(stack', request, res') /\ stack' # << >>
        /\ Tally(stack', scheduler, activations, handlerDepth, targetDepth)
        /\ Len(stack') = Len(stack)
    BY <2>2, <2>3, <2>4, <2>5, TopGoesOn
  <2> QED BY <2>4, <2>5, <2>6
<1> QED BY <1>2, <1>3

LEMMA ReturnStep ==
    ASSUME Inv, Return
    PROVE  Inv'
  BY LoopOnTop, FrameReturns DEF Return, Moves, Ready, Running, Inv, Waiting, Events, Counters

LEMMA ReturnDynamicStep ==
    ASSUME Inv, ReturnDynamic
    PROVE  Inv'
<1>1. /\ Running /\ Top.kind = "loop" /\ Top.status = "run" /\ res = None /\ res' = res
      /\ Running' /\ UNCHANGED <<closing, Events, Counters, Ghosts, outcome>>
      /\ stack' = WithTop([Top EXCEPT !.status = "closing", !.err = None])
  BY DEF ReturnDynamic, Moves, Ready, Running
<1>2. stack' = WithTop(Revised(Top, Top.scopes, "closing", None))
  BY <1>1, TopAsIs, Zenon
<1>3. /\ Sound(stack', request, res') /\ stack' # << >>
      /\ Tally(stack', scheduler, activations, handlerDepth, targetDepth)
  BY <1>1, <1>2, LoopOnTop, NotActivation, TopGoesOn
<1> QED BY <1>1, <1>3 DEF Inv, Waiting, Events, Counters

LEMMA OpenScopeStep ==
    ASSUME Inv, OpenScope
    PROVE  Inv'
<1> DEFINE v == Len(closed) + 1
           n == Len(Top.scopes)
           x == Append(Top.scopes[n], v)
           sc == [Top.scopes EXCEPT ![n] = x]
<1>1. /\ Running /\ Top.kind = "loop" /\ Top.status = "run" /\ res = None /\ res' = res
      /\ Running' /\ UNCHANGED <<Events, Counters, outcome>>
      /\ stack' = WithTop([Top EXCEPT !.scopes[Len(Top.scopes)] = Append(@, v)])
  BY DEF OpenScope, Moves, Ready, Running, Counters
<1>2. IsLoop(Top) /\ IsStack(Top.scopes) /\ Top.scopes # << >> /\ Top.depth + n <= CallLimit + 1 /\ Top.err = None
  BY <1>1, LoopOnTop
<1>3. stack' = WithTop([Top EXCEPT !.scopes[n] = x])
  BY <1>1, <1>2 DEF IsLoop
<1>4. IsStack(sc) /\ sc # << >> /\ Len(sc) = n
  BY <1>2, StackUpdate
<1>5. [Top EXCEPT !.scopes[n] = x] = Revised(Top, sc, Top.status, Top.err)
  BY ONLY <1>2, ScopeUpdates
<1> HIDE DEF sc, x, v
<1>6. stack' = WithTop(Revised(Top, sc, "run", Top.err))
  BY <1>1, <1>3, <1>5
<1> QED BY <1>1, <1>2, <1>4, <1>6, NotActivation, TopGoesOn DEF Inv, Waiting, Events, Counters

(* The loop on top calls a native function, which calls guest code back.   *)
LEMMA CalledBack ==
    ASSUME Inv, Running, Top.kind = "loop", Top.status = "run", res = None,
           NEW sc, IsStack(sc), sc # << >>, Len(sc) = Len(Top.scopes),
           NEW a, IsNative(a), NEW id, NEW catch, NEW m,
           CallGuest(WithTop(Revised(Top, sc, "busy", Top.err)) \o <<a>>, id, catch, Depth(Top), m)
    PROVE  /\ Sound(stack', request, res') /\ stack' # << >>
           /\ Tally(stack', scheduler, activations, handlerDepth, targetDepth)
<1> DEFINE u == WithTop(Revised(Top, sc, "busy", Top.err))
           v == Append(u, a)
           d == Depth(Top)
<1>1. Top.err = None /\ Top.depth + Len(sc) <= CallLimit + 1 /\ stack # << >> /\ WellStacked(stack)
  BY LoopOnTop
<1>2. /\ Sound(u, request, res) /\ u # << >>
      /\ Tally(u, scheduler, activations, handlerDepth, targetDepth)
      /\ \A tag \in Tags : Total(u, tag) = Total(stack, tag)
  BY <1>1, NotActivation, TopGoesOn
<1>3. Room(stack, d)
  BY <1>1, TopRoom DEF Top
<1>4. u \o <<a>> = v
  BY <1>2, PushFacts DEF Sound, WellStacked
<1>5. CallGuest(v, id, catch, d, m)
  BY <1>4
<1> HIDE DEF u, d
<1>6. Room(u, d)
  BY <1>2, <1>3 DEF Room, Tags
<1>7. /\ Sound(v, request, res) /\ v # << >> /\ Room(v, d)
      /\ \A tag \in Tags : Total(v, tag) = Total(u, tag)
  BY <1>2, <1>6, NativePushed
<1> HIDE DEF v
<1>8. Called(v, stack', res', id, catch, d, m)
  BY <1>5 DEF CallGuest, Called
<1>9. /\ Sound(stack', request, res') /\ stack' # << >>
      /\ \A tag \in Tags \ {"loop"} : Total(stack', tag) = Total(v, tag)
  BY <1>7, <1>8, GuestCalled
<1>10. Tally(stack', scheduler, activations, handlerDepth, targetDepth)
  BY <1>2, <1>7, <1>9, SameTally
<1> QED BY <1>9, <1>10

LEMMA CallbackStep ==
    ASSUME Inv, Callback
    PROVE  Inv'
<1> DEFINE a == Native(Top.catch)
<1>1. /\ Running /\ Top.kind = "loop" /\ Top.status = "run" /\ res = None
      /\ Running' /\ UNCHANGED <<closing, frames, request, Counters, Ghosts, outcome>>
      /\ captured' = None
      /\ CallGuest(WithTop([Top EXCEPT !.status = "busy"]) \o <<a>>, Fresh, Top.catch, Depth(Top), Len(closing))
  BY DEF Callback, Moves, Ready, Running
<1>2. [Top EXCEPT !.status = "busy"] = Revised(Top, Top.scopes, "busy", Top.err)
  BY <1>1, TopAsIs, Zenon
<1>3. IsNative(a)
  BY DEF IsNative, Native
<1> HIDE DEF a
<1>4. IsStack(Top.scopes) /\ Top.scopes # << >>
  BY <1>1, LoopOnTop
<1>5. /\ Sound(stack', request, res') /\ stack' # << >>
      /\ Tally(stack', scheduler, activations, handlerDepth, targetDepth)
  BY <1>1, <1>3, <1>4, CalledBack, <1>2
<1> QED BY <1>1, <1>5 DEF Inv, Waiting, Counters

LEMMA CloseScopeStep ==
    ASSUME Inv, CloseScope
    PROVE  Inv'
<1> DEFINE a == Native(Top.catch)
           n == Len(Top.scopes)
           x == Front(Top.scopes[n])
           sc == [Top.scopes EXCEPT ![n] = x]
           rest == TakeCloseValue(Last(Last(Top.scopes)))
<1>1. /\ Running /\ Top.kind = "loop" /\ Top.status = "run" /\ res = None
      /\ Running' /\ UNCHANGED <<frames, request, Counters, outcome>>
      /\ captured' = None
      /\ CallGuest(WithTop([Top EXCEPT !.scopes[Len(Top.scopes)] = Front(@), !.status = "busy"]) \o <<a>>,
                   Fresh, Top.catch, Depth(Top), Len(rest))
  BY Zenon DEF CloseScope, Moves, Ready, Running
<1>2. IsLoop(Top) /\ IsStack(Top.scopes) /\ Top.scopes # << >>
  BY <1>1, LoopOnTop
<1>3. [Top EXCEPT !.scopes[Len(Top.scopes)] = Front(@), !.status = "busy"] = [Top EXCEPT !.scopes[n] = x, !.status = "busy"]
  BY <1>2 DEF IsLoop
<1>4. IsStack(sc) /\ sc # << >> /\ Len(sc) = n
  BY <1>2, StackUpdate
<1>5. [Top EXCEPT !.scopes[n] = x, !.status = "busy"] = Revised(Top, sc, "busy", Top.err)
  <2>1. [Top EXCEPT !.scopes[n] = x, !.status = "busy"] = [[Top EXCEPT !.scopes[n] = x] EXCEPT !.status = "busy"]
    OBVIOUS
  <2>2. [Top EXCEPT !.scopes[n] = x] = Revised(Top, sc, Top.status, Top.err)
    BY ONLY <1>2, ScopeUpdates
  <2>3. [Revised(Top, sc, Top.status, Top.err) EXCEPT !.status = "busy"] = Revised(Top, sc, "busy", Top.err)
    BY DEF Revised
  <2> QED BY ONLY <2>1, <2>2, <2>3
<1>6. IsNative(a)
  BY DEF IsNative, Native
<1> HIDE DEF sc, x, a, rest
<1>7. /\ Sound(stack', request, res') /\ stack' # << >>
      /\ Tally(stack', scheduler, activations, handlerDepth, targetDepth)
  BY <1>1, <1>4, <1>6, CalledBack, <1>3, <1>5
<1> QED BY <1>1, <1>7 DEF Inv, Waiting, Counters

(* A loop that makes a protected call by the recursive fallback.           *)
LEMMA FallbackShape ==
    ASSUME Inv, Running, Top.kind = "loop", NEW target, NEW handler, NEW restore \in BOOLEAN,
           NEW call, NEW entered \in BOOLEAN
    PROVE  /\ IsFallback(FallbackRecord(target, handler, restore, call, entered))
           /\ FallbackRecord(target, handler, restore, call, entered).depth = Depth(Top)
           /\ FallbackRecord(target, handler, restore, call, entered).native = (target # "guest")
           /\ FallbackRecord(target, handler, restore, call, entered).restore = restore
           /\ FallbackRecord(target, handler, restore, call, entered).entered = entered
<1> DEFINE b == FallbackRecord(target, handler, restore, call, entered)
<1>1. b = [kind |-> "fallback", call |-> call, caller |-> Top.id, handler |-> handler,
           native |-> target # "guest", restore |-> restore, prev |-> captured,
           depth |-> Depth(Top), entered |-> entered]
  BY DEF FallbackRecord
<1>2. Depth(Top) \in Nat /\ Depth(Top) <= CallLimit
  BY LoopOnTop, TopRoom DEF Top
<1> HIDE DEF b
<1>3. /\ b.kind = "fallback" /\ b.call = call /\ b.caller = Top.id /\ b.handler = handler
      /\ b.native = (target # "guest") /\ b.restore = restore /\ b.prev = captured
      /\ b.depth = Depth(Top) /\ b.entered = entered
  BY <1>1
<1>4. IsFallback(b)
  BY <1>1, <1>2, <1>3 DEF IsFallback
<1> QED BY <1>3, <1>4 DEF b

LEMMA FallbackTags ==
    ASSUME NEW b, b.kind = "fallback", b.native \in BOOLEAN
    PROVE  /\ Has(b, "entered") <=> b.entered
           /\ Has(b, "guest") <=> b.entered /\ ~b.native
           /\ Has(b, "bypass") <=> b.restore
           /\ ~Has(b, "handler") /\ ~Has(b, "target") /\ ~Has(b, "finish")
BY DEF Has

LEMMA RecordPushed ==
    ASSUME Inv, Running, Top.kind = "loop", Top.status = "run", res = None,
           NEW b, IsFallback(b), b.depth = Depth(Top),
           b.restore => scheduler,
           b.entered /\ ~b.native => b.restore \/ ~scheduler,
           b.entered => activations < MaxActivations,
           NEW r2, IsResult(r2), r2 # Activation
    PROVE  LET v == WithTop(Revised(Top, Top.scopes, "busy", Top.err)) \o <<b>> IN
           /\ Sound(v, request, r2) /\ v # << >> /\ Room(v, Depth(Top))
           /\ Tally(v, scheduler /\ ~b.restore, activations + One(b.entered), handlerDepth,
                    targetDepth + One(b.entered /\ ~b.native))
<1> DEFINE u == WithTop(Revised(Top, Top.scopes, "busy", Top.err))
           v == Append(u, b)
           d == Depth(Top)
<1>1. /\ Top.err = None /\ stack # << >> /\ WellStacked(stack) /\ IsStack(Top.scopes) /\ Top.scopes # << >>
      /\ Top.depth + Len(Top.scopes) <= CallLimit + 1
  BY LoopOnTop
<1>2. /\ Sound(u, request, res) /\ u # << >>
      /\ Tally(u, scheduler, activations, handlerDepth, targetDepth)
      /\ \A tag \in Tags : Total(u, tag) = Total(stack, tag)
  BY <1>1, NotActivation, TopGoesOn
<1>3. Room(stack, d)
  BY <1>1, TopRoom DEF Top
<1>4. u \o <<b>> = v
  BY <1>2, PushFacts DEF Sound, WellStacked
<1> HIDE DEF u, d
<1>5. Room(u, d)
  BY <1>2, <1>3 DEF Room, Tags
<1>6. /\ Has(b, "entered") <=> b.entered
      /\ Has(b, "guest") <=> b.entered /\ ~b.native
      /\ Has(b, "bypass") <=> b.restore
      /\ ~Has(b, "handler") /\ ~Has(b, "target") /\ ~Has(b, "finish")
      /\ b.entered \in BOOLEAN /\ b.native \in BOOLEAN /\ b.restore \in BOOLEAN
  BY FallbackTags DEF IsFallback
<1>7. \A tag : Total(u, tag) \in Nat
  BY <1>2, TotalsNat
<1>8. /\ Total(u, "bypass") + Total(u, "finish") <= 1
      /\ scheduler => Total(u, "bypass") + Total(u, "finish") = 0
      /\ ~scheduler => Total(u, "bypass") + Total(u, "finish") = 1
      /\ activations = Total(u, "entered") /\ activations <= MaxActivations
      /\ handlerDepth = Total(u, "handler")
      /\ targetDepth = Total(u, "guest") + Total(u, "target")
      /\ scheduler \in BOOLEAN
  BY <1>2 DEF Tally
<1>9. /\ Sound(v, request, r2) /\ v # << >> /\ Room(v, d)
      /\ \A tag \in Tags : Total(v, tag) = Total(u, tag) + One(Has(b, tag))
  BY <1>6, <1>8, <1>2, <1>5, FallbackPushed DEF d
<1> HIDE DEF v
<1>10. /\ Total(v, "entered") = Total(u, "entered") + One(b.entered)
       /\ Total(v, "guest") = Total(u, "guest") + One(b.entered /\ ~b.native)
       /\ Total(v, "bypass") = Total(u, "bypass") + One(b.restore)
       /\ Total(v, "handler") = Total(u, "handler")
       /\ Total(v, "target") = Total(u, "target")
       /\ Total(v, "finish") = Total(u, "finish")
  BY <1>6, <1>7, <1>9 DEF Tags, One
<1>11. Tally(v, scheduler /\ ~b.restore, activations + One(b.entered), handlerDepth,
             targetDepth + One(b.entered /\ ~b.native))
  BY <1>6, <1>7, <1>8, <1>10, LimitsAssumption DEF Tally, One
<1> QED BY <1>4, <1>9, <1>11 DEF u, d

LEMMA Asked ==
    ASSUME NEW s, NEW q, NEW r, Sound(s, q, r), NEW q2, q2 # None, NEW r2, IsResult(r2)
    PROVE  Sound(s, q2, r2)
BY DEF Sound

LEMMA FallbackStep ==
    ASSUME Inv, Running, Top.kind = "loop", Top.status = "run", res = None,
           NEW target \in {"guest", "returns", "raises", "callsBack"}, NEW handler,
           NEW restore \in BOOLEAN, NEW call,
           restore => scheduler, target = "guest" => restore \/ ~scheduler,
           Fallback(target, handler, restore, call)
    PROVE  /\ Sound(stack', request', res') /\ stack' # << >>
           /\ Tally(stack', scheduler', activations', handlerDepth', targetDepth')
           /\ captured' \in {None, captured} /\ request' = request
<1> DEFINE entered == activations < MaxActivations
           b == FallbackRecord(target, handler, restore, call, entered)
           v == WithTop(Revised(Top, Top.scopes, "busy", Top.err)) \o <<b>>
           d == Depth(Top)
<1>1. [Top EXCEPT !.status = "busy"] = Revised(Top, Top.scopes, "busy", Top.err)
  BY TopAsIs, Zenon
<1>2. WithTop([Top EXCEPT !.status = "busy"])
        \o <<FallbackRecord(target, handler, restore, call, activations < MaxActivations)>> = v
  BY <1>1
<1>3. /\ IsFallback(b) /\ b.depth = d
      /\ b.native = (target # "guest") /\ b.restore = restore /\ b.entered = entered
  <2>1. entered \in BOOLEAN
    OBVIOUS
  <2> HIDE DEF entered
  <2> QED BY <2>1, FallbackShape
<1>4. /\ scheduler' = (scheduler /\ ~restore)
      /\ activations' = activations + IF entered THEN 1 ELSE 0
      /\ targetDepth' = targetDepth + IF entered /\ target = "guest" THEN 1 ELSE 0
      /\ captured' \in {None, captured} /\ UNCHANGED <<handlerDepth, request>>
  BY DEF Fallback
<1>5. \/ ~entered /\ stack' = v /\ res' = CallLimitError(call)
      \/ entered /\ target = "returns" /\ stack' = v /\ res' = Ok(call)
      \/ entered /\ target = "raises" /\ stack' = v /\ res' = Raised(call)
      \/ entered /\ target = "callsBack" /\ CallGuest(Append(v, Native(call)), call + 1, call, d, Len(closing))
      \/ entered /\ target = "guest" /\ CallGuest(v, call + 1, call, d, Len(closing))
  <2> HIDE DEF v, d, b
  <2> QED BY <1>2 DEF Fallback, d
<1> HIDE DEF b
<1>6. ASSUME NEW r2, IsResult(r2), r2 # Activation
      PROVE  /\ Sound(v, request, r2) /\ v # << >> /\ Room(v, d)
             /\ Tally(v, scheduler /\ ~b.restore, activations + One(b.entered), handlerDepth,
                      targetDepth + One(b.entered /\ ~b.native))
  BY <1>3, <1>6, RecordPushed
<1> HIDE DEF v, d, entered
<1>7. /\ scheduler' = (scheduler /\ ~b.restore)
      /\ activations' = activations + One(b.entered)
      /\ targetDepth' = targetDepth + One(b.entered /\ ~b.native)
      /\ handlerDepth' = handlerDepth /\ request' = request
  BY <1>3, <1>4 DEF One
<1>8. /\ Sound(v, request, None) /\ v # << >> /\ Room(v, d)
      /\ Tally(v, scheduler', activations', handlerDepth', targetDepth')
  BY <1>6, <1>7, NotActivation
<1>9. CASE stack' = v /\ res' \in {CallLimitError(call), Ok(call), Raised(call)}
  BY <1>9, NotActivation, <1>6, <1>4, <1>7, <1>8
<1>10. CASE CallGuest(v, call + 1, call, d, Len(closing))
  <2>1. Called(v, stack', res', call + 1, call, d, Len(closing))
    BY <1>10 DEF CallGuest, Called
  <2>2. /\ Sound(stack', request, res') /\ stack' # << >>
        /\ \A tag \in Tags \ {"loop"} : Total(stack', tag) = Total(v, tag)
    BY <1>8, <2>1, GuestCalled
  <2>3. Tally(stack', scheduler', activations', handlerDepth', targetDepth')
    BY <1>8, <2>2, SameTally
  <2> QED BY <1>4, <1>7, <2>2, <2>3
<1>11. CASE CallGuest(Append(v, Native(call)), call + 1, call, d, Len(closing))
  <2> DEFINE n == Native(call)
             w == Append(v, n)
  <2>1. IsNative(n)
    BY DEF IsNative, Native
  <2>2. Called(w, stack', res', call + 1, call, d, Len(closing))
    BY <1>11 DEF CallGuest, Called
  <2> HIDE DEF n
  <2>3. /\ Sound(w, request, None) /\ w # << >> /\ Room(w, d)
        /\ \A tag \in Tags : Total(w, tag) = Total(v, tag)
    BY <1>8, <2>1, NativePushed
  <2> HIDE DEF w
  <2>4. /\ Sound(stack', request, res') /\ stack' # << >>
        /\ \A tag \in Tags \ {"loop"} : Total(stack', tag) = Total(w, tag)
    BY <2>2, <2>3, GuestCalled
  <2>5. Tally(stack', scheduler', activations', handlerDepth', targetDepth')
    BY <1>8, <2>3, <2>4, SameTally
  <2> QED BY <1>4, <1>7, <2>4, <2>5
<1> QED BY <1>5, <1>9, <1>10, <1>11

LEMMA RefuseStep ==
    ASSUME Inv, Running, Top.kind = "loop", Top.status = "run", res = None,
           NEW handler, NEW call, RefuseRequest(handler, call)
    PROVE  /\ Sound(stack', request', res') /\ stack' # << >>
           /\ Tally(stack', scheduler', activations', handlerDepth', targetDepth')
           /\ captured' = captured /\ request' = request
<1> DEFINE b == FallbackRecord("guest", handler, FALSE, call, FALSE)
           v == WithTop(Revised(Top, Top.scopes, "busy", Top.err)) \o <<b>>
<1>1. [Top EXCEPT !.status = "busy"] = Revised(Top, Top.scopes, "busy", Top.err)
  BY TopAsIs, Zenon
<1>2. stack' = v /\ res' = Raised(call) /\ UNCHANGED <<request, captured, Counters>>
  BY <1>1 DEF RefuseRequest
<1>3. IsFallback(b) /\ b.depth = Depth(Top) /\ b.restore = FALSE /\ b.entered = FALSE
  <2> DEFINE no == FALSE
             c == FallbackRecord("guest", handler, no, call, no)
  <2>1. no \in BOOLEAN
    OBVIOUS
  <2> HIDE DEF no
  <2>2. IsFallback(c) /\ c.depth = Depth(Top) /\ c.restore = no /\ c.entered = no
    BY <2>1, FallbackShape
  <2> QED BY <2>2 DEF no
<1> HIDE DEF b
<1>4. /\ Sound(v, request, res') /\ v # << >>
      /\ Tally(v, scheduler /\ ~b.restore, activations + One(b.entered), handlerDepth,
               targetDepth + One(b.entered /\ ~b.native))
  BY <1>2, NotActivation, <1>3, RecordPushed
<1> HIDE DEF v
<1>5. /\ (scheduler /\ ~b.restore) = scheduler /\ activations + One(b.entered) = activations
      /\ targetDepth + One(b.entered /\ ~b.native) = targetDepth
  BY TotalsNat, <1>3 DEF Inv, Tally, One
<1> QED BY <1>2, <1>4, <1>5 DEF Counters

LEMMA ActivateStep ==
    ASSUME Inv, Running, Top.kind = "loop", Top.status = "run", res = None,
           NEW handler, NEW call, Activate(handler, call)
    PROVE  /\ Sound(stack', request', res') /\ stack' # << >>
           /\ Tally(stack', scheduler', activations', handlerDepth', targetDepth')
           /\ captured' = captured /\ IsRequest(request')
<1> DEFINE u == WithTop(Revised(Top, Top.scopes, "busy", Top.err))
           charged == Depth(Top) - (IF targetDepth > 0 THEN BaseDepth - 1 ELSE 0)
           depth == IF charged < 0 THEN 0 ELSE charged
<1>1. [Top EXCEPT !.status = "busy"] = Revised(Top, Top.scopes, "busy", Top.err)
  BY TopAsIs, Zenon
<1>2. /\ stack' = u /\ res' = Activation /\ UNCHANGED <<captured, Counters>>
      /\ request' = [kind |-> "request", call |-> call, caller |-> Top.id, handler |-> handler, depth |-> depth]
  BY <1>1 DEF Activate
<1>3. /\ Top.err = None /\ IsStack(Top.scopes) /\ Top.scopes # << >>
      /\ Top.depth + Len(Top.scopes) <= CallLimit + 1 /\ Depth(Top) \in Nat
  BY LoopOnTop, TopRoom DEF Top
<1>4. /\ Sound(u, request, res) /\ u # << >>
      /\ Tally(u, scheduler, activations, handlerDepth, targetDepth)
  BY <1>3, NotActivation, TopGoesOn
<1>5. depth \in Nat
  <2> DEFINE d == Depth(Top)
  <2>1. d \in Nat
    BY <1>3
  <2> HIDE DEF d
  <2> QED BY <2>1, LimitsAssumption DEF d
<1> HIDE DEF depth, u
<1>6. IsRequest(request') /\ request' # None
  BY <1>2, <1>5 DEF IsRequest, None
<1>7. Sound(u, request', res')
  BY <1>2, <1>4, <1>6, NotActivation, Asked
<1> QED BY <1>2, <1>4, <1>6, <1>7 DEF Counters

LEMMA ProtectedCallStep ==
    ASSUME Inv, ProtectedCall
    PROVE  Inv'
<1>1. PICK target \in {"guest", "returns", "raises", "callsBack"}, handler \in BOOLEAN :
        CallProtectedTarget(target, handler)
  BY DEF ProtectedCall
<1> DEFINE call == Fresh
           direct == ~scheduler \/ (handlerDepth = 0 /\ target # "guest")
           nested == scheduler /\ handlerDepth > 0
<1>2. /\ Running /\ Top.kind = "loop" /\ Top.status = "run" /\ res = None
      /\ Running' /\ UNCHANGED <<frames, outcome>>
  BY <1>1 DEF CallProtectedTarget, Moves, Ready, Running
<1>3. \/ nested /\ Fallback(target, handler, TRUE, call)
      \/ direct /\ Fallback(target, handler, FALSE, call)
      \/ ~nested /\ ~direct /\ request # None /\ RefuseRequest(handler, call)
      \/ ~nested /\ ~direct /\ request = None /\ Activate(handler, call)
  BY <1>1 DEF CallProtectedTarget
<1> HIDE DEF call
<1>4. /\ Sound(stack', request', res') /\ stack' # << >>
      /\ Tally(stack', scheduler', activations', handlerDepth', targetDepth')
      /\ captured' \in {None, captured} /\ (request' = request \/ IsRequest(request'))
  <2>1. CASE nested /\ Fallback(target, handler, TRUE, call)
    BY <1>2, <2>1, FallbackStep
  <2>2. CASE direct /\ Fallback(target, handler, FALSE, call)
    BY <1>2, <2>2, FallbackStep
  <2>3. CASE ~nested /\ ~direct /\ request # None /\ RefuseRequest(handler, call)
    BY <1>2, <2>3, RefuseStep
  <2>4. CASE ~nested /\ ~direct /\ request = None /\ Activate(handler, call)
    BY <1>2, <2>4, ActivateStep
  <2> QED BY <1>3, <2>1, <2>2, <2>3, <2>4
<1>5. Waiting'
  BY <1>2, <1>4 DEF Inv, Waiting
<1> QED BY <1>4, <1>5 DEF Inv

-----------------------------------------------------------------------------
(* Results keep the invariant                                              *)

(* Where there is but one activation, or two over the driver.              *)
LEMMA FewTotals ==
    ASSUME NEW s
    PROVE  /\ Len(s) = 1 => \A tag : Total(s, tag) = One(Has(s[1], tag))
           /\ Len(s) = 2 /\ s[1] = Driver => \A tag : Total(s, tag) = One(Has(s[2], tag))
<1>1. \A tag : Count(s, tag, 1) = One(Has(s[1], tag))
  BY CountFacts DEF One
<1>2. ASSUME Len(s) = 1, NEW tag PROVE Total(s, tag) = One(Has(s[1], tag))
  BY <1>1, <1>2 DEF Total
<1>3. ASSUME Len(s) = 2, s[1] = Driver, NEW tag PROVE Total(s, tag) = One(Has(s[2], tag))
  BY <1>3, <1>1, CountFacts DEF Has, Driver, One, Total
<1> QED BY <1>2, <1>3

LEMMA LoopReceivesStep ==
    ASSUME Inv, LoopReceives
    PROVE  Inv'
<1>1. /\ Running /\ Top.kind = "loop" /\ Top.status = "busy" /\ res # None
      /\ Running' /\ UNCHANGED <<frames, request, Counters, outcome>>
  BY DEF LoopReceives, Returning, Running
<1>2. /\ IsLoop(Top) /\ Top.err = None /\ IsStack(Top.scopes) /\ Top.scopes # << >>
      /\ Top.depth + Len(Top.scopes) <= CallLimit + 1 /\ IsResult(res)
  BY <1>1, LoopOnTop
<1>3. CASE res.kind = "ok"
  <2>1. stack' = WithTop([Top EXCEPT !.status = "run"]) /\ res' = None
    BY <1>3 DEF LoopReceives
  <2>2. stack' = WithTop(Revised(Top, Top.scopes, "run", Top.err))
    BY <1>1, <2>1, TopAsIs, Zenon
  <2>3. /\ Sound(stack', request, res') /\ stack' # << >>
        /\ Tally(stack', scheduler, activations, handlerDepth, targetDepth)
    BY <1>1, <1>2, <2>1, <2>2, NotActivation, TopGoesOn
  <2>4. captured' = captured
    BY <1>3 DEF LoopReceives, Activation
  <2> QED BY <1>1, <2>3, <2>4 DEF Inv, Waiting, Counters
<1>4. CASE res.kind # "ok"
  <2>1. stack' = WithTop([Top EXCEPT !.status = "leave"]) /\ res' = res
    BY <1>4 DEF LoopReceives
  <2>2. stack' = WithTop(Revised(Top, Top.scopes, "leave", Top.err))
    BY <1>1, <2>1, TopAsIs, Zenon
  <2>3. captured' = captured \/ IsCont(captured')
    <3>1. captured' = captured \/ captured' = [Top EXCEPT !.status = "run"]
      BY DEF LoopReceives
    <3>2. [Top EXCEPT !.status = "run"] = Revised(Top, Top.scopes, "run", None)
      BY <1>1, <1>2, TopAsIs, Zenon
    <3>3. Revised(Top, Top.scopes, "run", None).status = "run"
      BY RevisedFields
    <3> QED BY <3>1, <3>2, <3>3, <1>2, NotActivation, RevisedSucceeds DEF IsCont
  <2> QED BY <1>1, <2>3, <1>2, <2>1, <2>2, NotActivation, TopGoesOn DEF Inv, Waiting, Counters
<1> QED BY <1>3, <1>4

(* An activation that is neither the driver nor the main loop is taken off *)
(* the stack with what it stands for.                                      *)
LEMMA TopLeaves ==
    ASSUME Inv, Running, Len(stack) > 1, NEW r2, IsResult(r2),
           r2 = Activation => res = Activation \/ Has(Top, "activated") \/ request # None,
           ~Has(Top, "finish")
    PROVE  /\ Sound(Below, request, r2) /\ Below # << >>
           /\ Tally(Below, scheduler \/ Has(Top, "bypass"),
                    activations - One(Has(Top, "entered")), handlerDepth - One(Has(Top, "handler")),
                    targetDepth - One(Has(Top, "guest")) - One(Has(Top, "target")))
<1> DEFINE s == stack
           a == Last(s)
           f == Front(s)
<1>1. Sound(s, request, res) /\ Tally(s, scheduler, activations, handlerDepth, targetDepth)
  BY DEF Inv
<1>2. Len(s) > 1 /\ Below = f /\ Top = a
  BY DEF Below, Top
<1> HIDE DEF s
<1>3. /\ Sound(f, request, r2) /\ f # << >> /\ s # << >>
      /\ \A tag \in Tags : Total(s, tag) = Total(f, tag) + (IF Has(a, tag) THEN 1 ELSE 0)
  BY <1>1, <1>2, PopTop
<1> HIDE DEF f, a
<1>4. \A tag : Total(f, tag) \in Nat
  BY <1>3, TotalsNat
<1>5. ~Has(a, "finish")
  BY <1>2
<1>6. /\ Total(s, "bypass") + Total(s, "finish") <= 1
      /\ scheduler => Total(s, "bypass") + Total(s, "finish") = 0
      /\ ~scheduler => Total(s, "bypass") + Total(s, "finish") = 1
      /\ activations = Total(s, "entered") /\ activations <= MaxActivations
      /\ handlerDepth = Total(s, "handler")
      /\ targetDepth = Total(s, "guest") + Total(s, "target")
      /\ scheduler \in BOOLEAN
  BY <1>1, <1>3 DEF Tally
<1>7. /\ Total(s, "bypass") = Total(f, "bypass") + One(Has(a, "bypass"))
      /\ Total(s, "finish") = Total(f, "finish") + One(Has(a, "finish"))
      /\ Total(s, "entered") = Total(f, "entered") + One(Has(a, "entered"))
      /\ Total(s, "handler") = Total(f, "handler") + One(Has(a, "handler"))
      /\ Total(s, "guest") = Total(f, "guest") + One(Has(a, "guest"))
      /\ Total(s, "target") = Total(f, "target") + One(Has(a, "target"))
  BY <1>3 DEF Tags, One
<1>8. Tally(f, scheduler \/ Has(a, "bypass"),
            activations - One(Has(a, "entered")), handlerDepth - One(Has(a, "handler")),
            targetDepth - One(Has(a, "guest")) - One(Has(a, "target")))
  <2>1. /\ activations - One(Has(a, "entered")) = Total(f, "entered")
        /\ activations - One(Has(a, "entered")) <= MaxActivations
        /\ handlerDepth - One(Has(a, "handler")) = Total(f, "handler")
        /\ targetDepth - One(Has(a, "guest")) - One(Has(a, "target")) = Total(f, "guest") + Total(f, "target")
    <3> DEFINE e == One(Has(a, "entered"))
               h == One(Has(a, "handler"))
               g == One(Has(a, "guest"))
               t == One(Has(a, "target"))
    <3>1. e \in {0, 1} /\ h \in {0, 1} /\ g \in {0, 1} /\ t \in {0, 1}
      BY DEF One
    <3>2. /\ activations = Total(f, "entered") + e /\ handlerDepth = Total(f, "handler") + h
          /\ targetDepth = (Total(f, "guest") + g) + (Total(f, "target") + t)
          /\ activations <= MaxActivations
      BY <1>6, <1>7
    <3> HIDE DEF e, h, g, t
    <3>3. PICK w \in Nat, x \in Nat, y \in Nat, z \in Nat :
            /\ w = Total(f, "entered") /\ x = Total(f, "handler")
            /\ y = Total(f, "guest") /\ z = Total(f, "target")
      BY <1>4
    <3>4. activations = w + e /\ handlerDepth = x + h /\ targetDepth = (y + g) + (z + t)
      BY <3>2, <3>3
    <3>5. activations - e = w /\ activations - e <= activations
      BY ONLY <3>1, <3>3, <3>4
    <3>6. handlerDepth - h = x
      BY ONLY <3>1, <3>3, <3>4
    <3>7. targetDepth - g - t = y + z
      BY ONLY <3>1, <3>3, <3>4
    <3>8. activations - e <= MaxActivations
      BY ONLY <3>1, <3>2, <3>3, <3>4, LimitsAssumption
    <3> QED BY <3>3, <3>5, <3>6, <3>7, <3>8 DEF e, h, g, t
  <2>2. /\ Total(f, "bypass") + Total(f, "finish") <= 1
        /\ scheduler \/ Has(a, "bypass") => Total(f, "bypass") + Total(f, "finish") = 0
        /\ ~(scheduler \/ Has(a, "bypass")) => Total(f, "bypass") + Total(f, "finish") = 1
    BY <1>4, <1>5, <1>6, <1>7 DEF One
  <2>3. (scheduler \/ Has(a, "bypass")) \in BOOLEAN
    OBVIOUS
  <2> QED BY <2>1, <2>2, <2>3 DEF Tally
<1> QED BY <1>2, <1>3, <1>8

LEMMA CountersNat ==
    ASSUME Inv
    PROVE  scheduler \in BOOLEAN /\ activations \in Nat /\ handlerDepth \in Nat /\ targetDepth \in Nat
  BY TotalsNat DEF Inv, Tally

LEMMA LoopGone ==
    ASSUME Inv, Running, Top.kind = "loop", Top.by # "main", NEW r2, IsResult(r2),
           r2 = Activation => res = Activation \/ Top.err = Activation \/ request # None
    PROVE  /\ Sound(Below, request, r2) /\ Below # << >>
           /\ Tally(Below, scheduler, activations, handlerDepth, targetDepth - LeftTargets(Top))
<1>1. stack # << >> /\ WellStacked(stack)
  BY LoopOnTop
<1>2. Len(stack) > 1
  <2> DEFINE n == Len(stack)
  <2>1. n # 1
    BY <1>1, TopShapes DEF Top
  <2>2. n \in Nat \ {0}
    BY <1>1, TopFits
  <2> HIDE DEF n
  <2>3. n > 1
    BY <2>1, <2>2
  <2> QED BY <2>3 DEF n
<1>3. /\ ~Has(Top, "finish") /\ ~Has(Top, "bypass") /\ ~Has(Top, "entered")
      /\ ~Has(Top, "handler") /\ ~Has(Top, "guest")
      /\ Has(Top, "target") <=> Top.by = "target"
      /\ Has(Top, "activated") <=> Top.err = Activation
  BY DEF Has
<1>4. /\ Sound(Below, request, r2) /\ Below # << >>
      /\ Tally(Below, scheduler \/ Has(Top, "bypass"),
               activations - One(Has(Top, "entered")), handlerDepth - One(Has(Top, "handler")),
               targetDepth - One(Has(Top, "guest")) - One(Has(Top, "target")))
  BY <1>2, <1>3, TopLeaves
<1> QED BY <1>4, <1>3, CountersNat DEF One, LeftTargets

LEMMA LoopLeavesStep ==
    ASSUME Inv, LoopLeaves
    PROVE  Inv'
<1>1. /\ Running /\ Top.kind = "loop" /\ Top.by # "main" /\ Top.status = "leave"
      /\ Running' /\ UNCHANGED <<Events, handlerDepth, activations, scheduler, outcome>>
  BY DEF LoopLeaves, Returning, Running
<1>2. /\ IsLoop(Top) /\ IsStack(Top.scopes) /\ Top.scopes # << >>
      /\ Top.depth + Len(Top.scopes) <= CallLimit + 1 /\ IsResult(res)
  BY <1>1, LoopOnTop
<1>3. CASE Unwinds(Top)
  <2>1. /\ stack' = WithTop([Top EXCEPT !.status = "unwind", !.err = res]) /\ res' = None
        /\ targetDepth' = targetDepth
    BY <1>3, CountersNat DEF LoopLeaves
  <2>2. stack' = WithTop(Revised(Top, Top.scopes, "unwind", res))
    BY <1>1, <2>1, TopAsIs, Zenon
  <2>3. /\ Sound(stack', request, res') /\ stack' # << >>
        /\ Tally(stack', scheduler, activations, handlerDepth, targetDepth)
    BY <1>1, <1>2, <2>1, <2>2, NotActivation, TopGoesOn
  <2> QED BY <1>1, <2>1, <2>3 DEF Inv, Waiting, Events
<1>4. CASE ~Unwinds(Top)
  BY <1>4, <1>1, <1>2, LoopGone DEF LoopLeaves, Inv, Waiting, Events
<1> QED BY <1>3, <1>4

LEMMA NativeReturnsStep ==
    ASSUME Inv, NativeReturns
    PROVE  Inv'
<1>1. /\ Running /\ Top.kind = "native" /\ stack' = Below
      /\ res' = IF Top.prev = None THEN res ELSE Raised(Top.to)
      /\ Running' /\ UNCHANGED <<Events, Counters, outcome>>
  BY DEF NativeReturns, Returning, Running
<1>2. stack # << >> /\ WellStacked(stack) /\ IsResult(res)
  BY <1>1 DEF Inv, Sound
<1>3. Len(stack) > 1
  BY <1>1, <1>2, TopShapes DEF Top
<1>4. \A tag : ~Has(Top, tag)
  BY <1>1 DEF Has
<1>5. /\ Sound(Below, request, res') /\ Below # << >>
      /\ Tally(Below, scheduler \/ Has(Top, "bypass"),
               activations - One(Has(Top, "entered")), handlerDepth - One(Has(Top, "handler")),
               targetDepth - One(Has(Top, "guest")) - One(Has(Top, "target")))
  BY <1>1, <1>3, <1>4, TopLeaves, <1>2, NotActivation
<1> QED BY <1>1, <1>5, <1>4, CountersNat DEF Inv, Waiting, Events, Counters, One

LEMMA CloseNextStep ==
    ASSUME Inv, CloseNext
    PROVE  Inv'
<1> DEFINE depth == IF Top.by = "target" /\ Top.status = "unwind" THEN Top.depth - BaseDepth + 1 ELSE Top.depth
           id == Fresh
           m == Len(closing) - 1
           s == stack
<1>1. /\ Running /\ Top.kind = "loop" /\ res = None /\ Top.status \in {"unwind", "closing"}
      /\ Running' /\ UNCHANGED <<Events, Counters, outcome>>
      /\ CallGuest(s, id, Top.catch, depth, m)
  BY Zenon DEF CloseNext, Running
<1>2. s # << >> /\ WellStacked(s) /\ Top.depth \in Nat /\ Sound(s, request, res)
  BY <1>1, LoopOnTop DEF Inv
<1>3. Room(s, depth)
  <2>1. CASE Top.by = "target" /\ Top.status = "unwind"
    <3>1. Len(s) = 2 /\ s[1] = Driver /\ Top.depth >= BaseDepth
      BY <1>1, <1>2, <2>1, TopShapes DEF Top
    <3>2. Total(s, "loop") = One(Has(s[2], "loop"))
      BY <3>1, FewTotals
    <3>3. depth \in Nat
      BY <1>2, <2>1, <3>1, LimitsAssumption
    <3> HIDE DEF depth
    <3> QED BY <3>3, LimitsAssumption, <1>2, <3>2, TotalsNat DEF Room, One
  <2>2. CASE ~(Top.by = "target" /\ Top.status = "unwind")
    BY <1>1, <1>2, TopRoom, <2>2 DEF Top
  <2> QED BY <2>1, <2>2
<1> HIDE DEF depth, id, m
<1>4. Called(s, stack', res', id, Top.catch, depth, m)
  BY <1>1 DEF CallGuest, Called
<1>5. /\ Sound(stack', request, res') /\ stack' # << >>
      /\ \A tag \in Tags \ {"loop"} : Total(stack', tag) = Total(s, tag)
  BY <1>2, <1>3, <1>4, GuestCalled
<1>6. Tally(stack', scheduler, activations, handlerDepth, targetDepth)
  BY <1>2, <1>5, SameTally DEF Inv
<1> QED BY <1>1, <1>5, <1>6 DEF Inv, Waiting, Events, Counters

LEMMA CloseHandledStep ==
    ASSUME Inv, CloseHandled
    PROVE  Inv'
<1>1. /\ Running /\ Top.kind = "loop" /\ Top.status \in {"unwind", "closing"} /\ res' = None
      /\ Running' /\ UNCHANGED <<Events, Counters, outcome>>
      /\ stack' = WithTop(IF res.kind = "ok" THEN Top ELSE [Top EXCEPT !.err = res])
  BY DEF CloseHandled, Returning, Running
<1>2. /\ IsLoop(Top) /\ IsStack(Top.scopes) /\ Top.scopes # << >> /\ IsResult(Top.err)
      /\ Top.depth + Len(Top.scopes) <= CallLimit + 1 /\ IsResult(res)
  BY <1>1, LoopOnTop
<1>3. Top = Revised(Top, Top.scopes, Top.status, Top.err)
  BY <1>2 DEF IsLoop, Revised
<1>4. [Top EXCEPT !.err = res] = Revised(Top, Top.scopes, Top.status, res)
  BY <1>1, TopAsIs, Zenon
<1>5. PICK e \in {Top.err, res} : stack' = WithTop(Revised(Top, Top.scopes, Top.status, e))
  BY <1>1, <1>3, <1>4
<1>6. /\ Sound(stack', request, res') /\ stack' # << >>
      /\ Tally(stack', scheduler, activations, handlerDepth, targetDepth)
  <2> DEFINE st == Top.status
             sc == Top.scopes
  <2> HIDE DEF st, sc
  <2> QED BY <1>1, NotActivation, TopGoesOn, <1>2, <1>5
<1> QED BY <1>1, <1>6 DEF Inv, Waiting, Events, Counters

(* The stack is the main loop, which ends, or the driver alone.            *)
LEMMA OnlyBottom ==
    ASSUME Inv, Running, Len(stack) = 1, Top.kind = "driver" \/ ~Has(Top, "finish")
    PROVE  /\ activations = 0 /\ handlerDepth = 0 /\ targetDepth = 0 /\ scheduler = TRUE
           /\ AtBottom(Top) /\ stack[1] = Top
           /\ \A tag \in Tags \ {"loop"} : Total(stack, tag) = 0
<1> DEFINE a == Top
<1>1. WellStacked(stack) /\ stack # << >> /\ IsStack(stack)
  BY DEF Inv, Sound, WellStacked
<1>2. a = stack[1] /\ FitsAt(stack, 1)
  BY <1>1, TopFits DEF Top
<1>3. AtBottom(a)
  BY <1>2 DEF FitsAt
<1>4. \A tag \in Tags \ {"loop"} : ~Has(a, tag)
  BY <1>3 DEF Tags, Has, AtBottom, Driver, IsLoop
<1>5. \A tag \in Tags \ {"loop"} : Total(stack, tag) = 0
  BY <1>2, <1>4, FewTotals DEF One
<1>6. activations = 0 /\ handlerDepth = 0 /\ targetDepth = 0 /\ scheduler = TRUE
  BY <1>1, <1>5 DEF Inv, Tally, Tags
<1> QED BY <1>2, <1>3, <1>5, <1>6

LEMMA NoTally ==
    ASSUME NEW s, \A tag \in Tags \ {"loop"} : Total(s, tag) = 0
    PROVE  Tally(s, TRUE, 0, 0, 0)
BY LimitsAssumption DEF Tally, Tags

LEMMA EndTally ==
    ASSUME NEW s, s # << >> => Total(s, "finish") = 1,
           Total(s, "entered") = 0, Total(s, "handler") = 0, Total(s, "guest") = 0,
           Total(s, "target") = 0, Total(s, "bypass") = 0
    PROVE  Tally(s, FALSE, 0, 0, 0)
BY LimitsAssumption DEF Tally

(* The driver alone, with a result that it will look at.                   *)
LEMMA DriverAlone ==
    ASSUME NEW q, NEW r, IsResult(r), r # Activation
    PROVE  /\ Sound(<<Driver>>, q, r) /\ <<Driver>> # << >>
           /\ Len(<<Driver>>) = 1 /\ <<Driver>>[1] = Driver
           /\ \A tag \in Tags : Total(<<Driver>>, tag) = 0
<1> DEFINE a == Driver
<1>1. AtBottom(a)
  BY DEF AtBottom
<1>2. \A tag : ~Has(a, tag)
  BY DEF Has, Driver
<1> HIDE DEF a
<1>3. /\ Sound(<<a>>, q, r) /\ <<a>> # << >> /\ Len(<<a>>) = 1 /\ <<a>>[1] = a
      /\ \A tag \in Tags : Total(<<a>>, tag) = One(Has(a, tag))
  BY <1>1, <1>2, BottomAlone
<1>4. \A tag \in Tags : Total(<<a>>, tag) = 0
  BY <1>2, <1>3 DEF One
<1> QED BY <1>3, <1>4 DEF a

(* The driver runs the loop b, a target or a continuation.                 *)
LEMMA DriverRuns ==
    ASSUME NEW q, NEW b, IsLoop(b), b.by \in {"target", "resume"}, b.err = None,
           b.by = "target" => b.depth >= BaseDepth
    PROVE  /\ Sound(<<Driver, b>>, q, None) /\ <<Driver, b>> # << >>
           /\ \A tag \in Tags \ {"loop"} : Total(<<Driver, b>>, tag) = One(tag = "target" /\ b.by = "target")
<1> DEFINE s == <<Driver>>
           u == Append(s, b)
<1>1. <<Driver, b>> = u
  BY DoubleStack
<1>2. /\ Sound(s, q, None) /\ s # << >> /\ Len(s) = 1 /\ s[1] = Driver
      /\ \A tag \in Tags : Total(s, tag) = 0
  BY NotActivation, DriverAlone
<1> HIDE DEF s
<1>3. b.kind = "loop" /\ b.depth \in Nat
  BY DEF IsLoop
<1>4. /\ ~Has(b, "activated") /\ ~Has(b, "guest")
      /\ \A tag \in Tags \ {"loop"} : Has(b, tag) <=> (tag = "target" /\ b.by = "target")
  BY <1>3, NotActivation DEF Has, Tags
<1>5. Fits(s, b)
  BY <1>2, <1>3, LimitsAssumption DEF Tags, Fits, One
<1>6. OnDriver(b)
  BY DEF OnDriver
<1>7. /\ Sound(u, q, None) /\ u # << >>
      /\ \A tag \in Tags : Total(u, tag) = Total(s, tag) + One(Has(b, tag))
  BY <1>2, <1>4, <1>5, <1>6, NotActivation, PushTop
<1> HIDE DEF u
<1>8. ASSUME NEW tag \in Tags \ {"loop"}
      PROVE  Total(u, tag) = One(tag = "target" /\ b.by = "target")
  BY <1>2, <1>4, <1>7 DEF One
<1> QED BY <1>1, <1>7, <1>8

LEMMA ContinuationRuns ==
    ASSUME NEW q, NEW c, IsCont(c)
    PROVE  /\ Sound(<<Driver, [c EXCEPT !.by = "resume"]>>, q, None)
           /\ <<Driver, [c EXCEPT !.by = "resume"]>> # << >>
           /\ Tally(<<Driver, [c EXCEPT !.by = "resume"]>>, TRUE, 0, 0, 0)
<1> DEFINE b == [c EXCEPT !.by = "resume"]
<1>1. IsLoop(c) /\ c.status = "run" /\ c.err = None
  BY DEF IsCont, IsLoop
<1>2. b = [kind |-> "loop", by |-> "resume", id |-> c.id, catch |-> c.catch, marker |-> c.marker,
           depth |-> c.depth, scopes |-> c.scopes, status |-> c.status, err |-> c.err]
  BY <1>1, LoopUpdates, Zenon
<1> HIDE DEF b
<1>3. /\ b.kind = "loop" /\ b.by = "resume" /\ b.id = c.id /\ b.catch = c.catch /\ b.marker = c.marker
      /\ b.depth = c.depth /\ b.scopes = c.scopes /\ b.status = c.status /\ b.err = c.err
  BY <1>2
<1>4. IsLoop(b)
  BY <1>2, <1>3, <1>1 DEF IsLoop
<1>5. /\ Sound(<<Driver, b>>, q, None) /\ <<Driver, b>> # << >>
      /\ \A tag \in Tags \ {"loop"} : Total(<<Driver, b>>, tag) = One(tag = "target" /\ b.by = "target")
  BY <1>1, <1>3, <1>4, DriverRuns
<1>6. Tally(<<Driver, b>>, TRUE, 0, 0, 0)
  BY <1>3, <1>5, NoTally DEF One
<1> QED BY <1>5, <1>6 DEF b

LEMMA CloseDoneStep ==
    ASSUME Inv, CloseDone
    PROVE  Inv'
<1>1. /\ Running /\ Top.kind = "loop" /\ Top.status \in {"unwind", "closing"} /\ res = None
      /\ UNCHANGED <<Events, handlerDepth, activations, scheduler>>
  BY DEF CloseDone
<1>2. /\ IsLoop(Top) /\ IsStack(Top.scopes) /\ Top.scopes # << >> /\ IsResult(Top.err)
      /\ Top.depth + Len(Top.scopes) <= CallLimit + 1 /\ stack # << >> /\ WellStacked(stack)
  BY <1>1, LoopOnTop
<1>3. CASE Top.status = "unwind" /\ Len(stack) = 1
  <2>1. stack' = << >> /\ res' = None /\ outcome' = "failed" /\ UNCHANGED targetDepth
    BY <1>3 DEF CloseDone
  <2>2. Sound(stack', request, res')
    BY <2>1, NotActivation, NothingStacked
  <2>3. /\ ~Has(Top, "entered") /\ ~Has(Top, "handler") /\ ~Has(Top, "guest") /\ ~Has(Top, "target")
    BY <1>1, <1>2, <1>3, TopShapes DEF Top, Has
  <2>4. /\ Total(stack, "entered") = 0 /\ Total(stack, "handler") = 0
        /\ Total(stack, "guest") = 0 /\ Total(stack, "target") = 0
    BY <2>3, <1>2, <1>3, FewTotals, TopFits DEF One, Top
  <2>5. Tally(stack', scheduler, activations, handlerDepth, targetDepth)
    BY <2>1, EmptyTotals, LimitsAssumption, <1>2, <2>4 DEF Tally, Inv
  <2>6. ~Running'
    BY <2>1 DEF Running
  <2> QED BY <1>1, <2>1, <2>2, <2>5, <2>6 DEF Inv, Waiting, Events
<1>4. CASE Top.status = "unwind" /\ Len(stack) # 1
  BY <1>4, <1>1, <1>2, TopShapes, LoopGone DEF CloseDone, Top, Inv, Waiting, Events
<1>5. CASE Top.status = "closing" /\ Top.err = None
  BY <1>5, <1>1, FrameReturns DEF CloseDone, Inv, Waiting, Events
<1>6. CASE Top.status = "closing" /\ Top.err # None
  <2>1. stack' = WithTop([Top EXCEPT !.status = "leave"]) /\ res' = Top.err /\ UNCHANGED targetDepth
    BY <1>6 DEF CloseDone
  <2>2. stack' = WithTop(Revised(Top, Top.scopes, "leave", Top.err))
    BY <1>1, <2>1, TopAsIs, Zenon
  <2>3. /\ Sound(stack', request, res') /\ stack' # << >>
        /\ Tally(stack', scheduler, activations, handlerDepth, targetDepth)
    BY <1>1, <1>2, <1>6, <2>1, <2>2, TopGoesOn
  <2> QED BY <1>1, <2>1, <2>3 DEF Inv, Waiting, Events
<1> QED BY <1>1, <1>3, <1>4, <1>5, <1>6

(* A message handler starts on s.                                          *)
LEMMA StartedTally ==
    ASSUME NEW s, NEW s2, NEW sched, NEW acts, NEW handlers, NEW targets,
           Tally(s, sched, acts, handlers, targets), s # << >>, \A tag : Total(s, tag) \in Nat,
           \A tag \in Tags \ {"loop"} : Total(s2, tag) = Total(s, tag) + One(tag = "handler")
    PROVE  Tally(s2, sched, acts, handlers + 1, targets)
  BY DEF Tags, One, Tally

LEMMA RecordShape ==
    ASSUME NEW call, NEW caller, NEW cont, NEW retry, NEW depth \in Nat, cont = None \/ IsCont(cont)
    PROVE  /\ IsHandler(HandlerRecord(call, caller, cont, retry, depth))
           /\ HandlerRecord(call, caller, cont, retry, depth).cont = cont
           /\ HandlerRecord(call, caller, cont, retry, depth).depth = depth
           /\ HandlerRecord(call, caller, cont, retry, depth).call = call
           /\ HandlerRecord(call, caller, cont, retry, depth).caller = caller
<1> DEFINE a == HandlerRecord(call, caller, cont, retry, depth)
<1>1. a = [kind |-> "handler", call |-> call, caller |-> caller, cont |-> cont, retry |-> retry,
           errors |-> 0, depth |-> depth]
  BY DEF HandlerRecord
<1> HIDE DEF a
<1>2. /\ a.kind = "handler" /\ a.call = call /\ a.caller = caller /\ a.cont = cont /\ a.retry = retry
      /\ a.errors = 0 /\ a.depth = depth
  BY <1>1
<1>3. IsHandler(a)
  BY <1>1, <1>2 DEF IsHandler
<1> QED BY <1>2, <1>3 DEF a

LEMMA FallbackReturnsStep ==
    ASSUME Inv, FallbackReturns
    PROVE  Inv'
<1> DEFINE guest == Top.entered /\ ~Top.native
           result == IF guest /\ Top.prev # None THEN Raised(Top.call) ELSE res
           a == HandlerRecord(Top.call, Top.caller, None, Top.native, Top.depth)
<1>1. /\ Running /\ res # None /\ Top.kind = "fallback"
      /\ Running' /\ UNCHANGED <<frames, request, outcome>>
      /\ activations' = activations - IF Top.entered THEN 1 ELSE 0
      /\ targetDepth' = targetDepth - IF guest THEN 1 ELSE 0
      /\ captured' = IF guest THEN None ELSE captured
      /\ scheduler' = (scheduler \/ Top.restore)
  BY DEF FallbackReturns, Returning, Running
<1>2. \/ result = Activation /\ stack' = Below /\ res' = res /\ handlerDepth' = handlerDepth
      \/ /\ result.kind = "error" /\ StartHandler(Below, a, Top.depth)
         /\ handlerDepth' = handlerDepth + 1
      \/ stack' = Below /\ res' = Ok(Top.call) /\ handlerDepth' = handlerDepth
  BY Zenon DEF FallbackReturns
<1>3. stack # << >> /\ WellStacked(stack) /\ IsStack(stack) /\ IsResult(res) /\ Sound(stack, request, res)
  BY <1>1 DEF Inv, Sound, WellStacked
<1>4. IsFallback(Top) /\ Len(stack) > 1 /\ Room(stack, Top.depth)
  BY <1>1, <1>3, TopShapes, TopRoom DEF Top
<1>5. /\ Top.entered \in BOOLEAN /\ Top.native \in BOOLEAN /\ Top.restore \in BOOLEAN /\ Top.depth \in Nat
  BY <1>4 DEF IsFallback
<1>6. /\ Has(Top, "entered") <=> Top.entered
      /\ Has(Top, "guest") <=> Top.entered /\ ~Top.native
      /\ Has(Top, "bypass") <=> Top.restore
      /\ ~Has(Top, "handler") /\ ~Has(Top, "target") /\ ~Has(Top, "finish")
  BY <1>1, <1>5, FallbackTags
<1>7. ASSUME NEW r2, IsResult(r2), r2 = Activation => res = Activation
      PROVE  /\ Sound(Below, request, r2) /\ Below # << >>
             /\ Tally(Below, scheduler', activations', handlerDepth, targetDepth')
  <2>1. /\ Sound(Below, request, r2) /\ Below # << >>
        /\ Tally(Below, scheduler \/ Has(Top, "bypass"),
                 activations - One(Has(Top, "entered")), handlerDepth - One(Has(Top, "handler")),
                 targetDepth - One(Has(Top, "guest")) - One(Has(Top, "target")))
    BY <1>1, <1>4, <1>6, <1>7, TopLeaves
  <2>2. (scheduler \/ Has(Top, "bypass")) = scheduler'
    BY <1>1, <1>6, CountersNat
  <2>3. handlerDepth - One(Has(Top, "handler")) = handlerDepth
    BY <1>6, CountersNat DEF One
  <2>4. targetDepth - One(Has(Top, "guest")) - One(Has(Top, "target")) = targetDepth'
    BY <1>1, <1>6, CountersNat DEF One
  <2> QED BY <2>1, <2>2, <2>3, <2>4, <1>1, <1>6, CountersNat DEF One
<1>8. Waiting'
  BY <1>1 DEF Inv, Waiting
<1>9. CASE result = Activation /\ stack' = Below /\ res' = res /\ handlerDepth' = handlerDepth
  BY <1>1, <1>3, <1>7, <1>8, <1>9 DEF Inv
<1>10. CASE stack' = Below /\ res' = Ok(Top.call) /\ handlerDepth' = handlerDepth
  BY <1>10, NotActivation, <1>1, <1>7, <1>8 DEF Inv
<1>11. CASE StartHandler(Below, a, Top.depth) /\ handlerDepth' = handlerDepth + 1
  <2> DEFINE s == Below
             d == Top.depth
             id == Fresh
             catch == a.call
             m == Len(closing)
  <2>1. /\ IsHandler(a) /\ a.cont = None /\ a.depth = d
    BY <1>5, NotActivation, RecordShape
  <2>2. Handled(s, stack', a, id, catch, d, m) /\ res' = None
    BY <1>11 DEF StartHandler, Handled
  <2>3. /\ Sound(s, request, None) /\ s # << >>
        /\ Tally(s, scheduler', activations', handlerDepth, targetDepth')
    BY <1>7, NotActivation
  <2>4. Room(s, d)
    BY <1>3, PopTotals, <1>1, <1>4 DEF Below, Top, Has, Room
  <2> HIDE DEF a, s, d, id, catch, m
  <2>5. /\ Sound(stack', request, None) /\ stack' # << >>
        /\ \A tag \in Tags \ {"loop"} : Total(stack', tag) = Total(s, tag) + One(tag = "handler")
    BY <2>1, <2>2, <2>3, <2>4, HandlerStarted
  <2>6. \A tag : Total(s, tag) \in Nat
    BY <2>3, TotalsNat
  <2>7. Tally(stack', scheduler', activations', handlerDepth', targetDepth')
    BY <1>11, <2>3, <2>5, <2>6, StartedTally
  <2> QED BY <1>1, <1>8, <2>2, <2>5, <2>7 DEF Inv
<1> QED BY <1>2, <1>9, <1>10, <1>11

LEMMA HandlerReturnsStep ==
    ASSUME Inv, HandlerReturns
    PROVE  Inv'
<1> DEFINE a == CountError(Top)
<1>1. /\ Running /\ res # None /\ Top.kind = "handler"
      /\ Running' /\ UNCHANGED <<Events, targetDepth, activations, scheduler, outcome>>
  BY DEF HandlerReturns, Returning, Running
<1>2. \/ StartHandler(Below, a, Top.depth) /\ UNCHANGED handlerDepth
      \/ /\ handlerDepth' = handlerDepth - 1
         /\ \/ stack' = Below /\ res' = Ok(Top.call)
            \/ Top.cont # None /\ Resume(Top.cont)
  BY Zenon DEF HandlerReturns
<1>3. stack # << >> /\ WellStacked(stack) /\ IsStack(stack) /\ IsResult(res) /\ Sound(stack, request, res)
  BY <1>1 DEF Inv, Sound, WellStacked
<1>4. /\ IsHandler(Top) /\ Len(stack) > 1
      /\ Top.cont # None => Len(stack) = 2 /\ stack[1] = Driver
  BY <1>1, <1>3, TopShapes DEF Top
<1>5. Has(Top, "handler") /\ \A tag \in Tags \ {"handler"} : ~Has(Top, tag)
  BY <1>1 DEF Has, Tags
<1>6. ASSUME NEW r2, IsResult(r2), r2 # Activation
      PROVE  /\ Sound(Below, request, r2) /\ Below # << >>
             /\ Tally(Below, scheduler, activations, handlerDepth - 1, targetDepth)
  <2>1. ~Has(Top, "finish") /\ ~Has(Top, "bypass") /\ ~Has(Top, "entered") /\ ~Has(Top, "guest") /\ ~Has(Top, "target")
    BY <1>5 DEF Tags
  <2>2. /\ Sound(Below, request, r2) /\ Below # << >>
        /\ Tally(Below, scheduler \/ Has(Top, "bypass"),
                 activations - One(Has(Top, "entered")), handlerDepth - One(Has(Top, "handler")),
                 targetDepth - One(Has(Top, "guest")) - One(Has(Top, "target")))
    BY <1>1, <1>4, <1>6, <2>1, TopLeaves
  <2>3. (scheduler \/ Has(Top, "bypass")) = scheduler
    BY <2>1, CountersNat
  <2>4. handlerDepth - One(Has(Top, "handler")) = handlerDepth - 1
    BY <1>5 DEF One
  <2>5. targetDepth - One(Has(Top, "guest")) - One(Has(Top, "target")) = targetDepth
    BY <2>1, CountersNat DEF One
  <2> QED BY <2>2, <2>3, <2>4, <2>5, <2>1, CountersNat DEF One
<1>7. Waiting' /\ request' = request
  BY <1>1 DEF Inv, Waiting, Events
<1>8. Top.cont # None => Len(Below) = 1 /\ Below[1] = Driver
  <2> SUFFICES ASSUME Top.cont # None PROVE Len(Below) = 1 /\ Below[1] = Driver
    OBVIOUS
  <2> DEFINE n == Len(stack)
  <2>1. n = 2 /\ stack[1] = Driver
    BY <1>4
  <2>2. Len(Below) = n - 1 /\ \A i \in 1 .. n - 1 : Below[i] = stack[i]
    BY <1>3, PopFacts DEF Below
  <2> HIDE DEF n
  <2> QED BY <2>1, <2>2
<1>9. CASE StartHandler(Below, a, Top.depth) /\ UNCHANGED handlerDepth
  <2> DEFINE s == Below
             d == Top.depth
             id == Fresh
             catch == a.call
             m == Len(closing)
  <2>1. IsHandler(a) /\ a.depth = d /\ a.cont = Top.cont
    <3> DEFINE t == Top
    <3>1. t = [kind |-> "handler", call |-> t.call, caller |-> t.caller, cont |-> t.cont,
               retry |-> t.retry, errors |-> t.errors, depth |-> t.depth]
      BY <1>4 DEF IsHandler
    <3>2. t.depth \in Nat /\ (t.cont = None \/ IsCont(t.cont))
      BY <1>4 DEF IsHandler
    <3>3. CountError(Top) = [t EXCEPT !.errors = t.errors + 1]
      BY DEF CountError
    <3> HIDE DEF t
    <3>4. a = [kind |-> "handler", call |-> t.call, caller |-> t.caller, cont |-> t.cont,
               retry |-> t.retry, errors |-> t.errors + 1, depth |-> t.depth]
      BY <3>3, <3>1
    <3> HIDE DEF a
    <3>5. /\ a.kind = "handler" /\ a.call = t.call /\ a.caller = t.caller /\ a.cont = t.cont
          /\ a.retry = t.retry /\ a.errors = t.errors + 1 /\ a.depth = t.depth
      BY <3>4
    <3>6. IsHandler(a)
      BY <3>2, <3>4, <3>5 DEF IsHandler
    <3> QED BY <3>5, <3>6 DEF t
  <2>2. Handled(s, stack', a, id, catch, d, m) /\ res' = None
    BY <1>9 DEF StartHandler, Handled
  <2>3. /\ Sound(s, request, None) /\ s # << >>
        /\ Tally(s, scheduler, activations, handlerDepth - 1, targetDepth)
    BY <1>6, NotActivation
  <2>4. Room(s, d)
    <3> DEFINE n == Len(stack)
    <3>1. /\ Total(stack, "loop") = Total(s, "loop") + (IF Has(Top, "loop") THEN 1 ELSE 0)
          /\ Total(stack, "handler") = Total(s, "handler") + (IF Has(Top, "handler") THEN 1 ELSE 0)
          /\ Total(s, "loop") \in Nat /\ Total(s, "handler") \in Nat
      BY <1>3, PopTotals DEF Below, Top
    <3> HIDE DEF n
    <3>2. /\ Total(stack, "loop") <= Total(stack, "handler") + Top.depth
          /\ Total(stack, "loop") <= Total(stack, "handler") + CallLimit
      BY <1>1, <1>3, TopFits DEF FitsAt, Levels, Top
    <3>3. ~Has(Top, "loop") /\ Has(Top, "handler")
      BY <1>5 DEF Tags
    <3>4. Total(stack, "loop") = Total(s, "loop") /\ Total(stack, "handler") = Total(s, "handler") + 1
      BY <3>1, <3>3
    <3>5. d \in Nat
      BY <1>4 DEF IsHandler
    <3> QED BY <3>1, <3>2, <3>4, <3>5, LimitsAssumption DEF Room
  <2>5. a.cont = None \/ (Len(s) = 1 /\ s[1] = Driver)
    BY <1>8, <2>1
  <2> HIDE DEF a, s, d, id, catch, m
  <2>6. /\ Sound(stack', request, None) /\ stack' # << >>
        /\ \A tag \in Tags \ {"loop"} : Total(stack', tag) = Total(s, tag) + One(tag = "handler")
    BY <2>1, <2>2, <2>3, <2>4, <2>5, HandlerStarted
  <2>7. \A tag : Total(s, tag) \in Nat
    BY <2>3, TotalsNat
  <2>8. Tally(stack', scheduler, activations, handlerDepth - 1 + 1, targetDepth)
    BY <2>3, <2>6, <2>7, StartedTally
  <2>9. handlerDepth - 1 + 1 = handlerDepth
    BY CountersNat
  <2> QED BY <1>1, <1>7, <1>9, <2>2, <2>6, <2>8, <2>9 DEF Inv
<1>10. CASE handlerDepth' = handlerDepth - 1 /\ stack' = Below /\ res' = Ok(Top.call)
  BY <1>10, NotActivation, <1>1, <1>6, <1>7 DEF Inv
<1>11. CASE handlerDepth' = handlerDepth - 1 /\ Top.cont # None /\ Resume(Top.cont)
  <2>1. IsCont(Top.cont)
    BY <1>4, <1>11 DEF IsHandler
  <2>2. stack' = <<Driver, [Top.cont EXCEPT !.by = "resume"]>> /\ res' = None
    BY <1>11 DEF Resume
  <2>3. Tally(Below, scheduler, activations, handlerDepth - 1, targetDepth) /\ Below # << >>
    BY <1>6, NotActivation
  <2>4. \A tag \in Tags : Total(Below, tag) = 0
    BY <1>8, <1>11, FewTotals DEF Has, Driver, One
  <2>5. /\ scheduler = TRUE /\ activations = 0 /\ handlerDepth - 1 = 0 /\ targetDepth = 0
    <3>1. /\ Total(Below, "entered") = 0 /\ Total(Below, "handler") = 0 /\ Total(Below, "guest") = 0
          /\ Total(Below, "target") = 0 /\ Total(Below, "bypass") = 0 /\ Total(Below, "finish") = 0
      BY <2>4 DEF Tags
    <3>2. activations = 0 /\ handlerDepth - 1 = 0 /\ targetDepth = 0
      <4> DEFINE k == handlerDepth - 1
      <4>1. Tally(Below, scheduler, activations, k, targetDepth)
        BY <2>3
      <4> HIDE DEF k
      <4>2. activations = 0 /\ k = 0 /\ targetDepth = 0
        BY <3>1, <4>1 DEF Tally
      <4> QED BY <4>2 DEF k
    <3>3. scheduler \in BOOLEAN /\ (~scheduler => Total(Below, "bypass") + Total(Below, "finish") = 1)
      BY <2>3 DEF Tally
    <3> QED BY <3>1, <3>2, <3>3
  <2> QED BY <1>1, <1>7, <1>11, <2>2, <2>5, <2>1, ContinuationRuns DEF Inv
<1> QED BY <1>2, <1>9, <1>10, <1>11

-----------------------------------------------------------------------------
(* The driver keeps the invariant                                          *)

LEMMA FinishStep ==
    ASSUME Inv, Running, Len(stack) = 1, Top.kind = "driver" \/ ~Has(Top, "finish"),
           NEW r, IsResult(r), r # Activation, NEW loop, IsLoop(loop), loop.by = "main",
           Finish(r, loop), UNCHANGED <<targetDepth, handlerDepth, activations>>
    PROVE  Inv'
<1>1. /\ scheduler' = FALSE /\ request' = None /\ captured' = None /\ frames' = << >> /\ res' = None
      /\ activations' = 0 /\ handlerDepth' = 0 /\ targetDepth' = 0
  BY OnlyBottom DEF Finish
<1>2. Waiting'
  BY <1>1, EmptyStack DEF Waiting
<1>3. CASE r.kind = "ok"
  <2>1. outcome' = "returned" /\ stack' = << >>
    BY <1>3 DEF Finish
  <2>2. Sound(stack', request', res')
    BY <1>1, <2>1, NotActivation, NothingStacked
  <2>3. Tally(stack', FALSE, 0, 0, 0)
    <3> DEFINE s == << >>
    <3>1. s = << >> /\ \A tag : Total(s, tag) = 0
      BY EmptyTotals
    <3> HIDE DEF s
    <3>2. Tally(s, FALSE, 0, 0, 0)
      BY <3>1, EndTally
    <3> QED BY <2>1, <3>2 DEF s
  <2>4. ~Running'
    BY <2>1 DEF Running
  <2> QED BY <1>1, <1>2, <2>2, <2>3, <2>4 DEF Inv
<1>4. CASE r.kind # "ok"
  <2> DEFINE b == Revised(loop, loop.scopes, "unwind", r)
  <2>1. [loop EXCEPT !.status = "unwind", !.err = r] = b
    <3>1. [loop EXCEPT !.status = "unwind", !.err = r] = [[loop EXCEPT !.status = "unwind"] EXCEPT !.err = r]
      OBVIOUS
    <3>2. [loop EXCEPT !.status = "unwind"] = Revised(loop, loop.scopes, "unwind", loop.err)
      BY LoopUpdates, Zenon
    <3>3. [Revised(loop, loop.scopes, "unwind", loop.err) EXCEPT !.err = r] = b
      BY DEF Revised
    <3> QED BY ONLY <3>1, <3>2, <3>3
  <2>2. b.kind = "loop" /\ b.by = "main" /\ b.status = "unwind" /\ b.err = r
    BY RevisedFields
  <2>3. IsLoop(b)
    <3>1. IsStack(loop.scopes) /\ loop.scopes # << >> /\ loop.depth + Len(loop.scopes) <= CallLimit + 1
      BY DEF IsLoop
    <3> QED BY <3>1, RevisedSucceeds
  <2> HIDE DEF b
  <2>4. AtBottom(b) /\ ~Has(b, "activated") /\ Has(b, "finish")
    BY <2>2, <2>3 DEF AtBottom, Has
  <2>5. /\ Sound(<<b>>, request', res') /\ <<b>> # << >>
        /\ \A tag \in Tags : Total(<<b>>, tag) = One(Has(b, tag))
        /\ \A tag \in Tags \ {"loop", "finish"} : ~Has(b, tag)
    BY <1>1, <2>4, NotActivation, BottomAlone
  <2>6. Tally(<<b>>, FALSE, 0, 0, 0)
    BY EndTally, <2>4, <2>5 DEF Tags, One
  <2> QED BY <1>1, <1>2, <2>1, <2>5, <2>6, <1>4 DEF Inv, Finish
<1> QED BY <1>3, <1>4

LEMMA ActivatedStep ==
    ASSUME Inv, Running, Len(stack) = 1, Top.kind = "driver" \/ ~Has(Top, "finish"),
           res = Activation, captured # None, Activated, UNCHANGED <<handlerDepth, activations>>
    PROVE  Inv'
<1>1. activations = 0 /\ handlerDepth = 0 /\ targetDepth = 0 /\ scheduler = TRUE
  BY OnlyBottom
<1>2. IsRequest(request) /\ IsCont(captured)
  BY DEF Inv, Sound, Waiting
<1>3. /\ captured' = None /\ request' = None /\ scheduler' = TRUE /\ outcome' = outcome
      /\ activations' = 0 /\ handlerDepth' = 0
      /\ frames' = Append(frames, [cont |-> captured, req |-> request]) /\ RunTarget(request)
  BY <1>1 DEF Activated
<1>4. Waiting'
  <2> DEFINE f == [cont |-> captured, req |-> request]
             n == Len(frames)
             fs == Append(frames, f)
  <2>1. IsFrame(f)
    BY <1>2 DEF IsFrame
  <2>2. IsStack(frames) /\ n \in Nat /\ \A i \in 1 .. n : IsFrame(frames[i])
    BY StackFacts DEF Inv, Waiting
  <2>3. /\ IsStack(fs) /\ Len(fs) = n + 1 /\ fs[n + 1] = f
        /\ \A i \in 1 .. n : fs[i] = frames[i]
    BY <2>2, PushFacts
  <2> HIDE DEF f, n, fs
  <2>4. \A i \in 1 .. n + 1 : IsFrame(fs[i])
    <3> SUFFICES ASSUME NEW i \in 1 .. n + 1 PROVE IsFrame(fs[i])
      OBVIOUS
    <3>1. CASE i = n + 1
      BY <2>1, <2>3, <3>1
    <3>2. CASE i \in 1 .. n
      BY <2>2, <2>3, <3>2
    <3> QED BY <2>2, <3>1, <3>2
  <2>5. frames' = fs
    BY <1>3 DEF f, fs
  <2> QED BY <1>3, <2>3, <2>4, <2>5 DEF Waiting
<1>5. CASE request.depth + BaseDepth >= CallLimit
  BY <1>1, <1>3, <1>5, NotActivation, DriverAlone, NoTally, <1>4 DEF RunTarget, Inv
<1>6. CASE ~(request.depth + BaseDepth >= CallLimit)
  <2> DEFINE b == NewLoop("target", Fresh, request.call, request.depth + BaseDepth, Len(closing))
  <2>1. stack' = <<Driver, b>> /\ res' = None /\ targetDepth' = 1
    BY <1>1, <1>3, <1>6 DEF RunTarget
  <2>2. request.depth + BaseDepth \in Nat /\ request.depth + BaseDepth <= CallLimit /\ request.depth + BaseDepth >= BaseDepth
    BY <1>2, <1>6, LimitsAssumption DEF IsRequest
  <2>3. /\ IsLoop(b) /\ b.by = "target" /\ b.depth = request.depth + BaseDepth /\ b.err = None
    BY <2>2, NewLoopShape
  <2> HIDE DEF b
  <2>4. /\ Sound(stack', request', res') /\ stack' # << >>
        /\ \A tag \in Tags \ {"loop"} : Total(stack', tag) = One(tag = "target" /\ b.by = "target")
    BY <2>1, <2>2, <2>3, DriverRuns
  <2>5. Tally(stack', TRUE, 0, 0, 1)
    BY LimitsAssumption, <2>3, <2>4 DEF Tally, Tags, One
  <2> QED BY <1>3, <1>4, <2>1, <2>4, <2>5 DEF Inv
<1> QED BY <1>5, <1>6

LEMMA MainLoopShape == IsLoop(MainLoop) /\ MainLoop.by = "main"
BY LimitsAssumption, NewLoopShape DEF MainLoop

LEMMA MainLeavesStep ==
    ASSUME Inv, MainLeaves
    PROVE  Inv'
<1>1. /\ Running /\ Top.kind = "loop" /\ Top.by = "main" /\ Top.status = "leave"
      /\ UNCHANGED <<handlerDepth, activations>>
      /\ \/ res = Activation /\ captured # None /\ Activated
         \/ res = Activation /\ captured = None /\ Finish(Raised(0), Top) /\ UNCHANGED targetDepth
         \/ res # Activation /\ Finish(res, Top) /\ UNCHANGED targetDepth
  BY DEF MainLeaves, Returning
<1>2. IsLoop(Top) /\ IsResult(res) /\ stack # << >> /\ WellStacked(stack)
  BY <1>1, LoopOnTop
<1>3. Len(stack) = 1 /\ ~Has(Top, "finish")
  BY <1>1, <1>2, TopShapes DEF Top, Has
<1>4. CASE res = Activation /\ captured # None /\ Activated
  BY <1>1, <1>3, <1>4, ActivatedStep
<1>5. CASE res = Activation /\ captured = None /\ Finish(Raised(0), Top) /\ UNCHANGED targetDepth
  BY <1>1, <1>2, <1>3, <1>5, NotActivation, FinishStep
<1>6. CASE res # Activation /\ Finish(res, Top) /\ UNCHANGED targetDepth
  BY <1>1, <1>2, <1>3, <1>6, FinishStep
<1> QED BY <1>1, <1>4, <1>5, <1>6

LEMMA DriverOnTop ==
    ASSUME Inv, Running, Top.kind = "driver"
    PROVE  Len(stack) = 1 /\ stack[1] = Driver /\ stack # << >> /\ Top = Driver /\ IsResult(res)
  BY TopShapes, TopFits DEF Inv, Sound, Top

LEMMA DriverActivatesStep ==
    ASSUME Inv, DriverActivates
    PROVE  Inv'
<1>1. /\ Running /\ Top.kind = "driver" /\ res = Activation /\ UNCHANGED <<handlerDepth, activations>>
      /\ \/ captured # None /\ Activated
         \/ captured = None /\ Finish(Raised(0), MainLoop) /\ UNCHANGED targetDepth
  BY DEF DriverActivates, Returning
<1>2. Len(stack) = 1
  BY <1>1, DriverOnTop
<1>3. CASE captured # None /\ Activated
  BY <1>1, <1>2, <1>3, ActivatedStep
<1>4. CASE captured = None /\ Finish(Raised(0), MainLoop) /\ UNCHANGED targetDepth
  <2> DEFINE m == MainLoop
  <2>1. IsLoop(m) /\ m.by = "main"
    BY MainLoopShape
  <2>2. Finish(Raised(0), m)
    BY <1>4
  <2> HIDE DEF m
  <2> QED BY <1>1, <1>2, <1>4, <2>1, <2>2, NotActivation, FinishStep
<1> QED BY <1>1, <1>3, <1>4

LEMMA DriverReceivesStep ==
    ASSUME Inv, DriverReceives
    PROVE  Inv'
<1> DEFINE f == InnermostFrame
           c == f.cont
           depth == f.req.depth + BaseDepth
           a == HandlerRecord(f.req.call, f.req.caller, c, FALSE, depth)
<1>1. /\ Running /\ Top.kind = "driver" /\ res # Activation /\ UNCHANGED <<targetDepth, activations>>
  BY DEF DriverReceives, Returning
<1>2. Len(stack) = 1 /\ stack[1] = Driver /\ stack # << >> /\ IsResult(res)
  BY <1>1, DriverOnTop
<1>3. CASE frames = << >>
  <2> DEFINE m == MainLoop
  <2>1. IsLoop(m) /\ m.by = "main"
    BY MainLoopShape
  <2>2. Finish(res, m) /\ UNCHANGED handlerDepth
    BY <1>3 DEF DriverReceives
  <2> HIDE DEF m
  <2> QED BY <1>1, <1>2, <2>1, <2>2, FinishStep
<1>4. CASE frames # << >>
  <2>1. /\ frames' = Front(frames) /\ UNCHANGED <<request, captured, scheduler, outcome>>
        /\ \/ StartHandler(stack, a, depth) /\ handlerDepth' = handlerDepth + 1
           \/ Resume(c) /\ UNCHANGED handlerDepth
    BY <1>4, Zenon DEF DriverReceives
  <2>2. IsStack(frames) /\ \A i \in 1 .. Len(frames) : IsFrame(frames[i])
    BY DEF Inv, Waiting
  <2>3. Len(frames) \in Nat \ {0} /\ f = frames[Len(frames)]
    BY <1>4, <2>2, StackFacts DEF InnermostFrame
  <2>4. IsFrame(f)
    BY <2>2, <2>3
  <2>5. IsCont(c) /\ depth \in Nat
    BY <2>4, LimitsAssumption DEF IsFrame, IsRequest
  <2>6. Waiting' /\ request' = request /\ Running'
    <3> DEFINE fs == Front(frames)
               n == Len(frames)
    <3>1. IsStack(fs) /\ Len(fs) = n - 1 /\ \A i \in 1 .. n - 1 : fs[i] = frames[i]
      BY <1>4, <2>2, PopFacts
    <3>2. n \in Nat \ {0} /\ \A i \in 1 .. n : IsFrame(frames[i])
      BY <2>2, <2>3
    <3> HIDE DEF fs, n
    <3>3. \A i \in 1 .. n - 1 : IsFrame(fs[i])
      BY <3>1, <3>2
    <3>4. frames' = fs
      BY <2>1 DEF fs
    <3>5. IsStack(frames') /\ \A i \in 1 .. Len(frames') : IsFrame(frames'[i])
      BY <3>1, <3>3, <3>4
    <3> QED BY <1>1, <2>1, <3>5 DEF Inv, Waiting, Running
  <2> HIDE DEF f, c, depth
  <2>7. CASE Resume(c) /\ UNCHANGED handlerDepth
    BY <2>7, <2>5, ContinuationRuns, <1>1, <2>1, <2>6, <1>2, OnlyBottom DEF Resume, Inv
  <2>8. CASE StartHandler(stack, a, depth) /\ handlerDepth' = handlerDepth + 1
    <3> DEFINE s == stack
               id == Fresh
               catch == a.call
               m == Len(closing)
    <3>1. IsHandler(a) /\ a.depth = depth /\ a.cont = c
      <4> DEFINE no == FALSE
                 b == HandlerRecord(f.req.call, f.req.caller, c, no, depth)
      <4> HIDE DEF no
      <4>1. IsHandler(b) /\ b.depth = depth /\ b.cont = c
        BY <2>5, RecordShape
      <4> QED BY <4>1 DEF no
    <3>2. Handled(s, stack', a, id, catch, depth, m) /\ res' = None
      BY <2>8 DEF StartHandler, Handled
    <3>3. /\ Sound(s, request, res) /\ s # << >> /\ Len(s) = 1 /\ s[1] = Driver
          /\ Tally(s, scheduler, activations, handlerDepth, targetDepth)
      BY <1>2 DEF Inv
    <3>4. Room(s, depth)
      BY <1>2, FewTotals, <2>5, LimitsAssumption DEF Has, Driver, One, Room
    <3> HIDE DEF a, s, id, catch, m
    <3>5. /\ Sound(stack', request, None) /\ stack' # << >>
          /\ \A tag \in Tags \ {"loop"} : Total(stack', tag) = Total(s, tag) + One(tag = "handler")
      BY <3>1, <3>2, <3>3, <3>4, HandlerStarted
    <3>6. \A tag : Total(s, tag) \in Nat
      BY <3>3, TotalsNat
    <3>7. Tally(stack', scheduler, activations, handlerDepth + 1, targetDepth)
      BY <3>3, <3>5, <3>6, StartedTally
    <3> QED BY <1>1, <2>1, <2>6, <2>8, <3>2, <3>5, <3>7 DEF Inv
  <2> QED BY <2>1, <2>7, <2>8
<1> QED BY <1>3, <1>4

-----------------------------------------------------------------------------
(* Counters and activations                                                *)

LEMMA InvNext ==
    ASSUME Inv, [Next]_vars
    PROVE  Inv'
<1>1. CASE Next
  <2>1. CASE GuestMoves
    BY <2>1, RaiseStep, GuestCallStep, ReturnStep, ReturnDynamicStep, OpenScopeStep, CloseScopeStep,
       CallbackStep, ProtectedCallStep DEF GuestMoves
  <2>2. CASE Results
    BY <2>2, LoopReceivesStep, LoopLeavesStep, NativeReturnsStep, FallbackReturnsStep,
       HandlerReturnsStep, MainLeavesStep, DriverActivatesStep, DriverReceivesStep DEF Results
  <2>3. CASE Closes
    BY <2>3, CloseNextStep, CloseHandledStep, CloseDoneStep DEF Closes
  <2> QED BY <1>1, <2>1, <2>2, <2>3 DEF Next
<1>2. CASE UNCHANGED vars
  BY <1>2 DEF vars, Inv, Running, Waiting
<1> QED BY <1>1, <1>2

LEMMA InvCounts ==
    ASSUME Inv
    PROVE  CountersMatchStack
<1> DEFINE n == Len(stack)
           fallbacks == {i \in Activations("fallback") : stack[i].entered}
           guests == {i \in fallbacks : ~stack[i].native}
           targets == {i \in Activations("loop") : stack[i].by = "target"}
           bypassed == {i \in Activations("fallback") : stack[i].restore}
           finishing == {i \in Activations("loop") : stack[i].by = "main" /\ stack[i].status = "unwind"}
<1>1. WellStacked(stack) /\ n \in Nat /\ DOMAIN stack = 1 .. n
  BY StackFacts DEF Inv, Sound, WellStacked
<1> HIDE DEF n
<1>2. /\ fallbacks = Marked(stack, "entered", n) /\ guests = Marked(stack, "guest", n)
      /\ targets = Marked(stack, "target", n) /\ bypassed = Marked(stack, "bypass", n)
      /\ finishing = Marked(stack, "finish", n)
      /\ Activations("handler") = Marked(stack, "handler", n)
  BY <1>1 DEF Marked, Has, Activations
<1> HIDE DEF fallbacks, guests, targets, bypassed, finishing
<1>3. bypassed \cup finishing = {} <=> Total(stack, "bypass") + Total(stack, "finish") = 0
  <2>1. \A tag : Total(stack, tag) \in Nat /\ Total(stack, tag) = Cardinality(Marked(stack, tag, n))
    BY TotalsNat DEF Inv, Total, Count, n
  <2>2. \A tag : IsFiniteSet(Marked(stack, tag, n))
    BY <1>1, CountFacts
  <2>3. /\ Total(stack, "bypass") = 0 <=> bypassed = {}
        /\ Total(stack, "finish") = 0 <=> finishing = {}
    BY <1>2, <2>1, <2>2, FS_EmptySet
  <2>4. Total(stack, "bypass") + Total(stack, "finish") = 0 <=> Total(stack, "bypass") = 0 /\ Total(stack, "finish") = 0
    BY <2>1
  <2> QED BY <2>3, <2>4
<1>4. Running => (scheduler <=> bypassed \cup finishing = {})
  <2> SUFFICES ASSUME Running PROVE scheduler <=> bypassed \cup finishing = {}
    OBVIOUS
  <2>1. stack # << >>
    BY DEF Inv
  <2>2. /\ scheduler => Total(stack, "bypass") + Total(stack, "finish") = 0
        /\ ~scheduler => Total(stack, "bypass") + Total(stack, "finish") = 1
    BY <2>1 DEF Inv, Tally
  <2> QED BY <1>3, <2>2
<1>5. /\ activations = Cardinality(fallbacks) /\ handlerDepth = Cardinality(Activations("handler"))
      /\ targetDepth = Cardinality(guests) + Cardinality(targets)
  BY <1>2 DEF Inv, Tally, Total, Count, n
<1> QED BY <1>4, <1>5 DEF CountersMatchStack, fallbacks, guests, targets, bypassed, finishing

LEMMA InvBounds ==
    ASSUME Inv
    PROVE  /\ Cardinality(Activations("loop")) <= CallLimit + 1 + handlerDepth
           /\ activations <= MaxActivations
<1> DEFINE n == Len(stack)
<1>1. Activations("loop") = Marked(stack, "loop", n)
  BY StackFacts DEF Activations, Marked, Has, Inv, Sound, WellStacked
<1>2. Cardinality(Activations("loop")) = Total(stack, "loop")
  BY <1>1 DEF Total, Count, n
<1>3. handlerDepth = Total(stack, "handler") /\ activations <= MaxActivations
  BY DEF Inv, Tally
<1>4. Total(stack, "loop") \in Nat /\ Total(stack, "handler") \in Nat
  BY TotalsNat DEF Inv
<1>5. CASE stack = << >>
  BY <1>2, <1>3, <1>4, <1>5, EmptyTotals, LimitsAssumption
<1>6. CASE stack # << >>
  BY <1>6, TopFits, <1>2, <1>3, <1>4, LimitsAssumption DEF Inv, Sound, FitsAt, Levels
<1> QED BY <1>5, <1>6

-----------------------------------------------------------------------------
(* The two lowest activations                                              *)

(* What the activation over the driver owes to the n frames that wait.     *)
Owes(a, n) ==
    /\ a.kind = "loop" /\ a.by = "resume" => a.depth >= n
    /\ a.kind = "loop" /\ a.by = "target" => a.depth >= n + BaseDepth - 1
    /\ a.kind = "handler" /\ a.cont # None => a.cont.depth >= n

BaseOwes(s, n) == Len(s) > 1 => Owes(s[2], n)

(* s2 keeps the driver at the bottom of s and what is right above it.      *)
BaseKept(s, s2) ==
    /\ s # << >> /\ s[1] = Driver => s2 # << >> /\ s2[1] = Driver
    /\ \A n \in Nat : BaseOwes(s, n) => BaseOwes(s2, n)

LEMMA KeptTwice ==
    ASSUME NEW s, NEW u, NEW v, BaseKept(s, u), BaseKept(u, v)
    PROVE  BaseKept(s, v)
BY DEF BaseKept

LEMMA KeptSame ==
    ASSUME NEW s
    PROVE  BaseKept(s, s)
BY DEF BaseKept

LEMMA KeptPush ==
    ASSUME NEW s, IsStack(s), s # << >>, NEW a, \A n \in Nat : Owes(a, n)
    PROVE  BaseKept(s, Append(s, a)) /\ IsStack(Append(s, a)) /\ Append(s, a) # << >>
<1> DEFINE u == Append(s, a)
           k == Len(s)
<1>1. k \in Nat \ {0}
  BY StackFacts
<1>2. Len(u) = k + 1 /\ u[k + 1] = a /\ (\A i \in 1 .. k : u[i] = s[i]) /\ IsStack(u)
  BY PushFacts
<1>3. \A n \in Nat : Owes(a, n)
  OBVIOUS
<1> HIDE DEF u
<1>4. u # << >>
  BY <1>1, <1>2, StackFacts
<1> HIDE DEF k
<1>5. u[1] = s[1] /\ (k = 1 => u[2] = a) /\ (k # 1 => u[2] = s[2] /\ k > 1)
  BY <1>1, <1>2
<1>6. ASSUME NEW n \in Nat, BaseOwes(s, n) PROVE BaseOwes(u, n)
  <2>1. CASE k = 1
    BY <1>3, <1>5, <2>1 DEF BaseOwes
  <2>2. CASE k # 1
    BY <1>5, <1>6, <2>2 DEF BaseOwes, k
  <2> QED BY <2>1, <2>2
<1> QED BY <1>2, <1>4, <1>5, <1>6 DEF BaseKept, u

LEMMA KeptPop ==
    ASSUME NEW s, IsStack(s), Len(s) > 1
    PROVE  BaseKept(s, Front(s)) /\ IsStack(Front(s)) /\ Front(s) # << >> /\ s # << >>
<1> DEFINE u == Front(s)
           k == Len(s)
<1>1. k \in Nat /\ s # << >> /\ k > 1
  BY StackFacts
<1>2. IsStack(u) /\ Len(u) = k - 1 /\ \A i \in 1 .. k - 1 : u[i] = s[i]
  BY <1>1, PopFacts
<1> HIDE DEF u
<1>3. u # << >>
  BY <1>1, <1>2, StackFacts
<1> HIDE DEF k
<1>4. u[1] = s[1] /\ (Len(u) > 1 => u[2] = s[2])
  BY <1>1, <1>2
<1>5. ASSUME NEW n \in Nat, BaseOwes(s, n) PROVE BaseOwes(u, n)
  BY <1>1, <1>4, <1>5 DEF BaseOwes, k
<1> QED BY <1>1, <1>2, <1>3, <1>4, <1>5 DEF BaseKept, u

LEMMA KeptReplace ==
    ASSUME NEW s, IsStack(s), s # << >>, NEW b, Last(s) # Driver,
           \A n \in Nat : Owes(Last(s), n) => Owes(b, n)
    PROVE  BaseKept(s, Append(Front(s), b)) /\ IsStack(Append(Front(s), b)) /\ Append(Front(s), b) # << >>
<1> DEFINE u == Append(Front(s), b)
           k == Len(s)
           z == Last(s)
<1>1. k \in Nat \ {0} /\ z = s[k]
  BY StackFacts
<1>2. /\ IsStack(u) /\ Len(u) = k /\ u[k] = b
      /\ \A i \in 1 .. k - 1 : u[i] = s[i]
  <2> DEFINE f == Front(s)
  <2>1. IsStack(f) /\ Len(f) = k - 1 /\ \A i \in 1 .. k - 1 : f[i] = s[i]
    BY PopFacts
  <2> HIDE DEF f
  <2>2. /\ IsStack(Append(f, b)) /\ Len(Append(f, b)) = Len(f) + 1
        /\ Append(f, b)[Len(f) + 1] = b
        /\ \A i \in 1 .. Len(f) : Append(f, b)[i] = f[i]
    BY <2>1, PushFacts, Zenon
  <2> HIDE DEF k
  <2>3. u = Append(f, b)
    BY DEF f
  <2> HIDE DEF u
  <2>4. k - 1 + 1 = k
    BY <1>1
  <2> QED BY <2>1, <2>2, <2>3, <2>4
<1>3. z # Driver /\ \A n \in Nat : Owes(z, n) => Owes(b, n)
  OBVIOUS
<1> HIDE DEF u, z
<1>4. u # << >>
  BY <1>1, <1>2, StackFacts
<1> HIDE DEF k
<1>5. (k = 1 => s[1] # Driver) /\ (k # 1 => u[1] = s[1])
  BY <1>1, <1>2, <1>3
<1>6. ASSUME NEW n \in Nat, BaseOwes(s, n) PROVE BaseOwes(u, n)
  <2>1. Len(s) = k
    BY DEF k
  <2>2. CASE k = 1
    BY <1>2, <2>2 DEF BaseOwes
  <2>3. CASE k = 2
    BY <1>1, <1>2, <1>6, <2>1, <2>3, <1>3 DEF BaseOwes
  <2>4. CASE k # 1 /\ k # 2
    BY <1>1, <1>2, <2>4, <1>6, <2>1 DEF BaseOwes
  <2> QED BY <2>2, <2>3, <2>4
<1> QED BY <1>2, <1>4, <1>5, <1>6 DEF BaseKept, u, k

(* A loop owes what it owed; what else goes on top owes nothing.           *)
LEMMA LoopKept ==
    ASSUME Inv, Running, Top.kind = "loop", NEW sc, NEW st, NEW e
    PROVE  /\ BaseKept(stack, WithTop(Revised(Top, sc, st, e)))
           /\ IsStack(WithTop(Revised(Top, sc, st, e))) /\ WithTop(Revised(Top, sc, st, e)) # << >>
<1> DEFINE s == stack
           a == Last(s)
           b == Revised(a, sc, st, e)
<1>1. IsStack(s) /\ s # << >>
  BY LoopOnTop
<1>2. a.kind = "loop" /\ Top = a
  BY DEF Top
<1>3. b.kind = "loop" /\ b.by = a.by /\ b.depth = a.depth
  BY RevisedFields
<1>4. WithTop(Revised(Top, sc, st, e)) = Append(Front(s), b)
  BY DEF WithTop, Below, Top
<1> HIDE DEF b
<1>5. BaseKept(s, Append(Front(s), b)) /\ IsStack(Append(Front(s), b)) /\ Append(Front(s), b) # << >>
  BY <1>1, KeptReplace, <1>2, <1>3 DEF Driver, Owes
<1> QED BY <1>4, <1>5

LEMMA PushedKept ==
    ASSUME NEW s, IsStack(s), s # << >>, NEW a,
           \/ a.kind \notin {"loop", "handler"}
           \/ a.kind = "loop" /\ a.by = "call"
           \/ a.kind = "handler" /\ a.cont = None
    PROVE  BaseKept(s, Append(s, a)) /\ IsStack(Append(s, a)) /\ Append(s, a) # << >>
  BY KeptPush DEF Owes

LEMMA GuestCallKept ==
    ASSUME NEW s, IsStack(s), s # << >>, NEW depth, NEW id, NEW catch, NEW marker, NEW s2, NEW r2,
           Called(s, s2, r2, id, catch, depth, marker)
    PROVE  BaseKept(s, s2)
<1>1. CASE depth + 1 > CallLimit
  BY <1>1, KeptSame DEF Called
<1>2. CASE ~(depth + 1 > CallLimit)
  <2> DEFINE a == NewLoop("call", id, catch, depth + 1, marker)
  <2>1. a.kind = "loop" /\ a.by = "call"
    BY DEF NewLoop
  <2>2. s2 = Append(s, a)
    BY <1>2 DEF Called
  <2> HIDE DEF a
  <2> QED BY <2>1, <2>2, PushedKept
<1> QED BY <1>1, <1>2

LEMMA RaiseKept ==
    ASSUME Inv, Raise
    PROVE  BaseKept(stack, stack')
<1>1. Running /\ Top.kind = "loop" /\ stack' = WithTop([Top EXCEPT !.status = "leave"])
  BY DEF Raise, Ready
<1>2. stack' = WithTop(Revised(Top, Top.scopes, "leave", Top.err))
  BY <1>1, TopAsIs, Zenon
<1> QED BY <1>1, <1>2, LoopKept

LEMMA GuestCallMoveKept ==
    ASSUME Inv, GuestCall
    PROVE  BaseKept(stack, stack')
<1>1. Running /\ Top.kind = "loop"
  BY DEF GuestCall, Moves, Ready
<1>2. \/ stack' = WithTop([Top EXCEPT !.status = "leave"])
      \/ stack' = WithTop([Top EXCEPT !.scopes = Append(Top.scopes, << >>)])
  BY DEF GuestCall
<1>3. CASE stack' = WithTop([Top EXCEPT !.status = "leave"])
  <2>1. stack' = WithTop(Revised(Top, Top.scopes, "leave", Top.err))
    BY <1>1, <1>3, TopAsIs, Zenon
  <2> QED BY <1>1, <2>1, LoopKept
<1>4. CASE stack' = WithTop([Top EXCEPT !.scopes = Append(Top.scopes, << >>)])
  <2> DEFINE sc == Append(Top.scopes, << >>)
  <2> HIDE DEF sc
  <2>1. stack' = WithTop([Top EXCEPT !.scopes = sc])
    BY <1>4 DEF sc
  <2>2. stack' = WithTop(Revised(Top, sc, Top.status, Top.err))
    BY <1>1, <2>1, TopAsIs, Zenon
  <2> QED BY <1>1, <2>2, LoopKept
<1> QED BY <1>2, <1>3, <1>4

LEMMA ReturnFrameKept ==
    ASSUME Inv, Running, Top.kind = "loop", Top.status \in {"run", "closing"}, Top.err = None,
           ReturnFrame(Top)
    PROVE  BaseKept(stack, stack')
  BY FrameReturns, LoopKept

LEMMA ReturnKept ==
    ASSUME Inv, Return
    PROVE  BaseKept(stack, stack')
  BY LoopOnTop, ReturnFrameKept DEF Return, Moves, Ready

LEMMA ReturnDynamicKept ==
    ASSUME Inv, ReturnDynamic
    PROVE  BaseKept(stack, stack')
<1>1. Running /\ Top.kind = "loop" /\ stack' = WithTop([Top EXCEPT !.status = "closing", !.err = None])
  BY DEF ReturnDynamic, Moves, Ready
<1>2. [Top EXCEPT !.status = "closing", !.err = None] = Revised(Top, Top.scopes, "closing", None)
  BY <1>1, TopAsIs, Zenon
<1>3. stack' = WithTop(Revised(Top, Top.scopes, "closing", None))
  BY <1>1, <1>2
<1> QED BY <1>1, <1>3, LoopKept

LEMMA OpenScopeKept ==
    ASSUME Inv, OpenScope
    PROVE  BaseKept(stack, stack')
<1> DEFINE v == Len(closed) + 1
           n == Len(Top.scopes)
           x == Append(Top.scopes[n], v)
           sc == [Top.scopes EXCEPT ![n] = x]
<1>1. /\ Running /\ Top.kind = "loop"
      /\ stack' = WithTop([Top EXCEPT !.scopes[Len(Top.scopes)] = Append(@, v)])
  BY DEF OpenScope, Moves, Ready
<1>2. IsLoop(Top)
  BY <1>1, LoopOnTop
<1>3. [Top EXCEPT !.scopes[Len(Top.scopes)] = Append(@, v)] = [Top EXCEPT !.scopes[n] = x]
  BY <1>2 DEF IsLoop
<1>4. [Top EXCEPT !.scopes[n] = x] = Revised(Top, sc, Top.status, Top.err)
  BY ONLY <1>2, ScopeUpdates
<1> HIDE DEF sc, x, v
<1> QED BY <1>1, LoopKept, <1>3, <1>4

(* The loop on top calls guest code back from a native function.           *)
LEMMA CalledBackKept ==
    ASSUME Inv, Running, Top.kind = "loop", NEW sc, NEW st, NEW e,
           NEW a, a.kind = "native" \/ a.kind = "fallback",
           NEW id, NEW catch, NEW depth, NEW marker,
           CallGuest(WithTop(Revised(Top, sc, st, e)) \o <<a>>, id, catch, depth, marker)
    PROVE  BaseKept(stack, stack')
<1> DEFINE u == WithTop(Revised(Top, sc, st, e))
           v == Append(u, a)
<1>1. BaseKept(stack, u) /\ IsStack(u) /\ u # << >>
  BY LoopKept
<1>2. u \o <<a>> = v
  BY <1>1, PushFacts
<1>3. Called(v, stack', res', id, catch, depth, marker)
  BY <1>2 DEF CallGuest, Called
<1> HIDE DEF u
<1>4. BaseKept(u, v) /\ IsStack(v) /\ v # << >>
  BY <1>1, PushedKept
<1> HIDE DEF v
<1>5. BaseKept(v, stack')
  BY <1>3, <1>4, GuestCallKept
<1>6. BaseKept(stack, v)
  BY <1>1, <1>4, KeptTwice
<1> QED BY <1>5, <1>6, KeptTwice

LEMMA CallbackKept ==
    ASSUME Inv, Callback
    PROVE  BaseKept(stack, stack')
<1> DEFINE a == Native(Top.catch)
<1>1. /\ Running /\ Top.kind = "loop"
      /\ CallGuest(WithTop([Top EXCEPT !.status = "busy"]) \o <<a>>, Fresh, Top.catch, Depth(Top), Len(closing))
  BY DEF Callback, Moves, Ready
<1>2. a.kind = "native"
  BY DEF Native
<1>3. [Top EXCEPT !.status = "busy"] = Revised(Top, Top.scopes, "busy", Top.err)
  BY <1>1, TopAsIs, Zenon
<1> HIDE DEF a
<1> QED BY <1>1, <1>2, CalledBackKept, <1>3

LEMMA CloseScopeKept ==
    ASSUME Inv, CloseScope
    PROVE  BaseKept(stack, stack')
<1> DEFINE a == Native(Top.catch)
           n == Len(Top.scopes)
           x == Front(Top.scopes[n])
           sc == [Top.scopes EXCEPT ![n] = x]
           rest == TakeCloseValue(Last(Last(Top.scopes)))
<1>1. /\ Running /\ Top.kind = "loop"
      /\ CallGuest(WithTop([Top EXCEPT !.scopes[Len(Top.scopes)] = Front(@), !.status = "busy"]) \o <<a>>,
                   Fresh, Top.catch, Depth(Top), Len(rest))
  BY Zenon DEF CloseScope, Moves, Ready
<1>2. IsLoop(Top)
  BY <1>1, LoopOnTop
<1>3. [Top EXCEPT !.scopes[Len(Top.scopes)] = Front(@), !.status = "busy"] = [Top EXCEPT !.scopes[n] = x, !.status = "busy"]
  BY <1>2 DEF IsLoop
<1>4. [Top EXCEPT !.scopes[n] = x, !.status = "busy"] = Revised(Top, sc, "busy", Top.err)
  <2>1. [Top EXCEPT !.scopes[n] = x, !.status = "busy"] = [[Top EXCEPT !.scopes[n] = x] EXCEPT !.status = "busy"]
    OBVIOUS
  <2>2. [Top EXCEPT !.scopes[n] = x] = Revised(Top, sc, Top.status, Top.err)
    BY ONLY <1>2, ScopeUpdates
  <2>3. [Revised(Top, sc, Top.status, Top.err) EXCEPT !.status = "busy"] = Revised(Top, sc, "busy", Top.err)
    BY DEF Revised
  <2> QED BY ONLY <2>1, <2>2, <2>3
<1>5. a.kind = "native"
  BY DEF Native
<1> HIDE DEF sc, x, a, rest
<1> QED BY <1>1, <1>5, CalledBackKept, <1>3, <1>4

LEMMA FallbackKept ==
    ASSUME Inv, Running, Top.kind = "loop", NEW target \in {"guest", "returns", "raises", "callsBack"},
           NEW handler, NEW restore, NEW call, Fallback(target, handler, restore, call)
    PROVE  BaseKept(stack, stack') /\ captured' \in {None, captured} /\ request' = request
<1> DEFINE entered == activations < MaxActivations
           b == FallbackRecord(target, handler, restore, call, entered)
           u == WithTop(Revised(Top, Top.scopes, "busy", Top.err))
           v == Append(u, b)
           d == Depth(Top)
<1>1. [Top EXCEPT !.status = "busy"] = Revised(Top, Top.scopes, "busy", Top.err)
  BY TopAsIs, Zenon
<1>2. BaseKept(stack, u) /\ IsStack(u) /\ u # << >>
  BY LoopKept
<1>3. u \o <<b>> = v
  BY <1>2, PushFacts
<1>4. WithTop([Top EXCEPT !.status = "busy"])
        \o <<FallbackRecord(target, handler, restore, call, activations < MaxActivations)>> = v
  BY <1>1, <1>3
<1>5. b.kind = "fallback"
  BY DEF FallbackRecord
<1> HIDE DEF u, b
<1>6. BaseKept(u, v) /\ IsStack(v) /\ v # << >>
  BY <1>2, <1>5, PushedKept
<1>7. BaseKept(stack, v)
  BY <1>2, <1>6, KeptTwice
<1> HIDE DEF v, d
<1>8. captured' \in {None, captured} /\ request' = request
  BY DEF Fallback
<1>9. CASE stack' = v
  BY <1>7, <1>8, <1>9
<1>10. CASE CallGuest(v, call + 1, call, Depth(Top), Len(closing))
  BY <1>10, <1>6, GuestCallKept, <1>7, <1>8, KeptTwice DEF CallGuest, Called
<1>11. CASE CallGuest(Append(v, Native(call)), call + 1, call, Depth(Top), Len(closing))
  <2> DEFINE a == Native(call)
             w == Append(v, a)
  <2>1. Called(w, stack', res', call + 1, call, Depth(Top), Len(closing))
    BY <1>11 DEF CallGuest, Called
  <2>2. a.kind = "native"
    BY DEF Native
  <2> HIDE DEF a
  <2>3. BaseKept(v, w) /\ IsStack(w) /\ w # << >>
    BY <1>6, <2>2, PushedKept
  <2> HIDE DEF w
  <2>4. BaseKept(w, stack')
    BY <2>1, <2>3, GuestCallKept
  <2>5. BaseKept(v, stack')
    BY <2>3, <2>4, KeptTwice
  <2> QED BY <1>7, <1>8, <2>5, KeptTwice
<1> QED BY <1>9, <1>10, <1>11, <1>4 DEF Fallback

LEMMA RefuseKept ==
    ASSUME Inv, Running, Top.kind = "loop", NEW handler, NEW call, RefuseRequest(handler, call)
    PROVE  BaseKept(stack, stack')
<1> DEFINE b == FallbackRecord("guest", handler, FALSE, call, FALSE)
           u == WithTop(Revised(Top, Top.scopes, "busy", Top.err))
           v == Append(u, b)
<1>1. [Top EXCEPT !.status = "busy"] = Revised(Top, Top.scopes, "busy", Top.err)
  BY TopAsIs, Zenon
<1>2. BaseKept(stack, u) /\ IsStack(u) /\ u # << >>
  BY LoopKept
<1>3. u \o <<b>> = v
  BY <1>2, PushFacts
<1>4. stack' = v
  BY <1>1, <1>3 DEF RefuseRequest
<1>5. b.kind = "fallback"
  BY DEF FallbackRecord
<1> HIDE DEF u, b
<1>6. BaseKept(u, v)
  BY <1>2, <1>5, PushedKept
<1> QED BY <1>2, <1>4, <1>6, KeptTwice

(* Results.                                                                *)
LEMMA PopKept ==
    ASSUME Inv, Len(stack) > 1
    PROVE  BaseKept(stack, Below) /\ IsStack(Below) /\ Below # << >>
<1> DEFINE s == stack
<1>1. IsStack(s) /\ Len(s) > 1
  BY DEF Inv, Sound, WellStacked
<1> HIDE DEF s
<1> QED BY <1>1, KeptPop DEF s, Below

(* A message handler without a continuation starts.                        *)
LEMMA HandlerKept ==
    ASSUME NEW s, IsStack(s), s # << >>, NEW a, a.kind = "handler" /\ a.cont = None,
           NEW id, NEW catch, NEW depth, NEW marker, NEW s2,
           Handled(s, s2, a, id, catch, depth, marker)
    PROVE  BaseKept(s, s2)
<1> DEFINE b == NewLoop("call", id, catch, 1 + Min({depth, CallLimit - 1}), marker)
           u == Append(s, a)
<1>1. s2 = Append(u, b)
  BY PushTwice DEF Handled
<1>2. b.kind = "loop" /\ b.by = "call"
  BY DEF NewLoop
<1> HIDE DEF b
<1>3. BaseKept(s, u) /\ IsStack(u) /\ u # << >>
  BY PushedKept
<1> HIDE DEF u
<1>4. BaseKept(u, s2)
  BY <1>1, <1>2, <1>3, PushedKept
<1> QED BY <1>3, <1>4, KeptTwice

LEMMA LoopReceivesKept ==
    ASSUME Inv, LoopReceives
    PROVE  BaseKept(stack, stack')
<1>1. /\ Running /\ Top.kind = "loop"
      /\ \/ stack' = WithTop([Top EXCEPT !.status = "run"])
         \/ stack' = WithTop([Top EXCEPT !.status = "leave"])
  BY DEF LoopReceives, Returning
<1>2. CASE stack' = WithTop([Top EXCEPT !.status = "run"])
  <2>1. stack' = WithTop(Revised(Top, Top.scopes, "run", Top.err))
    BY <1>1, <1>2, TopAsIs, Zenon
  <2> QED BY <1>1, <2>1, LoopKept
<1>3. CASE stack' = WithTop([Top EXCEPT !.status = "leave"])
  <2>1. stack' = WithTop(Revised(Top, Top.scopes, "leave", Top.err))
    BY <1>1, <1>3, TopAsIs, Zenon
  <2> QED BY <1>1, <2>1, LoopKept
<1> QED BY <1>1, <1>2, <1>3

LEMMA LoopLeavesKept ==
    ASSUME Inv, LoopLeaves
    PROVE  BaseKept(stack, stack')
<1>1. /\ Running /\ Top.kind = "loop" /\ Top.by # "main"
      /\ \/ stack' = WithTop([Top EXCEPT !.status = "unwind", !.err = res])
         \/ stack' = Below
  BY Zenon DEF LoopLeaves, Returning
<1>2. CASE stack' = WithTop([Top EXCEPT !.status = "unwind", !.err = res])
  <2>1. [Top EXCEPT !.status = "unwind", !.err = res] = Revised(Top, Top.scopes, "unwind", res)
    BY <1>1, TopAsIs, Zenon
  <2>2. stack' = WithTop(Revised(Top, Top.scopes, "unwind", res))
    BY <1>2, <2>1
  <2> QED BY <1>1, <2>2, LoopKept
<1>3. CASE stack' = Below
  <2> DEFINE s == stack
  <2>1. s # << >> /\ WellStacked(s) /\ Last(s).kind = "loop" /\ Last(s).by # "main"
    BY <1>1, LoopOnTop DEF Top
  <2> HIDE DEF s
  <2>2. Len(s) \in Nat \ {0}
    BY <2>1, TopFits
  <2>3. Len(s) # 1
    BY <2>1, TopShapes
  <2>4. Len(s) > 1
    BY <2>2, <2>3
  <2> QED BY <1>3, <2>4, PopKept DEF s
<1> QED BY <1>1, <1>2, <1>3

LEMMA NativeReturnsKept ==
    ASSUME Inv, NativeReturns
    PROVE  BaseKept(stack, stack')
  BY TopShapes, PopKept DEF NativeReturns, Returning, Inv, Sound, Top

LEMMA FallbackReturnsKept ==
    ASSUME Inv, FallbackReturns
    PROVE  BaseKept(stack, stack') /\ captured' \in {None, captured} /\ request' = request
<1> DEFINE a == HandlerRecord(Top.call, Top.caller, None, Top.native, Top.depth)
           s == Below
           d == Top.depth
           id == Fresh
           catch == a.call
           m == Len(closing)
<1>1. /\ Running /\ Top.kind = "fallback" /\ UNCHANGED request
      /\ captured' \in {None, captured}
      /\ stack' = Below \/ StartHandler(Below, a, Top.depth)
  BY Zenon DEF FallbackReturns, Returning
<1>2. stack # << >> /\ WellStacked(stack)
  BY <1>1 DEF Inv, Sound
<1>3. Len(stack) > 1
  BY <1>1, <1>2, TopShapes DEF Top
<1>4. BaseKept(stack, s) /\ IsStack(s) /\ s # << >>
  BY <1>3, PopKept
<1>5. CASE stack' = Below
  BY <1>1, <1>4, <1>5
<1>6. CASE StartHandler(Below, a, Top.depth)
  <2>1. a.kind = "handler" /\ a.cont = None
    BY DEF HandlerRecord
  <2>2. Handled(s, stack', a, id, catch, d, m)
    BY <1>6 DEF StartHandler, Handled
  <2> HIDE DEF a, s, d, id, catch, m
  <2>3. BaseKept(s, stack')
    BY <1>4, <2>1, <2>2, HandlerKept
  <2> QED BY <1>1, <1>4, <2>3, KeptTwice
<1> QED BY <1>1, <1>5, <1>6

LEMMA HandlerReturnsKept ==
    ASSUME Inv, HandlerReturns
    PROVE  BaseKept(stack, stack')
<1> DEFINE t == Top
           a == CountError(Top)
           s == stack
<1>1. /\ Running /\ t.kind = "handler"
      /\ \/ StartHandler(Below, a, t.depth)
         \/ stack' = Below
         \/ t.cont # None /\ Resume(t.cont)
  BY Zenon DEF HandlerReturns, Returning
<1>2. s # << >> /\ WellStacked(s) /\ IsStack(s)
  BY <1>1 DEF Inv, Sound, WellStacked
<1>3. t = Last(s) /\ Len(s) > 1 /\ IsHandler(t) /\ (t.cont # None => Len(s) = 2 /\ s[1] = Driver)
  BY <1>1, <1>2, TopShapes DEF Top
<1>4. CASE stack' = Below
  BY <1>3, <1>4, PopKept
<1>5. CASE StartHandler(Below, a, t.depth)
  <2> DEFINE b == NewLoop("call", Fresh, a.call, 1 + Min({t.depth, CallLimit - 1}), Len(closing))
             w == Append(Front(s), a)
  <2>1. stack' = Front(s) \o <<a, b>>
    BY <1>5 DEF StartHandler, Below
  <2>2. b.kind = "loop" /\ b.by = "call"
    BY DEF NewLoop
  <2>3. a = [t EXCEPT !.errors = t.errors + 1]
    BY DEF CountError
  <2> HIDE DEF a, b, t, s
  <2>4. a.kind = t.kind /\ a.cont = t.cont
    BY <1>3, <2>3 DEF IsHandler
  <2>5. BaseKept(s, w) /\ IsStack(w) /\ w # << >>
    BY <1>2, <1>3, KeptReplace, <1>1, <2>4 DEF Owes, Driver
  <2>6. stack' = Append(w, b)
    BY <1>2, PopFacts, <2>1, PushTwice
  <2> HIDE DEF w
  <2>7. BaseKept(w, stack')
    BY <2>2, <2>5, <2>6, PushedKept
  <2>8. BaseKept(s, stack')
    BY <2>5, <2>7, KeptTwice
  <2> QED BY <2>8 DEF s
<1>6. CASE t.cont # None /\ Resume(t.cont)
  <2> DEFINE c == t.cont
             b == [c EXCEPT !.by = "resume"]
             s2 == <<Driver, b>>
  <2>1. stack' = s2 /\ Len(s2) = 2 /\ s2[1] = Driver /\ s2[2] = b
    BY <1>6 DEF Resume
  <2>2. IsLoop(c)
    BY <1>3, <1>6 DEF IsHandler, IsCont
  <2>3. s[2] = t /\ Len(s) = 2
    BY <1>2, <1>3, <1>6, StackFacts
  <2>4. s2 # << >>
    OBVIOUS
  <2> HIDE DEF c
  <2>5. b.kind = "loop" /\ b.by = "resume" /\ b.depth = c.depth
    BY <2>2 DEF IsLoop
  <2> HIDE DEF b, s2, s, t
  <2>6. \A n \in Nat : Owes(t, n) => Owes(b, n)
    BY <1>1, <1>6, <2>5 DEF Owes, c
  <2>7. BaseKept(s, s2)
    BY <2>1, <2>4, <2>3, <2>6 DEF BaseKept, BaseOwes
  <2> QED BY <2>1, <2>7 DEF s
<1> QED BY <1>1, <1>4, <1>5, <1>6

LEMMA CloseNextKept ==
    ASSUME Inv, CloseNext
    PROVE  BaseKept(stack, stack')
<1> DEFINE depth == IF Top.by = "target" /\ Top.status = "unwind" THEN Top.depth - BaseDepth + 1 ELSE Top.depth
           id == Fresh
           m == Len(closing) - 1
           s == stack
<1>1. Running /\ Top.kind = "loop" /\ CallGuest(s, id, Top.catch, depth, m)
  BY Zenon DEF CloseNext
<1>2. s # << >> /\ IsStack(s)
  BY <1>1, LoopOnTop
<1> HIDE DEF depth, id, m
<1>3. Called(s, stack', res', id, Top.catch, depth, m)
  BY <1>1 DEF CallGuest, Called
<1> QED BY <1>2, <1>3, GuestCallKept

LEMMA CloseHandledKept ==
    ASSUME Inv, CloseHandled
    PROVE  BaseKept(stack, stack')
<1>1. /\ Running /\ Top.kind = "loop"
      /\ stack' = WithTop(IF res.kind = "ok" THEN Top ELSE [Top EXCEPT !.err = res])
  BY DEF CloseHandled, Returning
<1>2. IsLoop(Top)
  BY <1>1, LoopOnTop
<1>3. Top = Revised(Top, Top.scopes, Top.status, Top.err)
  BY <1>2 DEF IsLoop, Revised
<1>4. [Top EXCEPT !.err = res] = Revised(Top, Top.scopes, Top.status, res)
  BY <1>1, TopAsIs, Zenon
<1>5. PICK e \in {Top.err, res} : stack' = WithTop(Revised(Top, Top.scopes, Top.status, e))
  BY <1>1, <1>3, <1>4
<1> QED BY <1>1, <1>5, LoopKept

LEMMA CloseDoneKept ==
    ASSUME Inv, CloseDone
    PROVE  BaseKept(stack, stack')
<1>1. Running /\ Top.kind = "loop" /\ Top.status \in {"unwind", "closing"}
  BY DEF CloseDone
<1>2. stack # << >> /\ WellStacked(stack) /\ Len(stack) \in Nat \ {0}
  BY <1>1, LoopOnTop, TopFits
<1>3. CASE Top.status = "unwind" /\ Len(stack) = 1
  BY <1>3, <1>1, <1>2, TopFits, EmptyStack DEF CloseDone, Top, Driver, BaseKept, BaseOwes
<1>4. CASE Top.status = "unwind" /\ Len(stack) # 1
  <2>1. stack' = Below
    BY <1>4 DEF CloseDone
  <2>2. Len(stack) > 1
    BY <1>2, <1>4
  <2> QED BY <2>1, <2>2, PopKept
<1>5. CASE Top.status = "closing" /\ Top.err = None
  BY <1>5, <1>1, ReturnFrameKept DEF CloseDone
<1>6. CASE Top.status = "closing" /\ Top.err # None
  <2>1. stack' = WithTop([Top EXCEPT !.status = "leave"])
    BY <1>6 DEF CloseDone
  <2>2. stack' = WithTop(Revised(Top, Top.scopes, "leave", Top.err))
    BY <1>1, <2>1, TopAsIs, Zenon
  <2> QED BY <1>1, <2>2, LoopKept
<1> QED BY <1>1, <1>3, <1>4, <1>5, <1>6

-----------------------------------------------------------------------------
(* What is charged                                                         *)

(* An activation that its loop cannot hand to the driver.                  *)
Leaving == res = Activation /\ Top.kind = "loop" /\ Top.by = "call" /\ Top.status = "busy"

(* The frame i waits for a target that was refused.                        *)
Refused(i) == i = Len(frames) /\ Len(stack) = 1 /\ res.kind = "error"

FrameCharged(i) ==
    /\ frames[i].req.depth >= i - 1 /\ frames[i].cont.depth >= i - 1
    /\ frames[i].req.depth + BaseDepth < CallLimit \/ Refused(i)

(* Each frame of the driver was charged at least a level more than the one *)
(* before it, and what runs on the driver knows it.                        *)
Charged ==
    /\ frames # << >> => stack # << >> /\ stack[1] = Driver
    /\ ~astray =>
         /\ \A i \in 1 .. Len(frames) : FrameCharged(i)
         /\ request # None => request.depth >= Len(frames) \/ Leaving
         /\ captured # None => captured.depth >= Len(frames)
         /\ BaseOwes(stack, Len(frames))

(* A step that leaves the driver alone.                                    *)
Ordinary ==
    /\ Running /\ Top.kind # "driver"
    /\ frames' = frames /\ (astray => astray')
    /\ BaseKept(stack, stack')
    /\ \/ captured' \in {None, captured} \/ astray' \/ captured'.depth >= Len(frames)
    /\ \/ request' = request /\ ~Leaving
       \/ Leaving' \/ astray' \/ request'.depth >= Len(frames)

LEMMA FramesCount ==
    ASSUME Inv
    PROVE  IsStack(frames) /\ Len(frames) \in Nat /\ (frames = << >> <=> Len(frames) = 0)
BY StackFacts DEF Inv, Waiting

LEMMA OrdinaryStep ==
    ASSUME Inv, Charged, Ordinary
    PROVE  Charged'
<1> DEFINE n == Len(frames)
<1>1. /\ Running /\ Top.kind # "driver" /\ frames' = frames /\ (astray => astray')
      /\ BaseKept(stack, stack') /\ n \in Nat
  BY FramesCount DEF Ordinary
<1>2. frames' # << >> => stack' # << >> /\ stack'[1] = Driver
  BY <1>1 DEF Charged, BaseKept
<1>3. ASSUME ~astray', NEW i \in 1 .. n PROVE FrameCharged(i)'
  <2>1. ~astray /\ frames # << >>
    BY <1>1, <1>3, FramesCount
  <2>2. FrameCharged(i)
    BY <1>3, <2>1 DEF Charged
  <2>3. ~Refused(i)
    BY <2>1, StackFacts, <1>1 DEF Inv, Sound, Charged, Top, WellStacked, Driver, Refused
  <2>4. frames'[i] = frames[i]
    BY <1>1
  <2> QED BY <2>2, <2>3, <2>4 DEF FrameCharged
<1>4. ASSUME ~astray', request' # None PROVE request'.depth >= n \/ Leaving'
  <2>1. CASE request' = request /\ ~Leaving
    BY <1>1, <1>4, <2>1 DEF Charged
  <2>2. CASE ~(request' = request /\ ~Leaving)
    BY <1>4, <2>2 DEF Ordinary
  <2> QED BY <2>1, <2>2
<1>5. ASSUME ~astray', captured' # None PROVE captured'.depth >= n
  <2>1. CASE captured' = captured
    BY <1>1, <1>5, <2>1 DEF Charged
  <2>2. CASE captured' # captured
    BY <1>5, <2>2 DEF Ordinary
  <2> QED BY <2>1, <2>2
<1>6. ASSUME ~astray' PROVE BaseOwes(stack', n)
  BY <1>1, <1>6 DEF Charged, BaseKept
<1>7. Len(frames') = n
  BY <1>1
<1> HIDE DEF n
<1> QED BY <1>2, <1>3, <1>4, <1>5, <1>6, <1>7 DEF Charged, BaseOwes, Owes

(* Guest code moves, and results travel, over the driver.                  *)
LEMMA PlainStep ==
    ASSUME Inv, Charged, Running, Top.kind # "driver", ~Leaving,
           frames' = frames, request' = request, captured' \in {None, captured}, astray => astray',
           BaseKept(stack, stack')
    PROVE  Charged'
BY OrdinaryStep DEF Ordinary

LEMMA RaiseCharged ==
    ASSUME Inv, Charged, Raise
    PROVE  Charged'
  BY RaiseKept, PlainStep DEF Raise, Ready, Events, Ghosts, Leaving

LEMMA GuestCallCharged ==
    ASSUME Inv, Charged, GuestCall
    PROVE  Charged'
  BY GuestCallMoveKept, PlainStep DEF GuestCall, Moves, Ready, Events, Ghosts, Leaving

LEMMA ReturnCharged ==
    ASSUME Inv, Charged, Return
    PROVE  Charged'
  BY ReturnKept, PlainStep DEF Return, Moves, Ready, Events, Ghosts, Leaving

LEMMA ReturnDynamicCharged ==
    ASSUME Inv, Charged, ReturnDynamic
    PROVE  Charged'
  BY ReturnDynamicKept, PlainStep DEF ReturnDynamic, Moves, Ready, Events, Ghosts, Leaving

LEMMA OpenScopeCharged ==
    ASSUME Inv, Charged, OpenScope
    PROVE  Charged'
  BY OpenScopeKept, PlainStep DEF OpenScope, Moves, Ready, Events, Leaving

LEMMA CallbackCharged ==
    ASSUME Inv, Charged, Callback
    PROVE  Charged'
  BY CallbackKept, PlainStep DEF Callback, Moves, Ready, Ghosts, Leaving

LEMMA CloseScopeCharged ==
    ASSUME Inv, Charged, CloseScope
    PROVE  Charged'
<1>1. /\ Running /\ Top.kind # "driver" /\ ~Leaving
      /\ frames' = frames /\ request' = request /\ captured' = None /\ astray' = astray
  BY Zenon DEF CloseScope, Moves, Ready, Leaving
<1> QED BY <1>1, CloseScopeKept, PlainStep

LEMMA TopDepth ==
    ASSUME Inv, Charged, Running, ~astray, Top.kind = "loop"
    PROVE  /\ Top.by = "main" => Len(frames) = 0
           /\ Top.by = "resume" => Top.depth >= Len(frames)
           /\ Top.by = "target" => Top.depth >= Len(frames) + BaseDepth - 1
           /\ Top.by # "call" => Top.depth >= Len(frames)
<1> DEFINE s == stack
           a == Last(s)
           n == Len(frames)
<1>1. s # << >> /\ WellStacked(s) /\ a.kind = "loop" /\ Top = a /\ a.depth \in Nat
  BY LoopOnTop DEF Top
<1>2. n \in Nat /\ (frames # << >> => s[1] = Driver) /\ BaseOwes(s, n) /\ (frames = << >> <=> n = 0)
  BY FramesCount DEF Charged
<1>3. /\ a.by = "main" <=> Len(s) = 1
      /\ a.by \in {"target", "resume"} => Len(s) = 2 /\ s[1] = Driver
      /\ IsLoop(a) /\ a = s[Len(s)]
  BY <1>1, TopShapes, TopFits
<1> HIDE DEF s, a
<1>4. a.by = "main" => n = 0
  <2> SUFFICES ASSUME a.by = "main" PROVE n = 0
    OBVIOUS
  <2> DEFINE k == Len(s)
  <2>1. k = 1 /\ a = s[k]
    BY <1>3
  <2>2. s[1] # Driver
    BY <1>1, <2>1 DEF Driver
  <2> HIDE DEF n
  <2> QED BY <1>2, <2>2
<1> HIDE DEF n
<1>5. ASSUME a.by \in {"target", "resume"} PROVE Owes(a, n)
  <2> DEFINE k == Len(s)
  <2> QED BY <1>3, <1>5, <1>2 DEF BaseOwes
<1>6. /\ a.by = "resume" => a.depth >= n
      /\ a.by = "target" => a.depth >= n + BaseDepth - 1
  BY <1>1, <1>5 DEF Owes
<1>7. a.by # "call" => a.depth >= n
  BY <1>3, <1>1, <1>4, <1>2, <1>6, LimitsAssumption DEF IsLoop
<1> QED BY <1>1, <1>4, <1>6, <1>7 DEF n

LEMMA ActivateCharged ==
    ASSUME Inv, Charged, Running, Top.kind = "loop", Top.status = "run", res = None,
           NEW handler, NEW call, Activate(handler, call), frames' = frames, astray' = astray
    PROVE  Charged'
<1> DEFINE u == WithTop(Revised(Top, Top.scopes, "busy", Top.err))
           charged == Depth(Top) - (IF targetDepth > 0 THEN BaseDepth - 1 ELSE 0)
           depth == IF charged < 0 THEN 0 ELSE charged
           n == Len(frames)
<1>1. [Top EXCEPT !.status = "busy"] = Revised(Top, Top.scopes, "busy", Top.err)
  BY TopAsIs, Zenon
<1>2. /\ stack' = u /\ res' = Activation /\ captured' = captured
      /\ request' = [kind |-> "request", call |-> call, caller |-> Top.id, handler |-> handler, depth |-> depth]
  BY <1>1 DEF Activate
<1>3. BaseKept(stack, stack')
  BY <1>2, LoopKept
<1>4. /\ Top.depth \in Nat /\ Depth(Top) \in Nat /\ Depth(Top) >= Top.depth /\ n \in Nat
      /\ stack # << >> /\ WellStacked(stack)
  <2> DEFINE d == Top.depth
             l == Len(Top.scopes)
  <2>1. d \in Nat /\ l \in Nat \ {0} /\ n \in Nat /\ stack # << >> /\ WellStacked(stack)
    BY LoopOnTop, FramesCount
  <2>2. Depth(Top) = d + l - 1
    BY DEF Depth
  <2> HIDE DEF d, l
  <2>3. Depth(Top) \in Nat /\ Depth(Top) >= d
    BY <2>1, <2>2
  <2> QED BY <2>1, <2>3 DEF d
<1>5. CASE Top.by = "call"
  <2> DEFINE b == Revised(Top, Top.scopes, "busy", Top.err)
  <2>1. Top' = Last(u)
    BY <1>2 DEF Top
  <2>2. Last(u) = b
    <3> DEFINE f == Front(stack)
    <3> HIDE DEF b
    <3>1. IsStack(f)
      BY <1>4, PopFacts DEF WellStacked
    <3>2. Last(Append(f, b)) = b
      <4> HIDE DEF f
      <4>1. /\ IsStack(Append(f, b)) /\ Len(Append(f, b)) = Len(f) + 1
            /\ Append(f, b)[Len(f) + 1] = b
        BY <3>1, PushFacts
      <4> QED BY <4>1, StackFacts
    <3>3. u = Append(f, b)
      BY DEF WithTop, Below, b
    <3> QED BY <3>2, <3>3
  <2>3. Leaving'
    BY <1>2, <1>5, <2>1, <2>2, RevisedFields DEF Leaving
  <2> QED BY <1>2, <1>3, <2>3, OrdinaryStep DEF Ordinary
<1>6. CASE Top.by # "call" /\ ~astray
  <2>1. depth >= n
    <3> DEFINE d == Depth(Top)
    <3>1. d \in Nat /\ d >= Top.depth
      BY <1>4
    <3>2. CASE Top.by = "target"
      <4>1. Top.depth >= n + BaseDepth - 1
        BY <1>6, <3>2, TopDepth
      <4> HIDE DEF d, n
      <4>2. d - (BaseDepth - 1) >= n
        BY <1>4, <3>1, <4>1, LimitsAssumption DEF n
      <4>3. d >= n
        BY <1>4, <3>1, <4>1, LimitsAssumption DEF n
      <4> DEFINE c == d - (IF targetDepth > 0 THEN BaseDepth - 1 ELSE 0)
      <4> HIDE DEF c
      <4>4. n \in Nat /\ c >= n /\ c \in Int
        BY <1>4, <3>1, LimitsAssumption, <4>2, <4>3 DEF n, c
      <4>5. (IF c < 0 THEN 0 ELSE c) >= n
        BY <4>4
      <4> QED BY <4>5 DEF c, d
    <3>3. CASE Top.by # "target"
      <4>1. targetDepth = 0
        <5>1. ~Has(Top, "guest") /\ ~Has(Top, "target") /\ Top = stack[Len(stack)]
          BY <1>4, <3>3, TopFits DEF Has, Top
        <5>2. Total(stack, "guest") = 0 /\ Total(stack, "target") = 0
          BY <5>1, FewTotals, <1>4, <1>6, <3>3, TopShapes DEF One, Top, IsLoop
        <5> QED BY <5>2 DEF Inv, Tally
      <4>2. Top.depth >= n
        BY <1>6, TopDepth
      <4> HIDE DEF d, n
      <4>3. d >= n /\ d \in Nat
        BY <1>4, <3>1, <4>2 DEF n
      <4> QED BY <4>1, <4>3 DEF d
    <3> QED BY <3>2, <3>3
  <2> HIDE DEF depth, u
  <2>2. request'.depth >= n
    BY <1>2, <2>1
  <2> QED BY <1>2, <1>3, <2>2, OrdinaryStep DEF Ordinary
<1>7. CASE astray
  BY <1>2, <1>3, <1>7, OrdinaryStep DEF Ordinary
<1> QED BY <1>5, <1>6, <1>7

LEMMA ProtectedCallCharged ==
    ASSUME Inv, Charged, ProtectedCall
    PROVE  Charged'
<1>1. PICK target \in {"guest", "returns", "raises", "callsBack"}, handler \in BOOLEAN :
        CallProtectedTarget(target, handler)
  BY DEF ProtectedCall
<1> DEFINE call == Fresh
<1>2. /\ Running /\ Top.kind = "loop" /\ Top.status = "run" /\ res = None
      /\ frames' = frames /\ astray' = astray /\ Top.kind # "driver" /\ ~Leaving
  BY <1>1 DEF CallProtectedTarget, Moves, Ready, Ghosts, Leaving
<1>3. \/ Fallback(target, handler, TRUE, call)
      \/ Fallback(target, handler, FALSE, call)
      \/ RefuseRequest(handler, call)
      \/ Activate(handler, call)
  BY <1>1 DEF CallProtectedTarget
<1> HIDE DEF call
<1>4. CASE Fallback(target, handler, TRUE, call)
  BY <1>2, <1>4, FallbackKept, PlainStep
<1>5. CASE Fallback(target, handler, FALSE, call)
  BY <1>2, <1>5, FallbackKept, PlainStep
<1>6. CASE RefuseRequest(handler, call)
  BY <1>6, <1>2, RefuseKept, PlainStep DEF RefuseRequest
<1>7. CASE Activate(handler, call)
  BY <1>2, <1>7, ActivateCharged
<1> QED BY <1>3, <1>4, <1>5, <1>6, <1>7

LEMMA LoopReceivesCharged ==
    ASSUME Inv, Charged, LoopReceives
    PROVE  Charged'
<1>1. /\ Running /\ Top.kind = "loop" /\ frames' = frames /\ request' = request
      /\ captured' = IF res = Activation THEN [Top EXCEPT !.status = "run"] ELSE captured
      /\ astray' = (astray \/ (res = Activation /\ Top.by = "call"))
  BY DEF LoopReceives, Returning
<1>2. BaseKept(stack, stack') /\ Top.kind # "driver"
  BY <1>1, LoopReceivesKept
<1>3. CASE astray'
  BY <1>1, <1>2, <1>3, OrdinaryStep DEF Ordinary
<1>4. CASE ~astray'
  <2>1. ~astray /\ ~Leaving
    BY <1>1, <1>4 DEF Leaving
  <2>2. captured' = captured \/ captured'.depth >= Len(frames)
    <3>1. CASE res = Activation
      <4>1. Top.depth >= Len(frames)
        BY <1>1, <1>4, <2>1, <3>1, TopDepth
      <4>2. captured' = Revised(Top, Top.scopes, "run", Top.err)
        BY <1>1, <3>1, TopAsIs, Zenon
      <4>3. captured'.depth = Top.depth
        BY <4>2, RevisedFields
      <4> QED BY <4>1, <4>3
    <3>2. CASE res # Activation
      BY <1>1, <3>2
    <3> QED BY <3>1, <3>2
  <2> QED BY <1>1, <1>2, <2>1, <2>2, OrdinaryStep DEF Ordinary
<1> QED BY <1>3, <1>4

LEMMA LoopLeavesCharged ==
    ASSUME Inv, Charged, LoopLeaves
    PROVE  Charged'
<1>1. /\ Running /\ Top.kind # "driver" /\ ~Leaving
      /\ frames' = frames /\ request' = request /\ captured' = captured /\ (astray => astray')
  BY Zenon DEF LoopLeaves, Returning, Events, Leaving
<1> QED BY <1>1, LoopLeavesKept, PlainStep

LEMMA NativeReturnsCharged ==
    ASSUME Inv, Charged, NativeReturns
    PROVE  Charged'
  BY NativeReturnsKept, PlainStep DEF NativeReturns, Returning, Events, Leaving

LEMMA FallbackReturnsCharged ==
    ASSUME Inv, Charged, FallbackReturns
    PROVE  Charged'
<1>1. /\ Running /\ Top.kind # "driver" /\ ~Leaving
      /\ frames' = frames /\ (astray => astray')
  BY Zenon DEF FallbackReturns, Returning, Leaving
<1> QED BY <1>1, FallbackReturnsKept, PlainStep

LEMMA HandlerReturnsCharged ==
    ASSUME Inv, Charged, HandlerReturns
    PROVE  Charged'
  BY HandlerReturnsKept, PlainStep DEF HandlerReturns, Returning, Events, Leaving

LEMMA CloseNextCharged ==
    ASSUME Inv, Charged, CloseNext
    PROVE  Charged'
  BY CloseNextKept, PlainStep DEF CloseNext, Events, Leaving

LEMMA CloseHandledCharged ==
    ASSUME Inv, Charged, CloseHandled
    PROVE  Charged'
  BY CloseHandledKept, PlainStep DEF CloseHandled, Returning, Events, Ghosts, Leaving

LEMMA CloseDoneCharged ==
    ASSUME Inv, Charged, CloseDone
    PROVE  Charged'
  BY CloseDoneKept, PlainStep DEF CloseDone, Events, Ghosts, Leaving

(* The execution has its result: no frames wait.                           *)
LEMMA FinishCharged ==
    ASSUME NEW r, NEW loop, Finish(r, loop)
    PROVE  Charged'
  BY DEF Finish, Charged, BaseOwes

(* The driver starts, or refuses, the target of a request.                 *)
LEMMA ActivatedCharged ==
    ASSUME Inv, Charged, Running, Len(stack) = 1, Top.kind = "driver" \/ Top.by = "main",
           res = Activation, captured # None, Activated, astray' = astray
    PROVE  Charged'
<1>1. PICK n \in Nat : n = Len(frames)
  BY FramesCount
<1> DEFINE f == [cont |-> captured, req |-> request]
           fs == Append(frames, f)
           b == NewLoop("target", Fresh, request.call, request.depth + BaseDepth, Len(closing))
<1>2. /\ frames' = fs /\ captured' = None /\ request' = None
      /\ \/ /\ request.depth + BaseDepth >= CallLimit
            /\ stack' = <<Driver>> /\ res' = CallLimitError(request.call)
         \/ /\ ~(request.depth + BaseDepth >= CallLimit)
            /\ stack' = <<Driver, b>>
  BY DEF Activated, RunTarget
<1>3. /\ IsStack(frames) /\ n \in Nat /\ n = Len(frames)
  BY <1>1, FramesCount
<1>4. /\ Len(fs) = n + 1 /\ fs[n + 1] = f
      /\ \A i \in 1 .. n : fs[i] = frames[i]
  BY <1>3, PushFacts
<1>5. request # None /\ IsRequest(request) /\ request.depth \in Nat
  BY DEF Inv, Sound, Waiting, IsRequest
<1>6. ~Leaving
  BY DEF Inv, Sound, Leaving
<1>7. f.req = request /\ f.cont = captured
  OBVIOUS
<1>8. b.kind = "loop" /\ b.by = "target" /\ b.depth = request.depth + BaseDepth
  BY DEF NewLoop
<1>9. stack' # << >> /\ stack'[1] = Driver
  BY <1>2
<1> HIDE DEF f, fs, b
<1>10. ASSUME ~astray' PROVE /\ \A i \in 1 .. Len(fs) : FrameCharged(i)'
                            /\ BaseOwes(stack', Len(fs))
  <2>1. /\ ~astray /\ request.depth >= n /\ captured.depth >= n
    BY <1>3, <1>5, <1>6, <1>10 DEF Charged
  <2>2. FrameCharged(n + 1)'
    <3>1. frames'[n + 1].req.depth = request.depth /\ frames'[n + 1].cont.depth = captured.depth
      BY <1>2, <1>4, <1>7
    <3>2. request.depth + BaseDepth < CallLimit \/ Refused(n + 1)'
      <4>1. CASE request.depth + BaseDepth >= CallLimit
        BY <1>2, <4>1, <1>4 DEF CallLimitError, Refused
      <4>2. CASE ~(request.depth + BaseDepth >= CallLimit)
        BY <1>5, <4>2, LimitsAssumption
      <4> QED BY <4>1, <4>2
    <3>3. n + 1 - 1 = n
      BY <1>3
    <3> QED BY <2>1, <3>1, <3>2, <3>3 DEF FrameCharged
  <2>3. ASSUME NEW i \in 1 .. n PROVE FrameCharged(i)'
    BY <1>3, <2>1, <2>3, <1>2, <1>4 DEF Charged, Refused, Activation, FrameCharged
  <2>4. \A i \in 1 .. Len(fs) : FrameCharged(i)'
    BY <1>3, <1>4, <2>2, <2>3
  <2>5. BaseOwes(stack', Len(fs))
    <3>1. CASE stack' = <<Driver>>
      BY <3>1 DEF BaseOwes
    <3>2. CASE stack' = <<Driver, b>>
      BY <3>2, <1>3, <1>5, <1>8, <2>1, LimitsAssumption, <1>4 DEF BaseOwes, Owes
    <3> QED BY <1>2, <3>1, <3>2
  <2> QED BY <2>4, <2>5
<1>11. Len(frames') = Len(fs) /\ (BaseOwes(stack, Len(frames))' <=> BaseOwes(stack', Len(fs)))
  BY <1>2 DEF BaseOwes, Owes
<1> QED BY <1>2, <1>9, <1>10, <1>11 DEF Charged

LEMMA MainLeavesCharged ==
    ASSUME Inv, Charged, MainLeaves
    PROVE  Charged'
<1>1. /\ Running /\ Top.kind = "loop" /\ Top.by = "main" /\ astray' = astray
      /\ \/ res = Activation /\ captured # None /\ Activated
         \/ Finish(Raised(0), Top)
         \/ Finish(res, Top)
  BY DEF MainLeaves, Returning, Ghosts
<1>2. stack # << >> /\ WellStacked(stack)
  BY <1>1, LoopOnTop
<1>3. Len(stack) = 1
  BY <1>1, <1>2, TopShapes DEF Top
<1>4. CASE res = Activation /\ captured # None /\ Activated
  BY <1>1, <1>3, <1>4, ActivatedCharged
<1>5. CASE Finish(Raised(0), Top)
  BY <1>5, FinishCharged
<1>6. CASE Finish(res, Top)
  BY <1>6, FinishCharged
<1> QED BY <1>1, <1>4, <1>5, <1>6

LEMMA DriverActivatesCharged ==
    ASSUME Inv, Charged, DriverActivates
    PROVE  Charged'
<1>1. /\ Running /\ Top.kind = "driver" /\ astray' = astray /\ res = Activation
      /\ \/ captured # None /\ Activated
         \/ Finish(Raised(0), MainLoop)
  BY DEF DriverActivates, Returning, Ghosts
<1>2. Len(stack) = 1
  BY <1>1, DriverOnTop
<1>3. CASE captured # None /\ Activated
  BY <1>1, <1>2, <1>3, ActivatedCharged
<1>4. CASE Finish(Raised(0), MainLoop)
  BY <1>4, FinishCharged
<1> QED BY <1>1, <1>3, <1>4

LEMMA DriverReceivesCharged ==
    ASSUME Inv, Charged, DriverReceives
    PROVE  Charged'
<1> DEFINE f == InnermostFrame
           c == f.cont
           depth == f.req.depth + BaseDepth
           a == HandlerRecord(f.req.call, f.req.caller, c, FALSE, depth)
<1>1. Running /\ Top.kind = "driver"
  BY DEF DriverReceives, Returning
<1>2. Len(stack) = 1 /\ stack[1] = Driver /\ stack # << >>
  BY <1>1, DriverOnTop
<1>3. CASE frames = << >>
  BY <1>3, FinishCharged DEF DriverReceives
<1>4. CASE frames # << >>
  <2>1. /\ frames' = Front(frames) /\ UNCHANGED <<request, captured, astray>>
        /\ StartHandler(stack, a, depth) \/ Resume(c)
    BY <1>4, Zenon DEF DriverReceives
  <2>2. IsStack(frames) /\ \A i \in 1 .. Len(frames) : IsFrame(frames[i])
    BY DEF Inv, Waiting
  <2>3. PICK n \in Nat \ {0} : n = Len(frames) /\ f = frames[n]
    BY <1>4, <2>2, StackFacts DEF InnermostFrame
  <2>4. IsFrame(f)
    BY <2>2, <2>3
  <2>5. IsLoop(c) /\ c.depth \in Nat
    BY <2>4 DEF IsFrame, IsCont, IsLoop
  <2>6. Len(frames') = n - 1 /\ \A i \in 1 .. n - 1 : frames'[i] = frames[i]
    BY <1>4, <2>1, <2>2, <2>3, PopFacts
  <2> DEFINE b == [c EXCEPT !.by = "resume"]
             e == NewLoop("call", Fresh, a.call, 1 + Min({depth, CallLimit - 1}), Len(closing))
  <2>7. \/ stack' = <<Driver, b>>
        \/ stack' = stack \o <<a, e>>
    BY <2>1 DEF Resume, StartHandler
  <2>8. a.kind = "handler" /\ a.cont = c
    BY DEF HandlerRecord
  <2> HIDE DEF a, e, f, c
  <2>9. b.kind = "loop" /\ b.by = "resume" /\ b.depth = c.depth
    BY <2>5 DEF IsLoop
  <2> HIDE DEF b
  <2>10. /\ stack' # << >> /\ stack'[1] = Driver /\ Len(stack') > 1
         /\ stack'[2] = a \/ stack'[2] = b
    <3>1. CASE stack' = <<Driver, b>>
      BY <3>1
    <3>2. CASE stack' = stack \o <<a, e>>
      <4> DEFINE s == stack
                 u == Append(s, a)
                 v == Append(u, e)
      <4>1. IsStack(s) /\ Len(s) = 1 /\ s[1] = Driver
        BY <1>2 DEF Inv, Sound, WellStacked
      <4>2. stack' = v
        BY <3>2, <4>1, PushTwice
      <4> HIDE DEF s
      <4>3. IsStack(u) /\ Len(u) = 2 /\ u[1] = Driver /\ u[2] = a
        <5>1. IsStack(u) /\ Len(u) = Len(s) + 1 /\ u[Len(s) + 1] = a /\ \A i \in 1 .. Len(s) : u[i] = s[i]
          BY <4>1, PushFacts
        <5> HIDE DEF u
        <5> QED BY <4>1, <5>1
      <4> HIDE DEF u
      <4>4. IsStack(v) /\ Len(v) = 3 /\ v[1] = Driver /\ v[2] = a
        <5>1. IsStack(v) /\ Len(v) = Len(u) + 1 /\ \A i \in 1 .. Len(u) : v[i] = u[i]
          BY <4>3, PushFacts
        <5> HIDE DEF v
        <5> QED BY <4>3, <5>1
      <4> HIDE DEF v
      <4>5. v # << >> /\ Len(v) > 1
        BY <4>4, EmptyStack
      <4> QED BY <4>2, <4>4, <4>5
    <3> QED BY <2>7, <3>1, <3>2
  <2>11. ASSUME ~astray'
         PROVE  /\ \A i \in 1 .. n - 1 : FrameCharged(i)'
                /\ request' # None => request'.depth >= n - 1
                /\ captured' # None => captured'.depth >= n - 1
                /\ BaseOwes(stack', n - 1)
    <3>1. ~astray /\ ~Leaving
      BY <1>1, <2>1, <2>11 DEF Leaving
    <3>2. /\ \A i \in 1 .. n : FrameCharged(i)
          /\ request # None => request.depth >= n
          /\ captured # None => captured.depth >= n
      BY <2>3, <3>1 DEF Charged
    <3>3. ASSUME NEW i \in 1 .. n - 1 PROVE FrameCharged(i)'
      <4>1. FrameCharged(i) /\ i # n
        BY <2>3, <3>2, <3>3
      <4>2. ~Refused(i)
        BY <2>3, <4>1 DEF Refused
      <4>3. frames'[i] = frames[i]
        BY <2>6
      <4> QED BY <4>1, <4>2, <4>3 DEF FrameCharged
    <3>4. c.depth >= n - 1
      BY <2>3, <3>2 DEF FrameCharged, c
    <3>5. BaseOwes(stack', n - 1)
      BY <2>8, <2>9, <2>10, <3>4 DEF BaseOwes, Owes
    <3>6. request' # None => request'.depth >= n - 1
      BY <3>2, <2>1, <2>3 DEF Inv, Waiting, IsRequest
    <3>7. captured' # None => captured'.depth >= n - 1
      BY <3>2, <2>1, <2>3 DEF Inv, Waiting, IsCont, IsLoop
    <3> QED BY <3>3, <3>5, <3>6, <3>7
  <2>12. BaseOwes(stack, Len(frames))' <=> BaseOwes(stack', n - 1)
    BY <2>6 DEF BaseOwes, Owes
  <2> QED BY <2>6, <2>10, <2>11, <2>12 DEF Charged
<1> QED BY <1>3, <1>4

LEMMA ChargedInit ==
    ASSUME Init
    PROVE  Charged
  BY DEF Init, Charged, BaseOwes

LEMMA ChargedNext ==
    ASSUME Inv, Charged, [Next]_vars
    PROVE  Charged'
<1>1. CASE Next
  <2>1. CASE GuestMoves
    BY <2>1, RaiseCharged, GuestCallCharged, ReturnCharged, ReturnDynamicCharged, OpenScopeCharged,
       CloseScopeCharged, CallbackCharged, ProtectedCallCharged DEF GuestMoves
  <2>2. CASE Results
    BY <2>2, LoopReceivesCharged, LoopLeavesCharged, NativeReturnsCharged, FallbackReturnsCharged,
       HandlerReturnsCharged, MainLeavesCharged, DriverActivatesCharged, DriverReceivesCharged DEF Results
  <2>3. CASE Closes
    BY <2>3, CloseNextCharged, CloseHandledCharged, CloseDoneCharged DEF Closes
  <2> QED BY <1>1, <2>1, <2>2, <2>3 DEF Next
<1>2. CASE UNCHANGED vars
  BY <1>2 DEF vars, Charged, FrameCharged, Refused, Leaving, BaseOwes, Owes, Top
<1> QED BY <1>1, <1>2

LEMMA MaxOfTwo ==
    ASSUME NEW a \in Int, NEW b \in Int
    PROVE  Max({a, b}) \in {a, b} /\ Max({a, b}) >= a /\ Max({a, b}) >= b
<1>1. \E x \in {a, b} : \A y \in {a, b} : x >= y
  <2>1. CASE a >= b
    BY <2>1
  <2>2. CASE b >= a
    BY <2>2
  <2> QED BY <2>1, <2>2
<1>2. Max({a, b}) = CHOOSE x \in {a, b} : \A y \in {a, b} : x >= y
  BY DEF Max
<1> QED BY <1>1, <1>2

LEMMA ChargedBounds ==
    ASSUME Inv, Charged, ~astray
    PROVE  FramesBounded
<1> DEFINE m == Max({0, CallLimit - BaseDepth})
<1>1. PICK n \in Nat : n = Len(frames)
  BY FramesCount
<1>2. m \in Int /\ m >= 0 /\ m >= CallLimit - BaseDepth
  <2> DEFINE b == CallLimit - BaseDepth
  <2>1. b \in Int /\ 0 \in Int
    BY LimitsAssumption
  <2> HIDE DEF b
  <2>2. Max({0, b}) \in {0, b} /\ Max({0, b}) >= 0 /\ Max({0, b}) >= b
    BY <2>1, MaxOfTwo
  <2>3. Max({0, b}) \in Int
    BY <2>1, <2>2
  <2> QED BY <2>2, <2>3 DEF b
<1> HIDE DEF m
<1>3. CASE n <= 1
  BY <1>1, <1>2, <1>3 DEF FramesBounded, m
<1>4. CASE n > 1
  <2> DEFINE q == frames[n - 1].req
  <2>1. n - 1 \in 1 .. n
    BY <1>4
  <2>2. FrameCharged(n - 1) /\ IsFrame(frames[n - 1])
    BY <1>1, <2>1 DEF Charged, Inv, Waiting
  <2>3. ~Refused(n - 1)
    BY <1>1 DEF Refused
  <2>4. q.depth \in Nat
    BY <2>2 DEF IsFrame, IsRequest
  <2>5. q.depth >= n - 1 - 1 /\ q.depth + BaseDepth < CallLimit
    BY <2>2, <2>3 DEF FrameCharged
  <2> HIDE DEF q
  <2>6. n <= 1 + m
    BY <1>2, <1>4, <2>4, <2>5, LimitsAssumption
  <2> QED BY <1>1, <2>6 DEF FramesBounded, m
<1> QED BY <1>3, <1>4

(* Protected calls that nest without end are refused, and the counters     *)
(* that refuse them are right, on every way an activation is left.         *)
THEOREM NestingStaysAccounted == Spec => []NestingAccounted
  BY InvInit, ChargedInit, InvNext, ChargedNext, InvCounts, InvBounds, ChargedBounds, PTL DEF NestingAccounted,
     NestingBounded, Spec

-----------------------------------------------------------------------------
(* To whom results are addressed                                           *)

(* A result addressed to the protected call to is what b waits for.        *)
Meets(to, b, fs) ==
    /\ b.kind = "loop" /\ b.by # "main" => to = b.catch
    /\ b.kind = "native" => to = b.to
    /\ b.kind = "fallback" => to = b.call
    /\ b.kind = "driver" /\ fs # << >> => to = Last(fs).req.call

(* The activation a belongs right above b.                                 *)
Linked(b, a, fs) ==
    /\ a.kind = "loop" => Meets(a.catch, b, fs)
    /\ a.kind = "native" => Meets(a.to, b, fs)
    /\ a.kind = "fallback" \/ (a.kind = "handler" /\ a.cont = None) =>
         b.kind = "loop" /\ b.status = "busy" /\ a.caller = b.id
    /\ a.kind = "handler" /\ a.cont # None =>
         a.cont.id = a.caller /\ (fs # << >> => a.cont.catch = Last(fs).req.call)

(* What a loop that ends will end with is addressed as the loop is.        *)
OwnError(a) ==
    a.kind = "loop" /\ a.by # "main" /\ a.err.kind \in {"ok", "error"} => a.err.to = a.catch

OrderedAt(s, i, fs) ==
    /\ OwnError(s[i])
    /\ i > 1 => Linked(s[i - 1], s[i], fs) /\ ~Has(s[i - 1], "activated")

Ordered(s, fs) == IsStack(s) /\ \A i \in 1 .. Len(s) : OrderedAt(s, i, fs)

(* A busy loop goes on with whatever result it is given.                   *)
Arrives(r, b, fs) ==
    r.kind = "error" \/ (r.kind = "ok" /\ ~(b.kind = "loop" /\ b.status = "busy")) => Meets(r.to, b, fs)

FramesLinked ==
    \A i \in 1 .. Len(frames) :
      /\ frames[i].cont.id = frames[i].req.caller
      /\ i > 1 => frames[i].cont.catch = frames[i - 1].req.call

(* The continuation that was captured is that of the call requested.       *)
Caught ==
    /\ request # None /\ captured # None /\ captured.id = request.caller
    /\ frames # << >> => captured.catch = Last(frames).req.call

Asking ==
    \/ Top.kind = "loop" /\ Top.status = "busy" /\ request # None /\ Top.id = request.caller
    \/ Caught /\ Top.kind = "driver"
    \/ Caught /\ Top.kind = "loop" /\ Top.by # "call" /\ Top.status = "leave"

(* A resumed loop with nothing to close asks again.                        *)
AsksAgain ==
    /\ Top.status = "unwind" /\ Top.by = "resume" /\ res = None
    /\ Caught /\ ~(Len(closing) > Top.marker)

Labelled ==
    ~astray =>
      /\ Ordered(stack, frames)
      /\ FramesLinked
      /\ stack # << >> => Arrives(res, Top, frames)
      /\ stack # << >> /\ Has(Top, "activated") => AsksAgain
      /\ res = Activation => Asking
      /\ OutcomeIsTheTargets

LEMMA LastPushed ==
    ASSUME NEW s, IsStack(s), NEW a
    PROVE  IsStack(Append(s, a)) /\ Append(s, a) # << >> /\ Last(Append(s, a)) = a
<1> DEFINE u == Append(s, a)
           k == Len(s)
<1>1. IsStack(u) /\ Len(u) = k + 1 /\ u[k + 1] = a /\ k \in Nat
  BY PushFacts, StackFacts
<1> HIDE DEF u, k
<1>2. u # << >> /\ Last(u) = a
  BY <1>1, StackFacts
<1> QED BY <1>1, <1>2 DEF u

LEMMA OrderedPop ==
    ASSUME NEW s, NEW fs, Ordered(s, fs), s # << >>
    PROVE  Ordered(Front(s), fs)
<1> DEFINE u == Front(s)
           k == Len(s)
<1>1. k \in Nat \ {0} /\ IsStack(u) /\ Len(u) = k - 1 /\ \A i \in 1 .. k - 1 : u[i] = s[i]
  BY PopFacts, StackFacts DEF Ordered
<1>2. \A i \in 1 .. k : OrderedAt(s, i, fs)
  BY DEF Ordered
<1> HIDE DEF u, k
<1>3. ASSUME NEW i \in 1 .. k - 1 PROVE OrderedAt(u, i, fs)
  BY <1>1, <1>2 DEF OrderedAt
<1> QED BY <1>1, <1>3 DEF Ordered, u

LEMMA OrderedTop ==
    ASSUME NEW s, NEW fs, Ordered(s, fs), s # << >>
    PROVE  /\ OwnError(Last(s))
           /\ Len(s) > 1 =>
                /\ Linked(Last(Front(s)), Last(s), fs) /\ ~Has(Last(Front(s)), "activated")
                /\ Front(s) # << >> /\ IsStack(Front(s))
<1> DEFINE u == Front(s)
           k == Len(s)
<1>1. k \in Nat \ {0} /\ IsStack(u) /\ Len(u) = k - 1 /\ (\A i \in 1 .. k - 1 : u[i] = s[i]) /\ Last(s) = s[k]
  BY PopFacts, StackFacts DEF Ordered
<1>2. OrderedAt(s, k, fs)
  BY <1>1 DEF Ordered
<1> HIDE DEF u
<1>3. u # << >> => Last(u) = u[Len(u)]
  BY <1>1, StackFacts
<1>4. OwnError(Last(s))
  BY <1>1, <1>2 DEF OrderedAt
<1>5. ASSUME k > 1 PROVE Linked(Last(u), Last(s), fs) /\ ~Has(Last(u), "activated") /\ u # << >>
  <2> HIDE DEF k
  <2> QED BY <1>1, <1>5, StackFacts, <1>3, <1>2 DEF OrderedAt
<1> QED BY <1>1, <1>4, <1>5 DEF u, k

LEMMA OrderedPush ==
    ASSUME NEW s, NEW fs, Ordered(s, fs), NEW a, OwnError(a),
           s # << >> => Linked(Last(s), a, fs) /\ ~Has(Last(s), "activated")
    PROVE  Ordered(Append(s, a), fs) /\ Append(s, a) # << >> /\ Last(Append(s, a)) = a
<1> DEFINE u == Append(s, a)
           k == Len(s)
<1>1. /\ k \in Nat /\ IsStack(s) /\ IsStack(u) /\ Len(u) = k + 1 /\ u[k + 1] = a
      /\ \A i \in 1 .. k : u[i] = s[i]
      /\ (s = << >>) <=> (k = 0)
      /\ Last(s) = s[k]
  BY PushFacts, StackFacts DEF Ordered
<1>2. u # << >> /\ Last(u) = a
  BY <1>1, LastPushed
<1>3. \A i \in 1 .. k : OrderedAt(s, i, fs)
  BY DEF Ordered
<1> DEFINE z == Last(s)
<1>4. s # << >> => Linked(z, a, fs) /\ ~Has(z, "activated")
  OBVIOUS
<1> HIDE DEF u, k, z
<1>5. ASSUME NEW i \in 1 .. k + 1 PROVE OrderedAt(u, i, fs)
  <2>1. CASE i \in 1 .. k
    BY <1>1, <1>3, <2>1 DEF OrderedAt
  <2>2. CASE i = k + 1
    BY <1>1, <2>2, <1>4 DEF z, OrderedAt
  <2> QED BY <1>1, <2>1, <2>2
<1> QED BY <1>1, <1>2, <1>5 DEF Ordered, u

LEMMA OrderedReplace ==
    ASSUME NEW s, NEW fs, Ordered(s, fs), s # << >>, NEW b, OwnError(b),
           \A c : Linked(c, Last(s), fs) => Linked(c, b, fs)
    PROVE  /\ Ordered(Append(Front(s), b), fs) /\ Append(Front(s), b) # << >>
           /\ Last(Append(Front(s), b)) = b
<1> DEFINE f == Front(s)
           z == Last(s)
           k == Len(s)
<1>1. Ordered(f, fs) /\ IsStack(f) /\ Len(f) = k - 1 /\ k \in Nat \ {0}
  BY OrderedPop, PopFacts, StackFacts DEF Ordered
<1>2. k > 1 => Linked(Last(f), z, fs) /\ ~Has(Last(f), "activated")
  BY OrderedTop
<1>3. \A c : Linked(c, z, fs) => Linked(c, b, fs)
  OBVIOUS
<1> HIDE DEF f, z, k
<1>4. f # << >> => k > 1
  BY <1>1, StackFacts
<1>5. Ordered(Append(f, b), fs) /\ Append(f, b) # << >> /\ Last(Append(f, b)) = b
  BY <1>1, OrderedPush, <1>2, <1>3, <1>4
<1> QED BY <1>5 DEF f

-----------------------------------------------------------------------------
(* Guest code moves                                                        *)

(* A stack and a result that are where they belong, no activation on its   *)
(* way.                                                                    *)
Placed(s, r, fs) ==
    /\ s # << >> /\ Ordered(s, fs) /\ ~Has(Last(s), "activated")
    /\ r # Activation /\ Arrives(r, Last(s), fs)

LEMMA QuietStep ==
    ASSUME Labelled, astray => astray', frames' = frames,
           ~astray' => Placed(stack', res', frames),
           delivered' = delivered \/ OutcomeIsTheTargets'
    PROVE  Labelled'
<1> SUFFICES ASSUME ~astray'
             PROVE  /\ Ordered(stack', frames')
                    /\ FramesLinked'
                    /\ stack' # << >> => Arrives(res', Top', frames')
                    /\ stack' # << >> /\ Has(Top', "activated") => AsksAgain'
                    /\ res' = Activation => Asking'
                    /\ OutcomeIsTheTargets'
  BY Zenon DEF Labelled
<1>1. Placed(stack', res', frames) /\ FramesLinked /\ OutcomeIsTheTargets
  BY DEF Labelled
<1>2. Ordered(stack', frames') /\ stack' # << >> /\ Arrives(res', Last(stack'), frames')
      /\ ~Has(Last(stack'), "activated") /\ res' # Activation
  BY <1>1 DEF Placed
<1>3. FramesLinked'
  BY <1>1 DEF FramesLinked
<1>4. OutcomeIsTheTargets'
  BY <1>1 DEF OutcomeIsTheTargets
<1> QED BY <1>2, <1>3, <1>4 DEF Top

LEMMA GuestCallPlaced ==
    ASSUME NEW s, NEW fs, Ordered(s, fs), s # << >>, ~Has(Last(s), "activated"),
           NEW depth, NEW id, NEW catch, NEW marker, Meets(catch, Last(s), fs), NEW s2, NEW r2,
           Called(s, s2, r2, id, catch, depth, marker)
    PROVE  Placed(s2, r2, fs)
<1>1. CASE depth + 1 > CallLimit
  BY <1>1, NotActivation DEF Called, CallLimitError, Arrives, Placed
<1>2. CASE ~(depth + 1 > CallLimit)
  <2> DEFINE a == NewLoop("call", id, catch, depth + 1, marker)
  <2>1. a.kind = "loop" /\ a.catch = catch /\ a.err = None
    BY DEF NewLoop
  <2>2. s2 = Append(s, a) /\ r2 = None
    BY <1>2 DEF Called
  <2> HIDE DEF a
  <2>3. OwnError(a) /\ ~Has(a, "activated")
    BY <2>1, NotActivation DEF OwnError, None, Has
  <2>4. Linked(Last(s), a, fs)
    BY <2>1 DEF Linked
  <2>5. Ordered(s2, fs) /\ s2 # << >> /\ Last(s2) = a
    BY <2>2, <2>3, <2>4, OrderedPush
  <2>6. Arrives(r2, Last(s2), fs) /\ r2 # Activation
    BY <2>2, NotActivation DEF Arrives, None
  <2> QED BY <2>3, <2>5, <2>6 DEF Placed
<1> QED BY <1>1, <1>2

(* The loop on top goes on, its error its own.                             *)
LEMMA LoopPlaced ==
    ASSUME Inv, Running, Top.kind = "loop", Labelled, ~astray, NEW sc, NEW st, NEW e,
           Top.by # "main" /\ e.kind \in {"ok", "error"} => e.to = Top.catch
    PROVE  /\ Ordered(WithTop(Revised(Top, sc, st, e)), frames)
           /\ WithTop(Revised(Top, sc, st, e)) # << >>
           /\ Last(WithTop(Revised(Top, sc, st, e))) = Revised(Top, sc, st, e)
<1> DEFINE s == stack
           a == Last(s)
           b == Revised(a, sc, st, e)
<1>1. s # << >> /\ Ordered(s, frames)
  BY LoopOnTop DEF Labelled
<1>2. a.kind = "loop" /\ Top = a
  BY DEF Top
<1>3. b.kind = "loop" /\ b.by = a.by /\ b.catch = a.catch /\ b.err = e
  BY RevisedFields
<1>4. WithTop(Revised(Top, sc, st, e)) = Append(Front(s), b) /\ Revised(Top, sc, st, e) = b
  BY DEF WithTop, Below, Top
<1> HIDE DEF b
<1>5. OwnError(b)
  BY <1>2, <1>3 DEF OwnError
<1>6. \A c : Linked(c, a, frames) => Linked(c, b, frames)
  BY <1>2, <1>3 DEF Linked
<1> QED BY <1>4, <1>1, <1>5, <1>6, OrderedReplace

LEMMA RunsOn ==
    ASSUME Inv, Labelled, ~astray, Running, Top.kind = "loop", NEW sc, NEW st, NEW r,
           r = None \/ (r.kind \in {"ok", "error"} /\ (Top.by # "main" => r.to = Top.catch))
    PROVE  Placed(WithTop(Revised(Top, sc, st, None)), r, frames)
<1> DEFINE b == Revised(Top, sc, st, None)
           u == WithTop(b)
<1>1. Ordered(u, frames) /\ u # << >> /\ Last(u) = b
  BY LoopPlaced DEF None
<1>2. b.kind = "loop" /\ b.by = Top.by /\ b.catch = Top.catch /\ b.err = None
  BY RevisedFields
<1>3. r # Activation
  BY DEF Activation, None
<1> HIDE DEF b
<1>4. Arrives(r, b, frames) /\ ~Has(b, "activated")
  BY <1>2, NotActivation DEF Arrives, Meets, None, Has
<1> HIDE DEF u
<1>5. Placed(u, r, frames)
  BY <1>1, <1>3, <1>4 DEF Placed
<1> QED BY <1>5 DEF u, b

LEMMA RaiseLabelled ==
    ASSUME Inv, Labelled, Raise
    PROVE  Labelled'
<1>1. /\ Running /\ Top.kind = "loop" /\ Top.status = "run" /\ res' = Raised(Top.catch)
      /\ stack' = WithTop([Top EXCEPT !.status = "leave"])
      /\ frames' = frames /\ astray' = astray /\ delivered' = delivered
  BY DEF Raise, Ready, Events, Ghosts
<1>2. Top.err = None
  BY <1>1, LoopOnTop
<1>3. stack' = WithTop(Revised(Top, Top.scopes, "leave", None))
  BY <1>1, <1>2, TopAsIs, Zenon
<1>4. res'.kind = "error" /\ res'.to = Top.catch
  BY <1>1 DEF Raised
<1>5. ~astray' => Placed(stack', res', frames)
  BY <1>1, <1>3, <1>4, RunsOn
<1> QED BY <1>1, <1>5, QuietStep

LEMMA GuestCallLabelled ==
    ASSUME Inv, Labelled, GuestCall
    PROVE  Labelled'
<1>1. /\ Running /\ Top.kind = "loop" /\ Top.status = "run" /\ res = None
      /\ frames' = frames /\ astray' = astray /\ delivered' = delivered
  BY DEF GuestCall, Moves, Ready, Events, Ghosts
<1>2. Top.err = None
  BY <1>1, LoopOnTop
<1>3. \/ stack' = WithTop([Top EXCEPT !.status = "leave"]) /\ res' = CallLimitError(Top.catch)
      \/ stack' = WithTop([Top EXCEPT !.scopes = Append(Top.scopes, << >>)]) /\ res' = None
  BY <1>1 DEF GuestCall
<1>4. CASE stack' = WithTop([Top EXCEPT !.status = "leave"]) /\ res' = CallLimitError(Top.catch)
  <2>1. stack' = WithTop(Revised(Top, Top.scopes, "leave", None))
    BY <1>1, <1>2, <1>4, TopAsIs, Zenon
  <2>2. res'.kind = "error" /\ res'.to = Top.catch
    BY <1>4 DEF CallLimitError
  <2>3. ~astray' => Placed(stack', res', frames)
    BY <1>1, <2>1, <2>2, RunsOn
  <2> QED BY <1>1, <2>3, QuietStep
<1>5. CASE stack' = WithTop([Top EXCEPT !.scopes = Append(Top.scopes, << >>)]) /\ res' = None
  <2> DEFINE sc == Append(Top.scopes, << >>)
  <2> HIDE DEF sc
  <2>1. stack' = WithTop([Top EXCEPT !.scopes = sc])
    BY <1>5 DEF sc
  <2>2. stack' = WithTop(Revised(Top, sc, "run", None))
    BY <1>1, <1>2, <2>1, TopAsIs, Zenon
  <2>3. ~astray' => Placed(stack', res', frames)
    BY <1>1, <1>5, <2>2, RunsOn
  <2> QED BY <1>1, <2>3, QuietStep
<1> QED BY <1>3, <1>4, <1>5

LEMMA ReturnFramePlaced ==
    ASSUME Inv, Labelled, ~astray, Running, Top.kind = "loop", Top.status \in {"run", "closing"}, Top.err = None,
           ReturnFrame(Top)
    PROVE  Placed(stack', res', frames)
  BY FrameReturns, RunsOn DEF ReturnFrame, Ok

LEMMA ReturnLabelled ==
    ASSUME Inv, Labelled, Return
    PROVE  Labelled'
  BY LoopOnTop, ReturnFramePlaced, QuietStep DEF Return, Moves, Ready, Events, Ghosts

LEMMA ReturnDynamicLabelled ==
    ASSUME Inv, Labelled, ReturnDynamic
    PROVE  Labelled'
<1>1. /\ Running /\ Top.kind = "loop" /\ res = None /\ res' = res
      /\ stack' = WithTop([Top EXCEPT !.status = "closing", !.err = None])
      /\ frames' = frames /\ astray' = astray /\ delivered' = delivered
  BY DEF ReturnDynamic, Moves, Ready, Events, Ghosts
<1>2. [Top EXCEPT !.status = "closing", !.err = None] = Revised(Top, Top.scopes, "closing", None)
  BY <1>1, TopAsIs, Zenon
<1>3. ~astray' => Placed(stack', res', frames)
  BY <1>1, RunsOn, <1>2
<1> QED BY <1>1, <1>3, QuietStep

LEMMA OpenScopeLabelled ==
    ASSUME Inv, Labelled, OpenScope
    PROVE  Labelled'
<1> DEFINE v == Len(closed) + 1
           n == Len(Top.scopes)
           x == Append(Top.scopes[n], v)
           sc == [Top.scopes EXCEPT ![n] = x]
<1>1. /\ Running /\ Top.kind = "loop" /\ Top.status = "run" /\ res = None /\ res' = res
      /\ stack' = WithTop([Top EXCEPT !.scopes[Len(Top.scopes)] = Append(@, v)])
      /\ frames' = frames /\ astray' = astray /\ delivered' = delivered
  BY DEF OpenScope, Moves, Ready, Events
<1>2. IsLoop(Top) /\ Top.err = None
  BY <1>1, LoopOnTop
<1>3. [Top EXCEPT !.scopes[Len(Top.scopes)] = Append(@, v)] = [Top EXCEPT !.scopes[n] = x]
  BY <1>2 DEF IsLoop
<1>4. [Top EXCEPT !.scopes[n] = x] = Revised(Top, sc, Top.status, Top.err)
  BY ONLY <1>2, ScopeUpdates
<1> HIDE DEF sc, x, v
<1>5. ~astray' => Placed(stack', res', frames)
  BY <1>1, RunsOn, <1>2, <1>3, <1>4
<1> QED BY <1>1, <1>5, QuietStep

(* The busy loop with what its call left above it.                         *)
LEMMA AboveBusy ==
    ASSUME Inv, Labelled, ~astray, Running, Top.kind = "loop", Top.err = None, NEW sc,
           NEW a, \/ a.kind = "native" /\ a.to = Top.catch
                  \/ a.kind = "fallback" /\ a.caller = Top.id
    PROVE  LET v == WithTop(Revised(Top, sc, "busy", None)) \o <<a>> IN
           Ordered(v, frames) /\ v # << >> /\ Last(v) = a /\ ~Has(a, "activated") /\ IsStack(v)
<1> DEFINE b == Revised(Top, sc, "busy", None)
           u == WithTop(b)
<1>1. Ordered(u, frames) /\ u # << >> /\ Last(u) = b
  BY LoopPlaced DEF None
<1>2. b.kind = "loop" /\ b.by = Top.by /\ b.catch = Top.catch /\ b.err = None /\ b.status = "busy" /\ b.id = Top.id
  BY RevisedFields
<1>3. u \o <<a>> = Append(u, a)
  BY <1>1, PushFacts DEF Ordered
<1> HIDE DEF b
<1>4. Linked(b, a, frames) /\ ~Has(b, "activated") /\ OwnError(a) /\ ~Has(a, "activated")
  BY <1>2, NotActivation DEF Linked, Meets, Has, OwnError
<1> HIDE DEF u
<1>5. Ordered(Append(u, a), frames) /\ Append(u, a) # << >> /\ Last(Append(u, a)) = a
  BY <1>1, <1>4, OrderedPush
<1>6. IsStack(Append(u, a))
  BY <1>5 DEF Ordered
<1> QED BY <1>3, <1>4, <1>5, <1>6 DEF u, b

LEMMA CalledBackPlaced ==
    ASSUME Inv, Labelled, ~astray, Running, Top.kind = "loop", Top.err = None, NEW sc,
           NEW id, NEW depth, NEW marker,
           CallGuest(WithTop(Revised(Top, sc, "busy", None)) \o <<Native(Top.catch)>>, id, Top.catch, depth, marker)
    PROVE  Placed(stack', res', frames)
<1> DEFINE a == Native(Top.catch)
           v == WithTop(Revised(Top, sc, "busy", None)) \o <<a>>
<1>1. a.kind = "native" /\ a.to = Top.catch
  BY DEF Native
<1>2. Called(v, stack', res', id, Top.catch, depth, marker)
  BY DEF CallGuest, Called
<1> HIDE DEF a
<1>3. Ordered(v, frames) /\ v # << >> /\ Last(v) = a /\ ~Has(a, "activated")
  BY <1>1, AboveBusy
<1>4. Meets(Top.catch, a, frames)
  BY <1>1 DEF Meets
<1> HIDE DEF v
<1> QED BY <1>2, <1>3, <1>4, GuestCallPlaced

LEMMA CallbackLabelled ==
    ASSUME Inv, Labelled, Callback
    PROVE  Labelled'
<1> DEFINE a == Native(Top.catch)
<1>1. /\ Running /\ Top.kind = "loop" /\ Top.status = "run"
      /\ CallGuest(WithTop([Top EXCEPT !.status = "busy"]) \o <<a>>, Fresh, Top.catch, Depth(Top), Len(closing))
      /\ frames' = frames /\ astray' = astray /\ delivered' = delivered
  BY DEF Callback, Moves, Ready, Ghosts
<1>2. Top.err = None
  BY <1>1, LoopOnTop
<1>3. [Top EXCEPT !.status = "busy"] = Revised(Top, Top.scopes, "busy", None)
  BY <1>1, <1>2, TopAsIs, Zenon
<1>4. ~astray' => Placed(stack', res', frames)
  BY <1>1, <1>2, CalledBackPlaced, <1>3
<1> QED BY <1>1, <1>4, QuietStep

LEMMA CloseScopeLabelled ==
    ASSUME Inv, Labelled, CloseScope
    PROVE  Labelled'
<1> DEFINE a == Native(Top.catch)
           n == Len(Top.scopes)
           x == Front(Top.scopes[n])
           sc == [Top.scopes EXCEPT ![n] = x]
           rest == TakeCloseValue(Last(Last(Top.scopes)))
<1>1. /\ Running /\ Top.kind = "loop" /\ Top.status = "run"
      /\ CallGuest(WithTop([Top EXCEPT !.scopes[Len(Top.scopes)] = Front(@), !.status = "busy"]) \o <<a>>,
                   Fresh, Top.catch, Depth(Top), Len(rest))
      /\ frames' = frames /\ astray' = astray /\ delivered' = delivered
  BY Zenon DEF CloseScope, Moves, Ready
<1>2. IsLoop(Top) /\ Top.err = None
  BY <1>1, LoopOnTop
<1>3. [Top EXCEPT !.scopes[Len(Top.scopes)] = Front(@), !.status = "busy"] = [Top EXCEPT !.scopes[n] = x, !.status = "busy"]
  BY <1>2 DEF IsLoop
<1>4. [Top EXCEPT !.scopes[n] = x, !.status = "busy"] = Revised(Top, sc, "busy", Top.err)
  <2>1. [Top EXCEPT !.scopes[n] = x, !.status = "busy"] = [[Top EXCEPT !.scopes[n] = x] EXCEPT !.status = "busy"]
    OBVIOUS
  <2>2. [Top EXCEPT !.scopes[n] = x] = Revised(Top, sc, Top.status, Top.err)
    BY ONLY <1>2, ScopeUpdates
  <2>3. [Revised(Top, sc, Top.status, Top.err) EXCEPT !.status = "busy"] = Revised(Top, sc, "busy", Top.err)
    BY DEF Revised
  <2> QED BY ONLY <2>1, <2>2, <2>3
<1> HIDE DEF sc, x, rest
<1>5. ~astray' => Placed(stack', res', frames)
  BY <1>1, <1>2, CalledBackPlaced, <1>3, <1>4
<1> QED BY <1>1, <1>5, QuietStep

-----------------------------------------------------------------------------
(* Protected calls                                                         *)

LEMMA FallbackPlaced ==
    ASSUME Inv, Labelled, ~astray, Running, Top.kind = "loop", Top.err = None,
           NEW target \in {"guest", "returns", "raises", "callsBack"},
           NEW handler, NEW restore, NEW call, Fallback(target, handler, restore, call)
    PROVE  Placed(stack', res', frames)
<1> DEFINE entered == activations < MaxActivations
           b == FallbackRecord(target, handler, restore, call, entered)
           v == WithTop(Revised(Top, Top.scopes, "busy", None)) \o <<b>>
           d == Depth(Top)
<1>1. [Top EXCEPT !.status = "busy"] = Revised(Top, Top.scopes, "busy", None)
  BY TopAsIs, Zenon
<1>2. WithTop([Top EXCEPT !.status = "busy"])
        \o <<FallbackRecord(target, handler, restore, call, activations < MaxActivations)>> = v
  BY <1>1
<1>3. b.kind = "fallback" /\ b.caller = Top.id /\ b.call = call
  BY DEF FallbackRecord
<1> HIDE DEF b
<1>4. Ordered(v, frames) /\ v # << >> /\ Last(v) = b /\ ~Has(b, "activated") /\ IsStack(v)
  BY <1>3, AboveBusy
<1> HIDE DEF v, d
<1>5. Meets(call, b, frames)
  BY <1>3 DEF Meets
<1>6. \/ stack' = v /\ res' = CallLimitError(call)
      \/ stack' = v /\ res' = Ok(call)
      \/ stack' = v /\ res' = Raised(call)
      \/ CallGuest(Append(v, Native(call)), call + 1, call, Depth(Top), Len(closing))
      \/ CallGuest(v, call + 1, call, Depth(Top), Len(closing))
  BY <1>2 DEF Fallback
<1>7. CASE stack' = v /\ res' \in {CallLimitError(call), Ok(call), Raised(call)}
  <2>1. res' # Activation /\ res'.to = call
    <3>1. res' # Activation
      BY <1>7, NotActivation
    <3>2. res'.to = call
      BY <1>7 DEF CallLimitError, Ok, Raised
    <3> QED BY <3>1, <3>2
  <2>2. Arrives(res', b, frames)
    BY <1>5, <2>1 DEF Arrives
  <2> QED BY <1>4, <1>7, <2>1, <2>2 DEF Placed
<1>8. CASE CallGuest(v, call + 1, call, Depth(Top), Len(closing))
  BY <1>8, <1>4, <1>5, GuestCallPlaced DEF CallGuest, Called
<1>9. CASE CallGuest(Append(v, Native(call)), call + 1, call, Depth(Top), Len(closing))
  <2> DEFINE a == Native(call)
             w == Append(v, a)
  <2>1. Called(w, stack', res', call + 1, call, Depth(Top), Len(closing))
    BY <1>9 DEF CallGuest, Called
  <2>2. a.kind = "native" /\ a.to = call
    BY DEF Native
  <2> HIDE DEF a
  <2>3. Linked(b, a, frames) /\ OwnError(a) /\ ~Has(a, "activated") /\ Meets(call, a, frames)
    BY <1>3, <2>2 DEF Linked, Meets, OwnError, Has
  <2>4. Ordered(w, frames) /\ w # << >> /\ Last(w) = a
    BY <1>4, <2>3, OrderedPush
  <2> HIDE DEF w
  <2> QED BY <2>1, <2>3, <2>4, GuestCallPlaced
<1> QED BY <1>6, <1>7, <1>8, <1>9

LEMMA RefusePlaced ==
    ASSUME Inv, Labelled, ~astray, Running, Top.kind = "loop", Top.err = None,
           NEW handler, NEW call, RefuseRequest(handler, call)
    PROVE  Placed(stack', res', frames)
<1> DEFINE b == FallbackRecord("guest", handler, FALSE, call, FALSE)
           v == WithTop(Revised(Top, Top.scopes, "busy", None)) \o <<b>>
<1>1. [Top EXCEPT !.status = "busy"] = Revised(Top, Top.scopes, "busy", None)
  BY TopAsIs, Zenon
<1>2. stack' = v /\ res' = Raised(call)
  BY <1>1 DEF RefuseRequest
<1>3. b.kind = "fallback" /\ b.caller = Top.id /\ b.call = call
  BY DEF FallbackRecord
<1> HIDE DEF b
<1>4. Ordered(v, frames) /\ v # << >> /\ Last(v) = b /\ ~Has(b, "activated")
  BY <1>3, AboveBusy
<1> HIDE DEF v
<1>5. res' # Activation /\ res'.to = call
  BY <1>2, NotActivation DEF Raised
<1>6. Arrives(res', b, frames)
  BY <1>3, <1>5 DEF Arrives, Meets
<1> QED BY <1>2, <1>4, <1>5, <1>6 DEF Placed

LEMMA ActivateLabelled ==
    ASSUME Inv, Labelled, Running, Top.kind = "loop", Top.err = None,
           NEW handler, NEW call, Activate(handler, call),
           frames' = frames, astray' = astray, delivered' = delivered
    PROVE  Labelled'
<1> DEFINE b == Revised(Top, Top.scopes, "busy", None)
<1>1. [Top EXCEPT !.status = "busy"] = b
  BY TopAsIs, Zenon
<1>2. stack' = WithTop(b) /\ res' = Activation
  BY <1>1 DEF Activate
<1>3. request' # None /\ request'.caller = Top.id
  BY DEF Activate, None
<1> SUFFICES ASSUME ~astray PROVE Labelled'
  BY DEF Labelled
<1>4. Ordered(stack', frames) /\ stack' # << >> /\ Last(stack') = b
  BY <1>2, LoopPlaced DEF None
<1>5. b.kind = "loop" /\ b.status = "busy" /\ b.id = Top.id /\ b.err = None
  BY RevisedFields
<1> HIDE DEF b
<1>6. Top' = b /\ ~Has(b, "activated")
  BY <1>4, <1>5, NotActivation DEF Top, Has
<1>7. Asking'
  BY <1>3, <1>5, <1>6 DEF Asking
<1>8. Arrives(res', Top', frames')
  BY <1>2 DEF Arrives, Activation
<1>9. Ordered(stack', frames') /\ FramesLinked' /\ OutcomeIsTheTargets'
  BY <1>4 DEF Labelled, FramesLinked, OutcomeIsTheTargets
<1>10. ~Has(Top', "activated")
  BY <1>6
<1> QED BY <1>7, <1>8, <1>9, <1>10 DEF Labelled

LEMMA ProtectedCallLabelled ==
    ASSUME Inv, Labelled, ProtectedCall
    PROVE  Labelled'
<1>1. PICK target \in {"guest", "returns", "raises", "callsBack"}, handler \in BOOLEAN :
        CallProtectedTarget(target, handler)
  BY DEF ProtectedCall
<1>2. /\ Running /\ Top.kind = "loop" /\ Top.status = "run" /\ res = None
      /\ frames' = frames /\ astray' = astray /\ delivered' = delivered
  BY <1>1 DEF CallProtectedTarget, Moves, Ready, Ghosts
<1>3. Top.err = None
  BY <1>2, LoopOnTop
<1>4. \E call : \/ \E restore : Fallback(target, handler, restore, call)
                \/ RefuseRequest(handler, call)
                \/ Activate(handler, call)
  BY <1>1, Zenon DEF CallProtectedTarget
<1>5. PICK call : \/ \E restore : Fallback(target, handler, restore, call)
                  \/ RefuseRequest(handler, call)
                  \/ Activate(handler, call)
  BY <1>4
<1>6. CASE \E restore : Fallback(target, handler, restore, call)
  BY <1>2, <1>3, <1>6, FallbackPlaced, QuietStep
<1>7. CASE RefuseRequest(handler, call)
  BY <1>2, <1>3, <1>7, RefusePlaced, QuietStep
<1>8. CASE Activate(handler, call)
  BY <1>2, <1>3, <1>8, ActivateLabelled
<1> QED BY <1>5, <1>6, <1>7, <1>8

-----------------------------------------------------------------------------
(* Results travel                                                          *)

LEMMA ResultKinds ==
    ASSUME NEW r, IsResult(r)
    PROVE  /\ r = None \/ r = Activation \/ r.kind \in {"ok", "error"}
           /\ r.kind \in {"ok", "error"} => r # None /\ r # Activation
           /\ r = Activation => r.kind = "activation"
           /\ r = None => r.kind = "none"
BY DEF IsResult, None, Activation

LEMMA TopBelongs ==
    ASSUME Inv, Labelled, ~astray, Running
    PROVE  /\ stack # << >> /\ Ordered(stack, frames) /\ OwnError(Top) /\ Arrives(res, Top, frames)
           /\ IsResult(res)
           /\ Len(stack) > 1 =>
                /\ Linked(Last(Below), Top, frames) /\ ~Has(Last(Below), "activated")
                /\ Below # << >> /\ Ordered(Below, frames)
<1>1. stack # << >> /\ IsResult(res)
  BY DEF Inv, Sound
<1>2. Ordered(stack, frames) /\ Arrives(res, Top, frames)
  BY <1>1 DEF Labelled
<1>3. Ordered(Below, frames)
  BY <1>1, <1>2, OrderedPop DEF Below
<1> DEFINE s == stack
<1>4. s # << >> /\ Ordered(s, frames)
  BY <1>1, <1>2
<1> HIDE DEF s
<1> QED BY <1>1, <1>2, <1>3, <1>4, OrderedTop DEF s, Top, Below

(* What is on the driver, or the main loop, belongs to the newest frame.   *)
LEMMA OverDriver ==
    ASSUME Inv, Running,
           \/ Top.kind = "loop" /\ Top.by \in {"target", "resume"}
           \/ Top.kind = "handler" /\ Top.cont # None
    PROVE  Len(stack) > 1 /\ Last(Below) = Driver /\ IsStack(Below) /\ Below # << >>
<1> DEFINE s == stack
           a == Last(s)
<1>1. s # << >> /\ WellStacked(s) /\ IsStack(s)
  BY DEF Inv, Sound, WellStacked
<1>2. \/ a.kind = "loop" /\ a.by \in {"target", "resume"}
      \/ a.kind = "handler" /\ a.cont # None
  BY DEF Top
<1> HIDE DEF s, a
<1>3. Len(s) = 2 /\ s[1] = Driver
  BY <1>1, <1>2, TopShapes DEF a
<1>4. IsStack(Front(s)) /\ Len(Front(s)) = Len(s) - 1 /\ \A i \in 1 .. Len(s) - 1 : Front(s)[i] = s[i]
  BY <1>1, PopFacts
<1> DEFINE f == Front(s)
<1>5. IsStack(f) /\ Len(f) = 1 /\ f[1] = Driver
  BY <1>3, <1>4
<1> HIDE DEF f
<1>6. f # << >> /\ Last(f) = f[Len(f)]
  <2>1. Last(f) = f[Len(f)] /\ (f = << >> <=> Len(f) = 0)
    BY <1>5, StackFacts, Zenon
  <2> QED BY <1>5, <2>1
<1> QED BY <1>3, <1>5, <1>6 DEF f, s, Below

LEMMA BelongsToDriver ==
    ASSUME Inv, Charged, Labelled, ~astray, Running, Top.kind = "loop", Top.by # "call"
    PROVE  frames # << >> => Top.catch = Last(frames).req.call
<1>1. Top.by \in {"main", "target", "resume"}
  BY LoopOnTop DEF IsLoop
<1>2. CASE Top.by = "main"
  BY <1>2, TopDepth, FramesCount
<1>3. CASE Top.by \in {"target", "resume"}
  BY <1>3, OverDriver, TopBelongs DEF Linked, Meets, Driver
<1> QED BY <1>1, <1>2, <1>3

LEMMA LoopReceivesLabelled ==
    ASSUME Inv, Charged, Labelled, LoopReceives
    PROVE  Labelled'
<1>1. /\ Running /\ Top.kind = "loop" /\ Top.status = "busy" /\ res # None
      /\ frames' = frames /\ request' = request /\ delivered' = delivered /\ (astray => astray')
      /\ ~astray' => res # Activation \/ Top.by # "call"
  BY DEF LoopReceives, Returning
<1>2. Top.err = None /\ IsResult(res)
  BY <1>1, LoopOnTop
<1>3. CASE res.kind = "ok"
  <2>1. stack' = WithTop([Top EXCEPT !.status = "run"]) /\ res' = None
    BY <1>3 DEF LoopReceives
  <2>2. stack' = WithTop(Revised(Top, Top.scopes, "run", None))
    BY <1>1, <1>2, <2>1, TopAsIs, Zenon
  <2>3. ~astray' => Placed(stack', res', frames)
    BY <1>1, <2>1, <2>2, RunsOn
  <2> QED BY <1>1, <2>3, QuietStep
<1>4. CASE res.kind # "ok"
  <2>1. stack' = WithTop([Top EXCEPT !.status = "leave"]) /\ res' = res
    BY <1>4 DEF LoopReceives
  <2> DEFINE b == Revised(Top, Top.scopes, "leave", None)
  <2>2. stack' = WithTop(b)
    BY <1>1, <1>2, <2>1, TopAsIs, Zenon
  <2>3. CASE res # Activation
    BY <1>1, <1>2, <1>4, <2>3, ResultKinds, TopBelongs, <2>1, <2>2, RunsOn, QuietStep DEF Arrives, Meets
  <2>4. CASE res = Activation
    <3> SUFFICES ASSUME ~astray' PROVE Labelled'
      BY DEF Labelled
    <3>1. ~astray /\ Top.by # "call"
      BY <1>1, <2>4
    <3>2. Ordered(stack', frames) /\ stack' # << >> /\ Last(stack') = b
      BY <1>1, <2>2, <3>1, LoopPlaced DEF None
    <3>3. b.kind = "loop" /\ b.by = Top.by /\ b.status = "leave" /\ b.err = None
      BY RevisedFields
    <3>4. captured' = Revised(Top, Top.scopes, "run", None)
      <4>1. captured' = [Top EXCEPT !.status = "run"]
        BY <2>4 DEF LoopReceives
      <4>2. [Top EXCEPT !.status = "run"] = Revised(Top, Top.scopes, "run", None)
        BY <1>1, <1>2, TopAsIs, Zenon
      <4> QED BY <4>1, <4>2
    <3>5. request # None /\ Top.id = request.caller
      BY <2>4, <3>1, <1>1 DEF Labelled, Asking
    <3> HIDE DEF b
    <3>6. Caught'
      BY <1>1, <3>1, BelongsToDriver, <3>5, <3>4, RevisedFields DEF None, Caught
    <3>7. Top' = b /\ ~Has(b, "activated")
      BY <3>2, <3>3, NotActivation DEF Top, Has
    <3>8. Asking'
      BY <3>1, <3>3, <3>6, <3>7 DEF Asking
    <3>9. Arrives(res', Top', frames')
      BY <2>1, <2>4 DEF Arrives, Activation
    <3>10. Ordered(stack', frames') /\ FramesLinked' /\ OutcomeIsTheTargets'
      BY <1>1, <3>1, <3>2 DEF Labelled, FramesLinked, OutcomeIsTheTargets
    <3>11. ~Has(Top', "activated")
      BY <3>7
    <3> QED BY <3>8, <3>9, <3>10, <3>11 DEF Labelled
  <2> QED BY <2>3, <2>4
<1> QED BY <1>3, <1>4

(* The activation on top is gone, and its result is for the one below.     *)
LEMMA GoesDown ==
    ASSUME Inv, Labelled, ~astray, Running, Len(stack) > 1, NEW r, r # Activation,
           Arrives(r, Last(Below), frames)
    PROVE  Placed(Below, r, frames)
BY TopBelongs DEF Placed

LEMMA AboveBottom ==
    ASSUME Inv, Running,
           \/ Top.kind \in {"native", "fallback", "handler"}
           \/ Top.kind = "loop" /\ Top.by # "main"
    PROVE  Len(stack) > 1
<1> DEFINE s == stack
           a == Last(s)
<1>1. s # << >> /\ WellStacked(s)
  BY DEF Inv, Sound
<1>2. \/ a.kind \in {"native", "fallback", "handler"}
      \/ a.kind = "loop" /\ a.by # "main"
  BY DEF Top
<1> HIDE DEF s, a
<1>3. Len(s) \in Nat \ {0}
  BY <1>1, TopFits
<1>4. Len(s) # 1
  BY <1>1, <1>2, TopShapes DEF a
<1> DEFINE k == Len(s)
<1>5. k \in Nat \ {0} /\ k # 1
  BY <1>3, <1>4
<1> HIDE DEF k
<1>6. k > 1
  BY <1>5
<1> QED BY <1>6 DEF k, s

(* An activation arrives at the driver.                                    *)
LEMMA ReachesDriver ==
    ASSUME Inv, Labelled, ~astray', ~astray, Running, Top.kind = "loop", Top.by \in {"target", "resume"}, Caught,
           stack' = Below, res' = Activation,
           frames' = frames, request' = request, captured' = captured, delivered' = delivered
    PROVE  Labelled'
<1>1. Ordered(stack', frames') /\ stack' # << >> /\ Top' = Driver
  BY TopBelongs, OverDriver DEF Top
<1>2. Asking'
  BY <1>1 DEF Asking, Caught, Driver
<1>3. ~Has(Top', "activated") /\ Arrives(res', Top', frames')
  BY <1>1 DEF Has, Driver, Arrives, Activation
<1>4. FramesLinked' /\ OutcomeIsTheTargets'
  BY DEF Labelled, FramesLinked, OutcomeIsTheTargets
<1> QED BY <1>1, <1>2, <1>3, <1>4 DEF Labelled

LEMMA LoopLeavesLabelled ==
    ASSUME Inv, Labelled, LoopLeaves
    PROVE  Labelled'
<1>1. /\ Running /\ Top.kind = "loop" /\ Top.by # "main" /\ Top.status = "leave" /\ res # None
      /\ frames' = frames /\ request' = request /\ captured' = captured /\ closing' = closing
      /\ delivered' = delivered /\ (astray => astray')
  BY Zenon DEF LoopLeaves, Returning, Events
<1>2. /\ Unwinds(Top) => /\ stack' = WithTop([Top EXCEPT !.status = "unwind", !.err = res]) /\ res' = None
                         /\ ~astray' => ~(res = Activation /\ Len(closing) > Top.marker)
      /\ ~Unwinds(Top) => stack' = Below /\ res' = res
  BY Zenon DEF LoopLeaves
<1> SUFFICES ASSUME ~astray' PROVE Labelled'
  BY DEF Labelled
<1>3. ~astray
  BY <1>1
<1>4. Arrives(res, Top, frames) /\ IsResult(res)
  BY <1>1, <1>3, TopBelongs
<1>5. res = Activation \/ res.kind \in {"ok", "error"}
  BY <1>1, <1>4, ResultKinds
<1>6. Len(stack) > 1
  BY <1>1, AboveBottom
<1>7. res.kind \in {"ok", "error"} => res.to = Top.catch
  BY <1>1, <1>4 DEF Arrives, Meets
<1> DEFINE b == Revised(Top, Top.scopes, "unwind", res)
<1>8. [Top EXCEPT !.status = "unwind", !.err = res] = b
  BY <1>1, TopAsIs, Zenon
<1>9. /\ Ordered(WithTop(b), frames) /\ WithTop(b) # << >> /\ Last(WithTop(b)) = b
  BY <1>1, <1>3, <1>7, LoopPlaced
<1>10. b.kind = "loop" /\ b.by = Top.by /\ b.catch = Top.catch /\ b.err = res /\ b.status = "unwind" /\ b.marker = Top.marker
  BY RevisedFields
<1> HIDE DEF b
<1>11. Unwinds(Top) => stack' = WithTop(b) /\ res' = None
  BY <1>2, <1>8
<1>12. CASE res.kind = "error"
  BY <1>11, <1>12, <1>4, ResultKinds, <1>10, NotActivation, <1>9, <1>1, QuietStep DEF Unwinds, Has, Arrives,
     None, Placed
<1>13. CASE res.kind = "ok"
  <2>1. res # Activation
    BY <1>4, <1>13, ResultKinds
  <2>2. stack' = Below /\ res' = res
    BY <1>2, <1>13, <2>1 DEF Unwinds
  <2>3. Linked(Last(Below), Top, frames)
    BY <1>1, <1>3, <1>6, TopBelongs
  <2>4. Arrives(res, Last(Below), frames)
    BY <1>1, <1>7, <1>13, <2>3 DEF Linked, Arrives
  <2>5. Placed(stack', res', frames)
    BY <1>1, <1>3, <1>6, <2>1, <2>2, <2>4, GoesDown
  <2> QED BY <1>1, <2>5, QuietStep
<1>14. CASE res = Activation
  <2>1. Caught /\ Top.by # "call"
    BY <1>3, <1>14, <1>1 DEF Labelled, Asking
  <2>2. Top.by \in {"target", "resume"}
    BY <1>1, LoopOnTop, <2>1 DEF IsLoop
  <2>3. CASE Top.by = "resume"
    <3>1. Unwinds(Top)
      BY <1>14, <2>3 DEF Unwinds
    <3>2. stack' = WithTop(b) /\ res' = None /\ ~(Len(closing) > Top.marker)
      BY <1>2, <1>11, <1>14, <3>1
    <3>3. Top' = b
      BY <1>9, <3>2 DEF Top
    <3>4. Caught'
      BY <1>1, <2>1 DEF Caught
    <3>5. AsksAgain'
      BY <1>1, <1>10, <3>2, <3>3, <2>3, <3>4 DEF AsksAgain
    <3>6. Arrives(res', Top', frames') /\ res' # Activation
      BY <3>2, NotActivation DEF Arrives, None
    <3> QED BY <3>5, <3>6, <1>1, <1>3, <1>9, <3>2 DEF Labelled, FramesLinked, OutcomeIsTheTargets
  <2>4. CASE Top.by = "target"
    BY <1>14, <2>4, <1>2, <1>1, <1>3, <2>1, <2>2, ReachesDriver DEF Unwinds, Activation
  <2> QED BY <2>2, <2>3, <2>4
<1> QED BY <1>5, <1>12, <1>13, <1>14

LEMMA NativeReturnsLabelled ==
    ASSUME Inv, Labelled, NativeReturns
    PROVE  Labelled'
<1>1. /\ Running /\ Top.kind = "native" /\ res # None /\ stack' = Below
      /\ frames' = frames /\ delivered' = delivered /\ (astray => astray')
      /\ ~astray' => res' = res
  BY DEF NativeReturns, Returning, Events
<1>2. ASSUME ~astray' PROVE Placed(stack', res', frames)
  <2>1. ~astray /\ Len(stack) > 1
    BY <1>1, <1>2, AboveBottom
  <2>2. res # Activation
    BY <2>1, <1>1 DEF Labelled, Asking
  <2>3. Arrives(res, Last(Below), frames)
    BY <1>1, <2>1, TopBelongs DEF Arrives, Linked, Meets
  <2> QED BY <1>1, <1>2, <2>1, <2>2, <2>3, GoesDown
<1> QED BY <1>1, <1>2, QuietStep

(* A message handler starts on s.                                          *)
LEMMA HandlerPlaced ==
    ASSUME NEW s, NEW fs, Ordered(s, fs), NEW a, a.kind = "handler",
           s # << >> => Linked(Last(s), a, fs) /\ ~Has(Last(s), "activated"),
           NEW id, NEW catch, NEW depth, NEW marker, NEW s2,
           Handled(s, s2, a, id, catch, depth, marker)
    PROVE  Placed(s2, None, fs)
<1> DEFINE b == NewLoop("call", id, catch, 1 + Min({depth, CallLimit - 1}), marker)
           u == Append(s, a)
           z == Last(s)
<1>1. s2 = Append(u, b)
  BY PushTwice DEF Handled, Ordered
<1>2. b.kind = "loop" /\ b.err = None
  BY DEF NewLoop
<1> HIDE DEF b
<1>3. OwnError(a) /\ ~Has(a, "activated") /\ OwnError(b) /\ ~Has(b, "activated") /\ Linked(a, b, fs)
  BY <1>2, NotActivation DEF OwnError, Has, Linked, Meets, None
<1>4. s # << >> => Linked(z, a, fs) /\ ~Has(z, "activated")
  OBVIOUS
<1>5. Ordered(u, fs) /\ u # << >> /\ Last(u) = a
  BY <1>3, <1>4, OrderedPush
<1> HIDE DEF u
<1>6. Ordered(s2, fs) /\ s2 # << >> /\ Last(s2) = b
  BY <1>1, <1>3, <1>5, OrderedPush
<1>7. Arrives(None, b, fs) /\ None # Activation
  BY NotActivation DEF Arrives, None
<1> QED BY <1>3, <1>6, <1>7 DEF Placed

(* The driver runs a on nothing else.                                      *)
LEMMA OnDriverPlaced ==
    ASSUME NEW fs, NEW a, OwnError(a), Linked(Driver, a, fs), ~Has(a, "activated")
    PROVE  /\ Ordered(<<Driver>>, fs) /\ <<Driver>> # << >> /\ Last(<<Driver>>) = Driver
           /\ ~Has(Driver, "activated")
           /\ Placed(<<Driver, a>>, None, fs)
<1> DEFINE d == Driver
           e == << >>
           s == <<d>>
<1>1. d.kind = "driver"
  BY DEF Driver
<1> HIDE DEF d
<1>2. OwnError(d) /\ ~Has(d, "activated")
  BY <1>1 DEF OwnError, Has
<1>3. Ordered(e, fs)
  <2>1. IsStack(e) /\ Len(e) = 0
    BY EmptyStack
  <2> HIDE DEF e
  <2> QED BY <2>1 DEF Ordered
<1>4. s = Append(e, d)
  BY SingleStack
<1>5. Ordered(s, fs) /\ s # << >> /\ Last(s) = d
  BY <1>4, <1>2, <1>3, OrderedPush
<1>6. <<d, a>> = Append(s, a)
  BY DoubleStack
<1> HIDE DEF s
<1>7. Linked(d, a, fs)
  BY DEF d
<1>8. Arrives(None, a, fs) /\ None # Activation
  BY NotActivation DEF Arrives, None
<1>9. Placed(<<d, a>>, None, fs)
  BY <1>6, <1>8, <1>2, <1>5, <1>7, OrderedPush DEF Placed
<1> QED BY <1>2, <1>5, <1>9 DEF d, s

LEMMA ContinuationPlaced ==
    ASSUME NEW c, IsCont(c), NEW fs, fs # << >> => c.catch = Last(fs).req.call
    PROVE  Placed(<<Driver, [c EXCEPT !.by = "resume"]>>, None, fs)
<1> DEFINE b == [c EXCEPT !.by = "resume"]
<1>1. IsLoop(c) /\ c.err = None
  BY DEF IsCont, IsLoop
<1>2. b.kind = "loop" /\ b.by = "resume" /\ b.catch = c.catch /\ b.err = None
  BY <1>1 DEF IsLoop
<1> HIDE DEF b
<1>3. OwnError(b) /\ ~Has(b, "activated")
  BY <1>2, NotActivation DEF OwnError, Has, None
<1>4. Linked(Driver, b, fs)
  BY <1>2 DEF Linked, Meets, Driver
<1>5. Placed(<<Driver, b>>, None, fs)
  BY <1>3, <1>4, OnDriverPlaced
<1> QED BY <1>5 DEF b

LEMMA FallbackReturnsLabelled ==
    ASSUME Inv, Labelled, FallbackReturns
    PROVE  Labelled'
<1> DEFINE a == HandlerRecord(Top.call, Top.caller, None, Top.native, Top.depth)
<1>1. /\ Running /\ res # None /\ Top.kind = "fallback" /\ frames' = frames /\ (astray => astray')
      /\ ~astray' => \/ res = Activation
                     \/ StartHandler(Below, a, Top.depth) /\ delivered' = delivered
                     \/ stack' = Below /\ res' = Ok(Top.call) /\ Deliver(Top.call, Top.caller, Last(Below).id, res)
  BY Zenon DEF FallbackReturns, Returning
<1> SUFFICES ASSUME ~astray' PROVE Labelled'
  BY DEF Labelled
<1>2. ~astray /\ Len(stack) > 1
  BY <1>1, AboveBottom
<1>3. /\ Arrives(res, Top, frames) /\ IsResult(res) /\ Linked(Last(Below), Top, frames)
      /\ Ordered(Below, frames) /\ ~Has(Last(Below), "activated")
  BY <1>1, <1>2, TopBelongs
<1>4. res # Activation
  BY <1>2, <1>1 DEF Labelled, Asking
<1>5. Last(Below).kind = "loop" /\ Last(Below).status = "busy" /\ Last(Below).id = Top.caller
  BY <1>1, <1>3 DEF Linked
<1>6. CASE StartHandler(Below, a, Top.depth) /\ delivered' = delivered
  <2> DEFINE s == Below
             d == Top.depth
             id == Fresh
             catch == a.call
             m == Len(closing)
  <2>1. a.kind = "handler" /\ a.cont = None /\ a.caller = Top.caller
    BY DEF HandlerRecord
  <2>2. Handled(s, stack', a, id, catch, d, m) /\ res' = None
    BY <1>6 DEF StartHandler, Handled
  <2> HIDE DEF a
  <2>3. Linked(Last(s), a, frames)
    BY <1>5, <2>1 DEF Linked
  <2>4. Ordered(s, frames) /\ ~Has(Last(s), "activated")
    BY <1>3
  <2> HIDE DEF s, d, id, catch, m
  <2>5. Placed(stack', res', frames)
    BY <2>1, <2>2, <2>3, <2>4, HandlerPlaced
  <2> QED BY <1>1, <1>6, <2>5, QuietStep
<1>7. CASE stack' = Below /\ res' = Ok(Top.call) /\ Deliver(Top.call, Top.caller, Last(Below).id, res)
  <2>1. res' # Activation /\ res'.kind = "ok"
    BY <1>7, NotActivation DEF Ok
  <2>2. Arrives(res', Last(Below), frames)
    BY <1>5, <2>1 DEF Arrives
  <2>3. Placed(Below, res', frames)
    BY <1>1, <1>2, <2>1, <2>2, GoesDown
  <2>4. res.kind \in {"ok", "error"}
    BY <1>1, <1>3, <1>4, ResultKinds
  <2>5. res.to = Top.call
    BY <1>1, <1>3, <2>4 DEF Arrives, Meets
  <2>6. OutcomeIsTheTargets'
    BY <1>7, <1>5, <2>5 DEF Deliver, OutcomeIsTheTargets
  <2> QED BY <1>1, <1>7, <2>3, <2>6, QuietStep
<1> QED BY <1>1, <1>4, <1>6, <1>7

LEMMA HandlerReturnsLabelled ==
    ASSUME Inv, Labelled, HandlerReturns
    PROVE  Labelled'
<1> DEFINE a == CountError(Top)
<1>1. /\ Running /\ res # None /\ Top.kind = "handler" /\ frames' = frames /\ astray' = astray
      /\ \/ StartHandler(Below, a, Top.depth) /\ delivered' = delivered
         \/ /\ Top.cont = None /\ stack' = Below /\ res' = Ok(Top.call)
            /\ Deliver(Top.call, Top.caller, Last(Below).id, Raised(Top.call))
         \/ /\ Top.cont # None /\ Resume(Top.cont)
            /\ Deliver(Top.call, Top.caller, Top.cont.id, Raised(Top.call))
  BY Zenon DEF HandlerReturns, Returning, Events
<1> SUFFICES ASSUME ~astray' PROVE Labelled'
  BY DEF Labelled
<1>2. ~astray /\ Len(stack) > 1
  BY <1>1, AboveBottom
<1>3. /\ Linked(Last(Below), Top, frames)
      /\ Ordered(Below, frames) /\ ~Has(Last(Below), "activated")
  BY <1>1, <1>2, TopBelongs
<1>4. IsHandler(Top)
  BY <1>1, TopShapes DEF Inv, Sound, Top
<1>5. Raised(Top.call).to = Top.call
  BY DEF Raised
<1>6. CASE StartHandler(Below, a, Top.depth) /\ delivered' = delivered
  <2> DEFINE s == Below
             d == Top.depth
             t == Top
             id == Fresh
             catch == a.call
             m == Len(closing)
  <2>1. a = [t EXCEPT !.errors = t.errors + 1]
    BY DEF CountError
  <2>2. Handled(s, stack', a, id, catch, d, m) /\ res' = None
    BY <1>6 DEF StartHandler, Handled
  <2>3. IsHandler(t) /\ t.kind = "handler" /\ Linked(Last(s), t, frames)
    BY <1>1, <1>3, <1>4
  <2> HIDE DEF a, t
  <2>4. a.kind = "handler" /\ a.cont = t.cont /\ a.caller = t.caller
    BY <2>1, <2>3 DEF IsHandler
  <2>5. Linked(Last(s), a, frames)
    BY <2>3, <2>4 DEF Linked
  <2>6. Ordered(s, frames) /\ ~Has(Last(s), "activated")
    BY <1>3
  <2> HIDE DEF s, d, id, catch, m
  <2>7. Placed(stack', res', frames)
    BY <2>2, <2>4, <2>5, <2>6, HandlerPlaced
  <2> QED BY <1>1, <1>6, <2>7, QuietStep
<1>7. CASE /\ Top.cont = None /\ stack' = Below /\ res' = Ok(Top.call)
           /\ Deliver(Top.call, Top.caller, Last(Below).id, Raised(Top.call))
  <2>1. res' # Activation /\ res'.kind = "ok"
    BY <1>7, NotActivation DEF Ok
  <2>2. Last(Below).kind = "loop" /\ Last(Below).status = "busy" /\ Last(Below).id = Top.caller
    BY <1>1, <1>3, <1>7 DEF Linked
  <2>3. Arrives(res', Last(Below), frames)
    BY <2>1, <2>2 DEF Arrives
  <2>4. Placed(Below, res', frames)
    BY <1>1, <1>2, <2>1, <2>3, GoesDown
  <2>5. OutcomeIsTheTargets'
    BY <1>7, <1>5, <2>2 DEF Deliver, OutcomeIsTheTargets
  <2> QED BY <1>1, <1>7, <2>4, <2>5, QuietStep
<1>8. CASE /\ Top.cont # None /\ Resume(Top.cont)
           /\ Deliver(Top.call, Top.caller, Top.cont.id, Raised(Top.call))
  <2>1. IsCont(Top.cont)
    BY <1>4, <1>8 DEF IsHandler
  <2>2. Top.cont.id = Top.caller /\ (frames # << >> => Top.cont.catch = Last(frames).req.call)
    BY <1>1, <1>3, <1>8 DEF Linked
  <2>3. Placed(stack', res', frames)
    BY <2>1, <2>2, ContinuationPlaced, <1>8 DEF Resume
  <2>4. OutcomeIsTheTargets'
    BY <1>8, <1>5, <2>2 DEF Deliver, OutcomeIsTheTargets
  <2> QED BY <1>1, <2>3, <2>4, QuietStep
<1> QED BY <1>1, <1>6, <1>7, <1>8

-----------------------------------------------------------------------------
(* Values are closed                                                       *)

LEMMA CloseNextLabelled ==
    ASSUME Inv, Labelled, CloseNext
    PROVE  Labelled'
<1> DEFINE depth == IF Top.by = "target" /\ Top.status = "unwind" THEN Top.depth - BaseDepth + 1 ELSE Top.depth
           id == Fresh
           m == Len(closing) - 1
           s == stack
<1>1. /\ Running /\ res = None /\ Top.kind = "loop" /\ CallGuest(s, id, Top.catch, depth, m)
      /\ Len(closing) > Top.marker
      /\ frames' = frames /\ astray' = astray /\ delivered' = delivered
  BY Zenon DEF CloseNext, Events
<1>2. Called(s, stack', res', id, Top.catch, depth, m)
  BY <1>1 DEF CallGuest, Called
<1>3. ASSUME ~astray PROVE Placed(stack', res', frames)
  <2>1. Ordered(s, frames) /\ s # << >>
    BY <1>1, <1>3, TopBelongs
  <2>2. ~Has(Last(s), "activated")
    BY <1>3, <2>1, <1>1 DEF Labelled, AsksAgain, Top
  <2>3. Meets(Top.catch, Last(s), frames)
    BY <1>1 DEF Meets, Top
  <2> HIDE DEF depth, id, m, s
  <2> QED BY <1>2, <2>1, <2>2, <2>3, GuestCallPlaced
<1> QED BY <1>1, <1>3, QuietStep

LEMMA CloseHandledLabelled ==
    ASSUME Inv, Labelled, CloseHandled
    PROVE  Labelled'
<1>1. /\ Running /\ res # None /\ Top.kind = "loop" /\ Top.status \in {"unwind", "closing"}
      /\ stack' = WithTop(IF res.kind = "ok" THEN Top ELSE [Top EXCEPT !.err = res])
      /\ res' = None
      /\ frames' = frames /\ astray' = astray /\ delivered' = delivered
  BY DEF CloseHandled, Returning, Events, Ghosts
<1>2. ASSUME ~astray PROVE Placed(stack', res', frames)
  <2>1. Arrives(res, Top, frames) /\ IsResult(res) /\ OwnError(Top) /\ stack # << >>
    BY <1>1, <1>2, TopBelongs
  <2>2. res # Activation
    BY <1>2, <1>1 DEF Labelled, Asking
  <2>3. Top.err # Activation
    BY <1>2, <2>1, <1>1 DEF Labelled, AsksAgain, Has
  <2>4. IsLoop(Top)
    BY <1>1, LoopOnTop
  <2>5. [Top EXCEPT !.err = res] = Revised(Top, Top.scopes, Top.status, res)
    BY <1>1, TopAsIs, Zenon
  <2>6. PICK e \in {Top.err, res} : stack' = WithTop(Revised(Top, Top.scopes, Top.status, e))
    BY <1>1, <2>5, <2>4 DEF IsLoop, Revised
  <2>7. e # Activation
    BY <2>2, <2>3
  <2>8. Top.by # "main" /\ e.kind \in {"ok", "error"} => e.to = Top.catch
    <3>1. CASE e = Top.err
      BY <1>1, <2>1, <3>1 DEF OwnError
    <3>2. CASE e = res
      BY <1>1, <2>1, <3>2 DEF Arrives, Meets
    <3> QED BY <3>1, <3>2
  <2> DEFINE b == Revised(Top, Top.scopes, Top.status, e)
  <2>9. Ordered(stack', frames) /\ stack' # << >> /\ Last(stack') = b
    BY <1>1, <1>2, <2>6, <2>8, LoopPlaced
  <2>10. b.err = e
    BY RevisedFields
  <2> HIDE DEF b
  <2> QED BY <2>9, <1>1, <2>7, <2>10, NotActivation DEF Placed, Has, Arrives, None
<1> QED BY <1>1, <1>2, QuietStep

LEMMA CloseDoneLabelled ==
    ASSUME Inv, Labelled, CloseDone
    PROVE  Labelled'
<1>1. /\ Running /\ res = None /\ Top.kind = "loop" /\ Top.status \in {"unwind", "closing"}
      /\ frames' = frames /\ request' = request /\ captured' = captured
      /\ astray' = astray /\ delivered' = delivered
  BY DEF CloseDone, Events, Ghosts
<1> SUFFICES ASSUME ~astray' PROVE Labelled'
  BY DEF Labelled
<1>2. ~astray
  BY <1>1
<1>3. /\ OwnError(Top) /\ stack # << >> /\ Ordered(stack, frames)
      /\ Len(stack) > 1 => Linked(Last(Below), Top, frames)
  BY <1>1, <1>2, TopBelongs
<1>4. Has(Top, "activated") => AsksAgain
  BY <1>2, <1>3 DEF Labelled
<1>5. IsLoop(Top) /\ IsResult(Top.err)
  BY <1>1, LoopOnTop
<1>6. CASE Top.status = "unwind" /\ Len(stack) = 1
  <2>1. stack' = << >> /\ res' = None
    BY <1>6 DEF CloseDone
  <2>2. Ordered(stack', frames')
    BY <2>1, EmptyStack DEF Ordered
  <2>3. res' # Activation
    BY <2>1, NotActivation
  <2>4. FramesLinked' /\ OutcomeIsTheTargets'
    BY <1>1, <1>2 DEF Labelled, FramesLinked, OutcomeIsTheTargets
  <2> QED BY <2>1, <2>2, <2>3, <2>4 DEF Labelled
<1>7. CASE Top.status = "unwind" /\ Len(stack) # 1
  <2>1. stack' = Below /\ res' = Top.err
    BY <1>7 DEF CloseDone
  <2>2. Len(stack) > 1
    <3> DEFINE k == Len(stack)
    <3>1. k \in Nat \ {0} /\ k # 1
      BY <1>3, <1>7, StackFacts DEF Ordered
    <3> HIDE DEF k
    <3>2. k > 1
      BY <3>1
    <3> QED BY <3>2 DEF k
  <2>3. CASE Top.err = Activation
    BY <1>1, <1>4, <2>3, <1>2, <2>1, ReachesDriver DEF Has, AsksAgain
  <2>4. CASE Top.err # Activation
    <3>1. Arrives(Top.err, Last(Below), frames)
      <4>1. SUFFICES ASSUME Top.err.kind \in {"ok", "error"} PROVE Meets(Top.err.to, Last(Below), frames)
        BY DEF Arrives
      <4>2. Top.by # "main"
        BY <1>1, LoopOnTop, <1>3, <1>7, TopShapes DEF Top
      <4>3. Top.err.to = Top.catch
        BY <1>1, <1>3, <4>1, <4>2 DEF OwnError
      <4> QED BY <1>1, <1>3, <2>2, <4>3 DEF Linked
    <3>2. Placed(Below, Top.err, frames)
      BY <1>1, <1>2, <2>2, <2>4, <3>1, GoesDown
    <3> QED BY <1>1, <2>1, <3>2, QuietStep
  <2> QED BY <2>3, <2>4
<1>8. CASE Top.status = "closing" /\ Top.err = None
  BY <1>8, <1>1, <1>2, ReturnFramePlaced, QuietStep DEF CloseDone
<1>9. CASE Top.status = "closing" /\ Top.err # None
  <2> DEFINE b == Revised(Top, Top.scopes, "leave", Top.err)
  <2>1. stack' = WithTop([Top EXCEPT !.status = "leave"]) /\ res' = Top.err
    BY <1>9 DEF CloseDone
  <2>2. stack' = WithTop(b)
    BY <1>1, <2>1, TopAsIs, Zenon
  <2>3. Top.err # Activation
    BY <1>1, <1>4, <1>9 DEF AsksAgain, Has
  <2>4. Top.by # "main" /\ Top.err.kind \in {"ok", "error"} => Top.err.to = Top.catch
    BY <1>1, <1>3 DEF OwnError
  <2>5. Ordered(stack', frames) /\ stack' # << >> /\ Last(stack') = b
    BY <1>1, <1>2, <2>2, <2>4, LoopPlaced
  <2>6. b.kind = "loop" /\ b.by = Top.by /\ b.catch = Top.catch /\ b.err = Top.err /\ b.status = "leave"
    BY RevisedFields
  <2> HIDE DEF b
  <2>7. Placed(stack', res', frames)
    BY <2>5, <2>1, <2>3, <2>4, <2>6 DEF Placed, Has, Arrives, Meets
  <2> QED BY <1>1, <2>7, QuietStep
<1> QED BY <1>1, <1>6, <1>7, <1>8, <1>9

-----------------------------------------------------------------------------
(* The driver                                                              *)

LEMMA PlacedStep ==
    ASSUME ~astray' => Placed(stack', res', frames') /\ FramesLinked' /\ OutcomeIsTheTargets'
    PROVE  Labelled'
<1> SUFFICES ASSUME ~astray'
             PROVE  /\ Ordered(stack', frames')
                    /\ FramesLinked'
                    /\ stack' # << >> => Arrives(res', Top', frames')
                    /\ stack' # << >> /\ Has(Top', "activated") => AsksAgain'
                    /\ res' = Activation => Asking'
                    /\ OutcomeIsTheTargets'
  BY Zenon DEF Labelled
<1>1. Placed(stack', res', frames') /\ FramesLinked' /\ OutcomeIsTheTargets'
  OBVIOUS
<1>2. Ordered(stack', frames') /\ stack' # << >> /\ Arrives(res', Last(stack'), frames')
      /\ ~Has(Last(stack'), "activated") /\ res' # Activation
  BY <1>1 DEF Placed
<1> QED BY <1>1, <1>2 DEF Top

LEMMA AloneOrdered ==
    ASSUME NEW b, OwnError(b), NEW fs
    PROVE  Ordered(<<b>>, fs) /\ <<b>> # << >> /\ Last(<<b>>) = b
<1> DEFINE e == << >>
<1>1. Ordered(e, fs)
  <2>1. IsStack(e) /\ Len(e) = 0
    BY EmptyStack
  <2> HIDE DEF e
  <2> QED BY <2>1 DEF Ordered
<1>2. <<b>> = Append(e, b)
  BY SingleStack
<1>3. Ordered(Append(e, b), fs) /\ Append(e, b) # << >> /\ Last(Append(e, b)) = b
  BY <1>1, OrderedPush
<1> QED BY <1>2, <1>3

LEMMA FinishLabelled ==
    ASSUME NEW r, r # Activation, NEW a, IsLoop(a), a.by = "main", Finish(r, a),
           Labelled, astray' = astray, delivered' = delivered
    PROVE  Labelled'
<1> SUFFICES ASSUME ~astray' PROVE Labelled'
  BY DEF Labelled
<1>1. frames' = << >> /\ res' = None
  BY DEF Finish
<1>2. FramesLinked' /\ OutcomeIsTheTargets'
  BY <1>1 DEF Labelled, FramesLinked, OutcomeIsTheTargets
<1> DEFINE b == [a EXCEPT !.status = "unwind", !.err = r]
<1>3. stack' = << >> \/ stack' = <<b>>
  BY DEF Finish
<1>4. CASE stack' = << >>
  BY <1>4, EmptyStack, <1>1, NotActivation, <1>2 DEF Ordered, Labelled
<1>5. CASE stack' = <<b>>
  <2>1. IsLoop(a)
    OBVIOUS
  <2>2. b = Revised(a, a.scopes, "unwind", r)
    <3>1. [a EXCEPT !.status = "unwind", !.err = r] = [[a EXCEPT !.status = "unwind"] EXCEPT !.err = r]
      OBVIOUS
    <3>2. [a EXCEPT !.status = "unwind"] = Revised(a, a.scopes, "unwind", a.err)
      BY ONLY <2>1, LoopUpdates, Zenon
    <3>3. [Revised(a, a.scopes, "unwind", a.err) EXCEPT !.err = r] = Revised(a, a.scopes, "unwind", r)
      BY DEF Revised
    <3> QED BY ONLY <3>1, <3>2, <3>3
  <2> HIDE DEF b
  <2>3. b.kind = "loop" /\ b.by = "main" /\ b.err = r
    <3> DEFINE e == Revised(a, a.scopes, "unwind", r)
    <3>1. e.kind = "loop" /\ e.by = a.by /\ e.err = r
      BY RevisedFields
    <3> HIDE DEF e
    <3>2. b = e
      BY <2>2 DEF e
    <3> QED BY <3>1, <3>2
  <2>4. OwnError(b) /\ ~Has(b, "activated")
    BY <2>3 DEF OwnError, Has
  <2>5. Arrives(res', b, frames') /\ res' # Activation
    BY <1>1, NotActivation DEF Arrives, None
  <2>6. Placed(stack', res', frames')
    BY <2>4, <2>5, <1>5, AloneOrdered DEF Placed
  <2> QED BY <1>2, <2>6, PlacedStep
<1> QED BY <1>3, <1>4, <1>5

(* The driver starts, or refuses, the target of a request.                 *)
LEMMA ActivatedLabelled ==
    ASSUME Inv, Labelled, ~astray, Caught, Activated, delivered' = delivered
    PROVE  Labelled'
<1> DEFINE g == [cont |-> captured, req |-> request]
           fs == frames
           n == Len(frames)
<1>1. frames' = Append(fs, g) /\ RunTarget(request)
  BY DEF Activated
<1>2. /\ IsStack(fs) /\ n \in Nat /\ (fs # << >> <=> n # 0) /\ Last(fs) = fs[n]
  BY StackFacts, FramesCount
<1>3. g.cont = captured /\ g.req = request
  OBVIOUS
<1> DEFINE gs == Append(fs, g)
<1> HIDE DEF g
<1>4. IsStack(gs) /\ Len(gs) = n + 1 /\ gs[n + 1] = g /\ \A i \in 1 .. n : gs[i] = fs[i]
  BY <1>2, PushFacts
<1>5. gs # << >> /\ Last(gs) = g
  BY <1>2, LastPushed
<1>6. \A i \in 1 .. n : /\ fs[i].cont.id = fs[i].req.caller
                        /\ i > 1 => fs[i].cont.catch = fs[i - 1].req.call
  BY DEF Labelled, FramesLinked
<1>7. captured.id = request.caller /\ (fs # << >> => captured.catch = fs[n].req.call)
  BY <1>2 DEF Caught
<1> DEFINE q == request
           p == captured
<1>8. frames' = gs
  BY <1>1
<1> HIDE DEF gs, fs, n
<1>9. ASSUME NEW i \in 1 .. n + 1
      PROVE  /\ gs[i].cont.id = gs[i].req.caller
             /\ i > 1 => gs[i].cont.catch = gs[i - 1].req.call
  <2>1. CASE i \in 1 .. n
    BY <1>2, <1>4, <2>1, <1>6
  <2>2. CASE i = n + 1
    BY <1>2, <1>4, <2>2, <1>3, <1>7
  <2> QED BY <1>2, <2>1, <2>2
<1>10. FramesLinked'
  BY <1>4, <1>8, <1>9 DEF FramesLinked
<1>11. Meets(q.call, Driver, gs)
  BY <1>3, <1>5 DEF Meets, Driver
<1>12. Placed(stack', res', gs)
  <2> DEFINE id == Fresh
             m == Len(closing)
             a == NewLoop("target", id, q.call, q.depth + BaseDepth, m)
  <2>1. \/ stack' = <<Driver>> /\ res' = CallLimitError(q.call)
        \/ stack' = <<Driver, a>> /\ res' = None
    BY <1>1 DEF RunTarget
  <2>2. a.kind = "loop" /\ a.catch = q.call /\ a.err = None
    BY DEF NewLoop
  <2> HIDE DEF a
  <2>3. /\ Ordered(<<Driver>>, gs) /\ <<Driver>> # << >> /\ Last(<<Driver>>) = Driver
        /\ ~Has(Driver, "activated")
        /\ Placed(<<Driver, a>>, None, gs)
    BY OnDriverPlaced, <1>11, <2>2, NotActivation DEF OwnError, Has, Linked, Driver, None
  <2>4. CASE stack' = <<Driver>> /\ res' = CallLimitError(q.call)
    BY <2>4, NotActivation, <1>11, <2>3 DEF CallLimitError, Arrives, Placed
  <2> QED BY <2>1, <2>3, <2>4
<1>13. OutcomeIsTheTargets'
  BY DEF Labelled, OutcomeIsTheTargets
<1> QED BY <1>8, <1>10, <1>12, <1>13, PlacedStep

LEMMA MainLeavesLabelled ==
    ASSUME Inv, Labelled, MainLeaves
    PROVE  Labelled'
<1>1. /\ Running /\ Top.kind = "loop" /\ Top.by = "main" /\ Top.status = "leave"
      /\ astray' = astray /\ delivered' = delivered
      /\ \/ res = Activation /\ Activated
         \/ Finish(Raised(0), Top)
         \/ res # Activation /\ Finish(res, Top)
  BY DEF MainLeaves, Returning, Ghosts
<1>2. IsLoop(Top)
  BY <1>1, LoopOnTop
<1>3. CASE res = Activation /\ Activated
  <2> SUFFICES ASSUME ~astray' PROVE Labelled'
    BY DEF Labelled
  <2>1. Asking /\ ~astray
    BY <1>1, <1>3 DEF Labelled
  <2>2. Caught
    BY <1>1, <2>1 DEF Asking
  <2> QED BY <1>1, <1>3, <2>1, <2>2, ActivatedLabelled
<1>4. CASE Finish(Raised(0), Top)
  BY <1>1, <1>2, <1>4, NotActivation, FinishLabelled
<1>5. CASE res # Activation /\ Finish(res, Top)
  BY <1>1, <1>2, <1>5, FinishLabelled
<1> QED BY <1>1, <1>3, <1>4, <1>5

LEMMA DriverActivatesLabelled ==
    ASSUME Inv, Labelled, DriverActivates
    PROVE  Labelled'
<1>1. /\ Running /\ Top.kind = "driver" /\ res = Activation
      /\ astray' = astray /\ delivered' = delivered
      /\ Activated \/ Finish(Raised(0), MainLoop)
  BY DEF DriverActivates, Returning, Ghosts
<1>2. CASE Activated
  <2> SUFFICES ASSUME ~astray' PROVE Labelled'
    BY DEF Labelled
  <2>1. Asking /\ ~astray
    BY <1>1 DEF Labelled
  <2>2. Caught
    BY <1>1, <2>1 DEF Asking
  <2> QED BY <1>1, <1>2, <2>1, <2>2, ActivatedLabelled
<1>3. CASE Finish(Raised(0), MainLoop)
  BY <1>1, <1>3, MainLoopShape, NotActivation, FinishLabelled
<1> QED BY <1>1, <1>2, <1>3

LEMMA DriverReceivesLabelled ==
    ASSUME Inv, Labelled, DriverReceives
    PROVE  Labelled'
<1> DEFINE f == InnermostFrame
           c == f.cont
           depth == f.req.depth + BaseDepth
           a == HandlerRecord(f.req.call, f.req.caller, c, FALSE, depth)
<1>1. /\ Running /\ Top.kind = "driver" /\ res # None /\ res # Activation /\ astray' = astray
  BY DEF DriverReceives, Returning
<1>2. Len(stack) = 1 /\ stack[1] = Driver /\ stack # << >>
  BY <1>1, DriverOnTop
<1>3. CASE frames = << >>
  BY <1>3, <1>1, MainLoopShape, FinishLabelled DEF DriverReceives
<1>4. CASE frames # << >>
  <2> SUFFICES ASSUME ~astray' PROVE Labelled'
    BY DEF Labelled
  <2>1. /\ frames' = Front(frames)
        /\ \/ StartHandler(stack, a, depth) /\ delivered' = delivered
           \/ Resume(c) /\ Deliver(f.req.call, f.req.caller, c.id, res)
    BY <1>4, Zenon DEF DriverReceives
  <2>2. IsStack(frames) /\ (\A i \in 1 .. Len(frames) : IsFrame(frames[i])) /\ ~astray
    BY <1>1 DEF Inv, Waiting
  <2>3. PICK n \in Nat \ {0} : n = Len(frames) /\ f = frames[n] /\ f = Last(frames)
    BY <1>4, <2>2, StackFacts DEF InnermostFrame
  <2>4. IsCont(c)
    <3>1. n \in 1 .. Len(frames) /\ f = frames[n]
      BY <2>3
    <3> HIDE DEF f
    <3>2. IsFrame(f)
      BY <3>1, <2>2
    <3> QED BY <3>2 DEF IsFrame
  <2> DEFINE fs == frames
             gs == Front(fs)
  <2>5. Len(gs) = n - 1 /\ IsStack(gs) /\ \A i \in 1 .. n - 1 : gs[i] = fs[i]
    BY <1>4, <2>2, <2>3, PopFacts
  <2>6. \A i \in 1 .. n : /\ fs[i].cont.id = fs[i].req.caller
                          /\ i > 1 => fs[i].cont.catch = fs[i - 1].req.call
    BY <2>2, <2>3 DEF Labelled, FramesLinked
  <2>7. /\ Top = Driver /\ Arrives(res, Driver, fs) /\ IsResult(res)
        /\ Ordered(stack, fs) /\ OutcomeIsTheTargets
    BY <1>1, <1>2, StackFacts, <2>2, TopBelongs DEF Top, Inv, Sound, WellStacked, Labelled
  <2>8. res.to = f.req.call
    BY <1>1, <2>7, ResultKinds, <1>4, <2>3 DEF Arrives, Driver, Meets
  <2>9. frames' = gs
    BY <2>1
  <2> HIDE DEF gs, fs, f
  <2>10. c.id = f.req.caller /\ (n > 1 => c.catch = fs[n - 1].req.call)
    <3>1. fs[n] = f /\ n \in 1 .. n
      BY <2>3 DEF fs
    <3>2. f.cont.id = f.req.caller /\ (n > 1 => f.cont.catch = fs[n - 1].req.call)
      BY <2>6, <3>1
    <3> QED BY <3>2
  <2>11. FramesLinked'
    <3>1. ASSUME NEW i \in 1 .. n - 1
          PROVE  /\ gs[i].cont.id = gs[i].req.caller
                 /\ i > 1 => gs[i].cont.catch = gs[i - 1].req.call
      <4>1. gs[i] = fs[i] /\ (i > 1 => gs[i - 1] = fs[i - 1]) /\ i \in 1 .. n
        BY <2>5, <3>1
      <4> QED BY <2>6, <4>1
    <3> QED BY <2>5, <2>9, <3>1 DEF FramesLinked
  <2>12. gs # << >> => c.catch = Last(gs).req.call
    <3> SUFFICES ASSUME gs # << >> PROVE c.catch = Last(gs).req.call
      OBVIOUS
    <3>1. Last(gs) = gs[Len(gs)] /\ Len(gs) # 0
      BY <2>5, StackFacts
    <3>2. n > 1 /\ Last(gs) = gs[n - 1] /\ n - 1 \in 1 .. n - 1
      BY <2>3, <2>5, <3>1
    <3>3. Last(gs) = fs[n - 1]
      BY <2>5, <3>2
    <3> QED BY <2>10, <3>2, <3>3
  <2>13. CASE StartHandler(stack, a, depth) /\ delivered' = delivered
    <3> DEFINE id == Fresh
               catch == a.call
               m == Len(closing)
               d == <<Driver>>
    <3>1. a.kind = "handler" /\ a.cont = c /\ a.caller = f.req.caller
      BY DEF HandlerRecord
    <3>2. Handled(stack, stack', a, id, catch, depth, m) /\ res' = None
      BY <2>13 DEF StartHandler, Handled
    <3> HIDE DEF a
    <3>3. c # None
      BY <2>4 DEF IsCont, IsLoop, None
    <3>4. Linked(Driver, a, gs)
      BY <2>10, <2>12, <3>1, <3>3 DEF Linked, Driver
    <3>5. Ordered(stack, gs) /\ Last(stack) = Driver
      BY <2>7, <1>2 DEF Top, Ordered, OrderedAt
    <3>6. ~Has(Last(stack), "activated")
      BY <3>5 DEF Has, Driver
    <3> HIDE DEF id, catch, m
    <3>7. Placed(stack', None, gs)
      BY <3>1, <3>2, <3>4, <3>5, <3>6, HandlerPlaced
    <3>8. OutcomeIsTheTargets'
      BY <2>7, <2>13 DEF OutcomeIsTheTargets
    <3> QED BY <2>9, <2>11, <3>2, <3>7, <3>8, PlacedStep
  <2>14. CASE Resume(c) /\ Deliver(f.req.call, f.req.caller, c.id, res)
    BY <2>14, <2>4, <2>12, ContinuationPlaced, <2>8, <2>10, <2>9, <2>11, PlacedStep DEF Resume, Deliver,
       OutcomeIsTheTargets
  <2> QED BY <2>1, <2>13, <2>14
<1> QED BY <1>3, <1>4

LEMMA LabelledInit ==
    ASSUME Init
    PROVE  Labelled
<1> DEFINE m == MainLoop
<1>1. stack = <<m>> /\ frames = << >> /\ res = None /\ delivered = None
  BY DEF Init
<1>2. m.kind = "loop" /\ m.by = "main" /\ m.err = None
  BY DEF MainLoop, NewLoop
<1> HIDE DEF m
<1>3. OwnError(m) /\ ~Has(m, "activated")
  BY <1>2, NotActivation DEF OwnError, Has
<1>4. Ordered(stack, frames) /\ Last(stack) = m
  BY <1>1, <1>3, AloneOrdered
<1>5. FramesLinked
  BY <1>1 DEF FramesLinked
<1>6. OutcomeIsTheTargets
  BY <1>1 DEF OutcomeIsTheTargets
<1>7. Arrives(res, Top, frames) /\ res # Activation
  BY <1>1, NotActivation DEF Arrives, None
<1>8. ~Has(Top, "activated")
  BY <1>3, <1>4 DEF Top
<1> QED BY <1>4, <1>5, <1>6, <1>7, <1>8 DEF Labelled

LEMMA LabelledNext ==
    ASSUME Inv, Charged, Labelled, [Next]_vars
    PROVE  Labelled'
<1>1. CASE Next
  <2>1. CASE GuestMoves
    BY <2>1, RaiseLabelled, GuestCallLabelled, ReturnLabelled, ReturnDynamicLabelled, OpenScopeLabelled,
       CloseScopeLabelled, CallbackLabelled, ProtectedCallLabelled DEF GuestMoves
  <2>2. CASE Results
    BY <2>2, LoopReceivesLabelled, LoopLeavesLabelled, NativeReturnsLabelled, FallbackReturnsLabelled,
       HandlerReturnsLabelled, MainLeavesLabelled, DriverActivatesLabelled, DriverReceivesLabelled DEF Results
  <2>3. CASE Closes
    BY <2>3, CloseNextLabelled, CloseHandledLabelled, CloseDoneLabelled DEF Closes
  <2> QED BY <1>1, <2>1, <2>2, <2>3 DEF Next
<1>2. CASE UNCHANGED vars
  BY <1>2 DEF vars, Top, FramesLinked, Asking, AsksAgain, Caught, OutcomeIsTheTargets, Labelled
<1> QED BY <1>1, <1>2

(* The outcome of a protected call is that of its own target, and the      *)
(* function that made the call gets it: over the driver, by the recursive  *)
(* fallback and from message handlers, however errors, closed values and   *)
(* nested calls interleave, as long as no activation went astray.          *)
THEOREM OutcomesStayWithCallers == Spec => []OutcomesReachCallers
  BY InvInit, ChargedInit, LabelledInit, InvNext, ChargedNext, LabelledNext, PTL DEF Labelled,
     OutcomesReachCallers, Spec

-----------------------------------------------------------------------------
(* Scopes and their values                                                 *)

(* Values in the order in which they were opened.                          *)
Stepped(sc) ==
    /\ IsStack(sc) /\ \A i \in 1 .. Len(sc) : sc[i] \in Seq(Nat)
    /\ \A i, j \in 1 .. Len(sc) : \A x \in 1 .. Len(sc[i]), y \in 1 .. Len(sc[j]) :
         i < j \/ (i = j /\ x < y) => sc[i][x] < sc[j][y]

LEMMA StackRange ==
    ASSUME NEW s, IsStack(s)
    PROVE  /\ \A v : v \in ToSet(s) <=> \E x \in 1 .. Len(s) : v = s[x]
           /\ s = << >> => ToSet(s) = {}
  BY StackFacts DEF ToSet

LEMMA ScopeValues ==
    ASSUME NEW sc, Stepped(sc)
    PROVE  \A v : v \in ValuesOf(sc) <=> \E i \in 1 .. Len(sc) : \E x \in 1 .. Len(sc[i]) : v = sc[i][x]
<1>1. IsStack(sc) /\ \A i \in 1 .. Len(sc) : IsStack(sc[i])
  BY DEF Stepped, IsStack
<1>2. ASSUME NEW v
      PROVE  v \in ValuesOf(sc) <=> \E i \in 1 .. Len(sc) : v \in ToSet(sc[i])
  BY <1>1, StackRange DEF ValuesOf
<1>3. ASSUME NEW v
      PROVE  v \in ValuesOf(sc) <=> \E i \in 1 .. Len(sc) : \E x \in 1 .. Len(sc[i]) : v = sc[i][x]
  <2>1. \A i \in 1 .. Len(sc) : v \in ToSet(sc[i]) <=> \E x \in 1 .. Len(sc[i]) : v = sc[i][x]
    BY <1>1, StackRange
  <2> QED BY <2>1, <1>2
<1> QED BY <1>3

(* A frame is entered.                                                     *)
LEMMA EnteredScopes ==
    ASSUME NEW sc, Stepped(sc)
    PROVE  Stepped(Append(sc, << >>)) /\ ValuesOf(Append(sc, << >>)) = ValuesOf(sc)
<1> DEFINE e == << >>
           u == Append(sc, e)
           n == Len(sc)
<1>1. /\ n \in Nat /\ IsStack(u) /\ Len(u) = n + 1 /\ u[n + 1] = e /\ \A i \in 1 .. n : u[i] = sc[i]
  BY PushFacts, StackFacts DEF Stepped
<1>2. e \in Seq(Nat) /\ Len(e) = 0
  OBVIOUS
<1> HIDE DEF e, u
<1>3. \A i \in 1 .. n : sc[i] \in Seq(Nat)
  BY DEF Stepped
<1>4. \A i \in 1 .. n + 1 : u[i] \in Seq(Nat) /\ ((u[i] = sc[i] /\ i \in 1 .. n) \/ Len(u[i]) = 0)
  <2>1. ASSUME NEW i \in 1 .. n + 1
        PROVE  u[i] \in Seq(Nat) /\ ((u[i] = sc[i] /\ i \in 1 .. n) \/ Len(u[i]) = 0)
    <3>1. CASE i = n + 1
      BY <1>1, <1>2, <3>1
    <3>2. CASE i # n + 1
      BY <1>1, <3>2, <1>3
    <3> QED BY <3>1, <3>2
  <2> QED BY <2>1
<1>5. \A i \in 1 .. n + 1 : \A x \in 1 .. Len(u[i]) : i \in 1 .. n /\ u[i] = sc[i]
  BY <1>4
<1>6. Stepped(u)
  <2>1. ASSUME NEW i \in 1 .. n + 1, NEW j \in 1 .. n + 1, NEW x \in 1 .. Len(u[i]), NEW y \in 1 .. Len(u[j]),
               i < j \/ (i = j /\ x < y)
        PROVE  u[i][x] < u[j][y]
    BY <1>5, <2>1 DEF Stepped
  <2> QED BY <1>1, <1>4, <2>1 DEF Stepped
<1>7. \A v : v \in ValuesOf(u) <=> v \in ValuesOf(sc)
  BY ScopeValues, <1>1, <1>6, <1>5
<1> QED BY <1>6, <1>7 DEF u, e

(* A frame is left.                                                        *)
LEMMA LeftScopes ==
    ASSUME NEW sc, Stepped(sc), sc # << >>
    PROVE  /\ Stepped(Front(sc))
           /\ \A v : v \in ValuesOf(sc) <=> v \in ValuesOf(Front(sc)) \/ v \in ToSet(Last(sc))
           /\ \A v \in ValuesOf(Front(sc)) : v \notin ToSet(Last(sc))
<1> DEFINE u == Front(sc)
           z == Last(sc)
           n == Len(sc)
<1>1. /\ n \in Nat \ {0} /\ IsStack(u) /\ Len(u) = n - 1 /\ (\A i \in 1 .. n - 1 : u[i] = sc[i]) /\ z = sc[n]
  BY PopFacts, StackFacts DEF Stepped
<1> HIDE DEF u, z
<1>2. /\ \A i \in 1 .. n : sc[i] \in Seq(Nat) /\ IsStack(sc[i])
      /\ \A i, j \in 1 .. n : \A x \in 1 .. Len(sc[i]), y \in 1 .. Len(sc[j]) :
           i < j \/ (i = j /\ x < y) => sc[i][x] < sc[j][y]
  BY DEF Stepped, IsStack
<1>3. Stepped(u)
  <2>1. ASSUME NEW i \in 1 .. n - 1, NEW j \in 1 .. n - 1, NEW x \in 1 .. Len(u[i]), NEW y \in 1 .. Len(u[j]),
               i < j \/ (i = j /\ x < y)
        PROVE  u[i][x] < u[j][y]
    <3>1. i \in 1 .. n /\ j \in 1 .. n /\ u[i] = sc[i] /\ u[j] = sc[j]
      BY <1>1
    <3> QED BY <1>2, <2>1, <3>1
  <2>2. \A i \in 1 .. n - 1 : u[i] \in Seq(Nat)
    BY <1>1, <1>2
  <2> QED BY <1>1, <2>1, <2>2 DEF Stepped
<1>4. \A v : v \in ValuesOf(sc) <=> \E i \in 1 .. n : \E x \in 1 .. Len(sc[i]) : v = sc[i][x]
  BY ScopeValues
<1>5. \A v : v \in ValuesOf(u) <=> \E i \in 1 .. n - 1 : \E x \in 1 .. Len(sc[i]) : v = sc[i][x]
  <2>1. \A v : v \in ValuesOf(u) <=> \E i \in 1 .. n - 1 : \E x \in 1 .. Len(u[i]) : v = u[i][x]
    BY <1>1, <1>3, ScopeValues
  <2> QED BY <1>1, <2>1
<1>6. \A v : v \in ToSet(z) <=> \E x \in 1 .. Len(sc[n]) : v = sc[n][x]
  <2>1. z = sc[n] /\ n \in 1 .. n
    BY <1>1
  <2>2. IsStack(z)
    BY <1>2, <2>1
  <2>3. \A v : v \in ToSet(z) <=> \E x \in 1 .. Len(z) : v = z[x]
    BY <2>2, StackRange
  <2> QED BY <2>1, <2>3
<1>7. \A i \in 1 .. n : i \in 1 .. n - 1 \/ i = n
  BY <1>1
<1>8. n \in 1 .. n /\ \A i \in 1 .. n - 1 : i \in 1 .. n
  BY <1>1
<1>9. ASSUME NEW v \in ValuesOf(u), v \in ToSet(z) PROVE FALSE
  <2>1. PICK i \in 1 .. n - 1 : \E x \in 1 .. Len(sc[i]) : v = sc[i][x]
    BY <1>5
  <2>2. PICK x \in 1 .. Len(sc[i]) : v = sc[i][x]
    BY <2>1
  <2>3. PICK y \in 1 .. Len(sc[n]) : v = sc[n][y]
    BY <1>6, <1>9
  <2>4. i < n /\ i \in 1 .. n
    BY <1>1
  <2>5. sc[i][x] < sc[n][y]
    BY <1>2, <1>8, <2>4
  <2>6. sc[i] \in Seq(Nat)
    BY <1>2, <2>4
  <2>7. v \in Nat /\ v < v
    BY <2>2, <2>3, <2>5, <2>6, ElementOfSeq
  <2> QED BY <2>7
<1> QED BY <1>3, <1>4, <1>5, <1>6, <1>7, <1>8, <1>9 DEF u, z

LEMMA NoScopes ==
    /\ Stepped(<< << >> >>) /\ ValuesOf(<< << >> >>) = {}
    /\ IsStack(<< << >> >>) /\ << << >> >> # << >>
<1> DEFINE e == << >>
           u == <<e>>
<1>1. e \in Seq(Nat) /\ Len(e) = 0
  OBVIOUS
<1>2. u \in Seq({e}) /\ Len(u) = 1 /\ u[1] = e /\ u # << >>
  OBVIOUS
<1> HIDE DEF e, u
<1>3. IsStack(u)
  BY <1>2 DEF IsStack
<1>4. Stepped(u)
  <2>1. \A i \in 1 .. Len(u) : u[i] = e
    BY <1>2
  <2>2. \A i \in 1 .. Len(u) : \A x \in 1 .. Len(u[i]) : FALSE
    BY <1>1, <2>1
  <2> QED BY <1>1, <1>3, <2>1, <2>2 DEF Stepped
<1>5. ValuesOf(u) = {}
  BY <1>1, <1>2, <1>4, ScopeValues
<1> QED BY <1>2, <1>3, <1>4, <1>5 DEF u, e

(* A value is opened in the innermost frame.                               *)
LEMMA OpenedScopes ==
    ASSUME NEW sc, Stepped(sc), sc # << >>, NEW v \in Nat, \A x \in ValuesOf(sc) : x < v
    PROVE  LET u == [sc EXCEPT ![Len(sc)] = Append(sc[Len(sc)], v)] IN
           /\ Stepped(u) /\ IsStack(u) /\ u # << >> /\ Len(u) = Len(sc)
           /\ \A x : x \in ValuesOf(u) <=> x \in ValuesOf(sc) \/ x = v
<1> DEFINE n == Len(sc)
           t == sc[n]
           t2 == Append(t, v)
           u == [sc EXCEPT ![n] = t2]
<1>1. IsStack(sc) /\ n \in Nat \ {0} /\ DOMAIN sc = 1 .. n
  BY StackFacts DEF Stepped
<1>2. /\ \A i \in 1 .. n : sc[i] \in Seq(Nat)
      /\ \A i, j \in 1 .. n : \A x \in 1 .. Len(sc[i]), y \in 1 .. Len(sc[j]) :
           i < j \/ (i = j /\ x < y) => sc[i][x] < sc[j][y]
  BY DEF Stepped
<1>3. t \in Seq(Nat) /\ n \in 1 .. n
  BY <1>1, <1>2
<1>4. IsStack(u) /\ u # << >> /\ Len(u) = n
  BY <1>1, StackUpdate
<1>5. u[n] = t2 /\ \A i \in 1 .. n - 1 : u[i] = sc[i]
  <2> HIDE DEF t2, n
  <2> QED BY <1>1
<1> DEFINE k == Len(t)
<1>6. /\ k \in Nat /\ t2 \in Seq(Nat) /\ Len(t2) = k + 1 /\ t2[k + 1] = v /\ \A x \in 1 .. k : t2[x] = t[x]
  <2> HIDE DEF t
  <2> QED BY <1>3
<1>7. \A i \in 1 .. n : \A x \in 1 .. Len(sc[i]) : sc[i][x] \in Nat /\ sc[i][x] < v
  <2>1. \A w : w \in ValuesOf(sc) <=> \E i \in 1 .. n : \E x \in 1 .. Len(sc[i]) : w = sc[i][x]
    BY ScopeValues
  <2> HIDE DEF n
  <2> QED BY <2>1, <1>2, ElementOfSeq
<1>8. t = sc[n] /\ Len(sc[n]) = k
  OBVIOUS
<1> HIDE DEF u, t2, t, k, n
(* A place in the new scopes is an old one or that of the new value.       *)
<1>9. ASSUME NEW i \in 1 .. n, NEW x \in 1 .. Len(u[i])
      PROVE  \/ x \in 1 .. Len(sc[i]) /\ u[i][x] = sc[i][x]
             \/ i = n /\ x = k + 1 /\ u[i][x] = v
  <2>1. CASE i = n
    BY <1>5, <1>6, <2>1, <1>8
  <2>2. CASE i # n
    BY <1>1, <1>5, <2>2
  <2> QED BY <2>1, <2>2
<1>10. \A x \in 1 .. Len(sc[n]) : x < k + 1
  BY <1>6, <1>8
<1>11. Stepped(u)
  <2>1. \A i \in 1 .. n : u[i] \in Seq(Nat)
    BY <1>1, <1>2, <1>5, <1>6
  <2>2. ASSUME NEW i \in 1 .. n, NEW j \in 1 .. n, NEW x \in 1 .. Len(u[i]), NEW y \in 1 .. Len(u[j]),
               i < j \/ (i = j /\ x < y)
        PROVE  u[i][x] < u[j][y]
    <3>1. CASE x \in 1 .. Len(sc[i]) /\ u[i][x] = sc[i][x]
      <4>1. CASE y \in 1 .. Len(sc[j]) /\ u[j][y] = sc[j][y]
        BY <1>2, <2>2, <3>1, <4>1
      <4>2. CASE j = n /\ y = k + 1 /\ u[j][y] = v
        BY <1>7, <3>1, <4>2
      <4> QED BY <1>9, <4>1, <4>2
    <3>2. CASE i = n /\ x = k + 1 /\ u[i][x] = v
      <4>1. i = j /\ x < y
        BY <1>1, <2>2, <3>2
      <4>2. y \in 1 .. Len(sc[n]) \/ y = k + 1
        BY <1>9, <3>2, <4>1
      <4>3. y < k + 1 \/ y = k + 1
        BY <1>10, <4>2
      <4>4. y \in Nat /\ k + 1 < y
        BY <2>1, LenProperties, <3>2, <4>1
      <4> QED BY <1>6, <4>3, <4>4
    <3> QED BY <1>9, <3>1, <3>2
  <2> QED BY <1>4, <2>1, <2>2 DEF Stepped
<1>12. ASSUME NEW w
       PROVE  w \in ValuesOf(u) <=> w \in ValuesOf(sc) \/ w = v
  <2>1. w \in ValuesOf(sc) <=> \E i \in 1 .. n : \E x \in 1 .. Len(sc[i]) : w = sc[i][x]
    BY ScopeValues DEF n
  <2>2. w \in ValuesOf(u) <=> \E i \in 1 .. n : \E x \in 1 .. Len(u[i]) : w = u[i][x]
    BY <1>4, <1>11, ScopeValues
  <2>3. \A i \in 1 .. n : \A x \in 1 .. Len(sc[i]) : x \in 1 .. Len(u[i]) /\ u[i][x] = sc[i][x]
    <3>1. ASSUME NEW i \in 1 .. n, NEW x \in 1 .. Len(sc[i]) PROVE x \in 1 .. Len(u[i]) /\ u[i][x] = sc[i][x]
      <4>1. CASE i = n
        BY <1>5, <1>6, <1>8, <4>1
      <4>2. CASE i # n
        BY <1>1, <1>5, <4>2
      <4> QED BY <4>1, <4>2
    <3> QED BY <3>1
  <2>4. w \in ValuesOf(u) => w \in ValuesOf(sc) \/ w = v
    <3>1. ASSUME NEW i \in 1 .. n, NEW x \in 1 .. Len(u[i]), w = u[i][x]
          PROVE  (\E y \in 1 .. Len(sc[i]) : w = sc[i][y]) \/ w = v
      BY <1>9, <3>1
    <3> QED BY <2>1, <2>2, <3>1
  <2>5. w \in ValuesOf(sc) => w \in ValuesOf(u)
    BY <2>1, <2>2, <2>3
  <2>6. w = v => w \in ValuesOf(u)
    BY <2>2, <1>1, <1>5, <1>6
  <2> QED BY <2>4, <2>5, <2>6
<1> QED BY <1>4, <1>11, <1>12 DEF u, t2, t, n

(* The newest value of the innermost frame is taken away.                  *)
LEMMA TakenScopes ==
    ASSUME NEW sc, Stepped(sc), sc # << >>, Last(sc) # << >>
    PROVE  LET v == Last(Last(sc))
               u == [sc EXCEPT ![Len(sc)] = Front(sc[Len(sc)])] IN
           /\ Stepped(u) /\ IsStack(u) /\ u # << >> /\ Len(u) = Len(sc)
           /\ v \in ValuesOf(sc)
           /\ \A x : x \in ValuesOf(u) <=> x \in ValuesOf(sc) /\ x # v
           /\ \A x \in ValuesOf(u) : x < v
<1> DEFINE n == Len(sc)
           t == sc[n]
           t2 == Front(t)
           k == Len(t)
           v == t[k]
           u == [sc EXCEPT ![n] = t2]
<1>1. IsStack(sc) /\ n \in Nat \ {0} /\ DOMAIN sc = 1 .. n /\ Last(sc) = t
  BY StackFacts DEF Stepped
<1>2. /\ \A i \in 1 .. n : sc[i] \in Seq(Nat)
      /\ \A i, j \in 1 .. n : \A x \in 1 .. Len(sc[i]), y \in 1 .. Len(sc[j]) :
           i < j \/ (i = j /\ x < y) => sc[i][x] < sc[j][y]
  BY DEF Stepped
<1>3. t \in Seq(Nat) /\ n \in 1 .. n /\ t # << >>
  BY <1>1, <1>2
<1>4. IsStack(u) /\ u # << >> /\ Len(u) = n
  BY <1>1, StackUpdate
<1>5. u[n] = t2 /\ \A i \in 1 .. n - 1 : u[i] = sc[i]
  <2> HIDE DEF t2, n
  <2> QED BY <1>1
<1>6. /\ k \in Nat \ {0} /\ t2 \in Seq(Nat) /\ Len(t2) = k - 1 /\ \A x \in 1 .. k - 1 : t2[x] = t[x]
  <2>1. IsStack(t)
    BY <1>3 DEF IsStack
  <2>2. k \in Nat \ {0}
    BY <1>3, <2>1, StackFacts
  <2>3. Len(t2) = k - 1 /\ (\A x \in 1 .. k - 1 : t2[x] = t[x]) /\ IsStack(t2)
    BY <1>3, <2>1, PopFacts
  <2>4. t2 \in Seq(Nat)
    <3> HIDE DEF t
    <3>1. \A x \in 1 .. Len(t) : t[x] \in Nat
      BY <1>3, ElementOfSeq
    <3> HIDE DEF t2
    <3>2. DOMAIN t2 = 1 .. k - 1 /\ k - 1 \in Nat
      BY <2>2, <2>3, StackFacts
    <3>3. \A x \in 1 .. k - 1 : t2[x] \in Nat
      BY <2>2, <2>3, <3>1
    <3>4. t2 = [x \in 1 .. k - 1 |-> t2[x]]
      <4>1. PICK A : t2 \in Seq(A)
        BY <2>3 DEF IsStack
      <4> HIDE DEF k
      <4> QED BY <3>2, <4>1
    <3> HIDE DEF k
    <3> QED BY <3>2, <3>3, <3>4
  <2> QED BY <2>2, <2>3, <2>4
<1>7. Last(Last(sc)) = v
  BY <1>1 DEF Last
<1>8. t = sc[n]
  OBVIOUS
<1>9. v = sc[n][k] /\ k = Len(sc[n])
  OBVIOUS
<1> HIDE DEF u, v, t2, t, k, n
<1>10. ASSUME NEW i \in 1 .. n, NEW x \in 1 .. Len(u[i])
       PROVE  x \in 1 .. Len(sc[i]) /\ u[i][x] = sc[i][x] /\ (i = n => x < k)
  <2>1. CASE i = n
    BY <1>5, <1>6, <1>8, <1>9, <2>1
  <2>2. CASE i # n
    BY <1>1, <1>5, <2>2
  <2> QED BY <2>1, <2>2
<1>11. Stepped(u)
  <2>1. \A i \in 1 .. n : u[i] \in Seq(Nat)
    BY <1>1, <1>2, <1>5, <1>6
  <2>2. ASSUME NEW i \in 1 .. n, NEW j \in 1 .. n, NEW x \in 1 .. Len(u[i]), NEW y \in 1 .. Len(u[j]),
               i < j \/ (i = j /\ x < y)
        PROVE  u[i][x] < u[j][y]
    BY <1>2, <1>10, <2>2
  <2> QED BY <1>4, <2>1, <2>2 DEF Stepped
<1>12. k \in 1 .. Len(sc[n]) /\ n \in 1 .. n
  BY <1>3, <1>6, <1>9
(* Every other value is older.                                             *)
<1>13. ASSUME NEW i \in 1 .. n, NEW x \in 1 .. Len(sc[i])
       PROVE  (x \in 1 .. Len(u[i]) /\ u[i][x] = sc[i][x] /\ sc[i][x] < v) \/ (i = n /\ x = k)
  <2>1. CASE i = n
    <3>1. x \in 1 .. k
      BY <1>9, <2>1
    <3>2. CASE x = k
      BY <2>1, <3>2
    <3>3. CASE x # k
      <4>1. x \in 1 .. k - 1 /\ x < k
        BY <1>6, <3>1, <3>3
      <4>2. x \in 1 .. Len(u[n]) /\ u[n][x] = sc[n][x]
        BY <1>5, <1>6, <1>8, <4>1
      <4>3. sc[n][x] < sc[n][k]
        BY <1>2, <1>12, <2>1, <4>1
      <4> QED BY <1>9, <2>1, <4>2, <4>3
    <3> QED BY <3>2, <3>3
  <2>2. CASE i # n
    <3>1. i \in 1 .. n - 1 /\ i < n
      BY <1>1, <2>2
    <3>2. sc[i][x] < sc[n][k]
      BY <1>2, <1>12, <3>1
    <3> QED BY <1>5, <1>9, <3>1, <3>2
  <2> QED BY <2>1, <2>2
<1>14. \A w : w \in ValuesOf(sc) <=> \E i \in 1 .. n : \E x \in 1 .. Len(sc[i]) : w = sc[i][x]
  BY ScopeValues DEF n
<1>15. \A w : w \in ValuesOf(u) <=> \E i \in 1 .. n : \E x \in 1 .. Len(u[i]) : w = u[i][x]
  BY <1>4, <1>11, ScopeValues
<1>16. v \in ValuesOf(sc)
  BY <1>9, <1>12, <1>14
<1>17. \A w \in ValuesOf(u) : w \in ValuesOf(sc) /\ w < v
  <2>1. ASSUME NEW w \in ValuesOf(u) PROVE w \in ValuesOf(sc) /\ w < v
    <3>1. PICK i \in 1 .. n : \E x \in 1 .. Len(u[i]) : w = u[i][x]
      BY <1>15
    <3>2. PICK x \in 1 .. Len(u[i]) : w = u[i][x]
      BY <3>1
    <3>3. x \in 1 .. Len(sc[i]) /\ w = sc[i][x] /\ (i = n => x < k)
      BY <1>10, <3>2
    <3>4. ~(i = n /\ x = k)
      BY <1>6, <3>3
    <3> QED BY <1>13, <1>14, <3>3, <3>4
  <2> QED BY <2>1
<1>18. \A w \in ValuesOf(sc) : w \in ValuesOf(u) \/ w = v
  BY <1>9, <1>13, <1>14, <1>15
<1>19. v \in Nat
  BY <1>9, <1>12, <1>2, ElementOfSeq
<1>20. v \notin ValuesOf(u)
  BY <1>17, <1>19
<1> QED BY <1>4, <1>7, <1>11, <1>16, <1>17, <1>18, <1>20 DEF u, t2, t, n

-----------------------------------------------------------------------------
(* What is listed                                                          *)

(* The list of values to close, how often each was closed, and those that  *)
(* were closed while a frame that goes on had their scope open.            *)
Tracked(L, c, w) ==
    /\ L \in Seq(Nat) /\ c \in Seq(Nat)
    /\ \A i, j \in 1 .. Len(L) : i < j => L[i] < L[j]
    /\ \A k \in 1 .. Len(L) : L[k] \in 1 .. Len(c) /\ c[L[k]] = 0
    /\ \A v \in 1 .. Len(c) : c[v] = 0 => \E k \in 1 .. Len(L) : L[k] = v
    /\ \A v \in 1 .. Len(c) : c[v] <= 1 \/ v \in w

(* The scope of v ends with what the loop h is doing.                      *)
Ending(h, v) ==
    h.status \in {"unwind", "leave"} \/ (h.status = "closing" /\ v \in ToSet(Last(h.scopes)))

(* A holder of scopes: what it has left to close is listed behind its      *)
(* marker.                                                                 *)
HolderFits(h, L, c, w) ==
    /\ h.marker \in 0 .. Len(L)
    /\ Stepped(h.scopes)
    /\ ValuesOf(h.scopes) \subseteq 1 .. Len(c)
    /\ \A v \in ValuesOf(h.scopes) : c[v] = 0 \/ v \in w \/ Ending(h, v)
    /\ \A k \in 1 .. Len(L) : L[k] \in ValuesOf(h.scopes) => k > h.marker

(* g was there before h.                                                   *)
Nested(g, h, L) ==
    /\ g.marker <= h.marker
    /\ \A k \in 1 .. Len(L) : L[k] \in ValuesOf(g.scopes) => k <= h.marker

(* The places of H, from the oldest on, hold what is listed.               *)
Listed(H, L, c, w) ==
    /\ Tracked(L, c, w)
    /\ \A k \in 1 .. Len(L) : \E p \in DOMAIN H : H[p] # None /\ L[k] \in ValuesOf(H[p].scopes)
    /\ \A p \in DOMAIN H : H[p] # None => HolderFits(H[p], L, c, w)
    /\ \A p, q \in DOMAIN H : p < q /\ H[p] # None /\ H[q] # None => Nested(H[p], H[q], L)

(* b holds, at most, what a held.                                          *)
Follows(b, a, c, w) ==
    /\ b.marker = a.marker /\ Stepped(b.scopes)
    /\ ValuesOf(b.scopes) \subseteq ValuesOf(a.scopes)
    /\ \A v \in ValuesOf(b.scopes) : Ending(a, v) => c[v] = 0 \/ v \in w \/ Ending(b, v)

LEMMA Embedded ==
    ASSUME NEW H, NEW G, NEW L, NEW c, NEW w, Listed(H, L, c, w), NEW to,
           \A p \in DOMAIN G : G[p] # None =>
              to[p] \in DOMAIN H /\ H[to[p]] # None /\ Follows(G[p], H[to[p]], c, w),
           \A p, q \in DOMAIN G : p < q /\ G[p] # None /\ G[q] # None => to[p] < to[q],
           \A p \in DOMAIN H, k \in 1 .. Len(L) : H[p] # None /\ L[k] \in ValuesOf(H[p].scopes) =>
              \E q \in DOMAIN G : G[q] # None /\ L[k] \in ValuesOf(G[q].scopes)
    PROVE  Listed(G, L, c, w)
<1>1. ASSUME NEW p \in DOMAIN G, G[p] # None PROVE HolderFits(G[p], L, c, w)
  <2> DEFINE b == G[p]
             a == H[to[p]]
  <2>1. HolderFits(a, L, c, w) /\ Follows(b, a, c, w)
    BY <1>1 DEF Listed
  <2> HIDE DEF a, b
  <2>2. ASSUME NEW v \in ValuesOf(b.scopes) PROVE c[v] = 0 \/ v \in w \/ Ending(b, v)
    BY <2>1, <2>2 DEF HolderFits, Follows
  <2>3. HolderFits(b, L, c, w)
    BY <2>2, <2>1 DEF HolderFits, Follows
  <2> QED BY <2>3 DEF b
<1>2. ASSUME NEW p \in DOMAIN G, NEW q \in DOMAIN G, p < q, G[p] # None, G[q] # None
      PROVE  Nested(G[p], G[q], L)
  BY <1>2 DEF Listed, Nested, Follows
<1>3. ASSUME NEW k \in 1 .. Len(L) PROVE \E q \in DOMAIN G : G[q] # None /\ L[k] \in ValuesOf(G[q].scopes)
  BY <1>3 DEF Listed
<1>4. Tracked(L, c, w)
  BY DEF Listed
<1> QED BY <1>1, <1>2, <1>3, <1>4 DEF Listed

(* A loop starts in the last place.                                        *)
LEMMA Started ==
    ASSUME NEW H, NEW G, NEW n \in Nat, DOMAIN H = 1 .. n, DOMAIN G = 1 .. n, n # 0,
           NEW L, NEW c, NEW w, Listed(H, L, c, w),
           \A p \in 1 .. n - 1 : G[p] = H[p], H[n] = None,
           Stepped(G[n].scopes), ValuesOf(G[n].scopes) = {}, G[n].marker = Len(L)
    PROVE  Listed(G, L, c, w)
<1> DEFINE h == G[n]
<1>1. Tracked(L, c, w) /\ Len(L) \in Nat
  <2>1. Tracked(L, c, w)
    BY DEF Listed
  <2>2. L \in Seq(Nat)
    BY <2>1 DEF Tracked
  <2> QED BY <2>1, <2>2
<1>2. \A p \in 1 .. n : (p \in 1 .. n - 1 /\ G[p] = H[p]) \/ p = n
  OBVIOUS
<1>3. ASSUME NEW k \in 1 .. Len(L) PROVE \E p \in DOMAIN G : G[p] # None /\ L[k] \in ValuesOf(G[p].scopes)
  <2>1. PICK p \in DOMAIN H : H[p] # None /\ L[k] \in ValuesOf(H[p].scopes)
    BY <1>3 DEF Listed
  <2>2. p \in 1 .. n /\ G[p] = H[p]
    BY <1>2, <2>1
  <2> QED BY <2>1, <2>2
<1>4. HolderFits(h, L, c, w)
  BY <1>1 DEF HolderFits
<1>5. ASSUME NEW p \in 1 .. n, G[p] # None PROVE HolderFits(G[p], L, c, w)
  <2>1. CASE p \in 1 .. n - 1 /\ G[p] = H[p]
    BY <1>5, <2>1 DEF Listed
  <2>2. CASE p = n
    BY <1>4, <2>2
  <2> QED BY <1>2, <2>1, <2>2
<1>6. ASSUME NEW p \in 1 .. n, NEW q \in 1 .. n, p < q, G[p] # None, G[q] # None PROVE Nested(G[p], G[q], L)
  <2>1. p \in 1 .. n - 1 /\ G[p] = H[p]
    BY <1>2, <1>6
  <2>2. CASE q \in 1 .. n - 1 /\ G[q] = H[q]
    BY <1>6, <2>1, <2>2 DEF Listed
  <2>3. CASE q = n
    BY <1>6, <2>1, <2>3, <1>1 DEF Listed, HolderFits, Nested
  <2> QED BY <1>2, <2>2, <2>3
<1> QED BY <1>1, <1>3, <1>5, <1>6 DEF Listed

(* A value is opened in the last place.                                    *)
LEMMA Opened ==
    ASSUME NEW H, NEW G, NEW n \in Nat, DOMAIN H = 1 .. n, DOMAIN G = 1 .. n, n # 0,
           NEW L, NEW c, NEW w, Listed(H, L, c, w),
           \A p \in 1 .. n - 1 : G[p] = H[p], H[n] # None,
           H[n].status = "run", G[n].status = "run", G[n].marker = H[n].marker, Stepped(G[n].scopes),
           \A x : x \in ValuesOf(G[n].scopes) <=> x \in ValuesOf(H[n].scopes) \/ x = Len(c) + 1,
           G[n] # None
    PROVE  Listed(G, Append(L, Len(c) + 1), Append(c, 0), w)
<1> DEFINE g == G[n]
           h == H[n]
           d == Len(c)
           m == Len(L)
           v == d + 1
           L2 == Append(L, v)
           c2 == Append(c, 0)
<1>1. Tracked(L, c, w)
  BY DEF Listed
<1>2. /\ L \in Seq(Nat) /\ c \in Seq(Nat) /\ m \in Nat /\ d \in Nat
      /\ L2 \in Seq(Nat) /\ Len(L2) = m + 1 /\ L2[m + 1] = v /\ (\A k \in 1 .. m : L2[k] = L[k])
      /\ c2 \in Seq(Nat) /\ Len(c2) = d + 1 /\ c2[d + 1] = 0 /\ (\A x \in 1 .. d : c2[x] = c[x])
  BY <1>1 DEF Tracked
<1>3. /\ \A i, j \in 1 .. m : i < j => L[i] < L[j]
      /\ \A k \in 1 .. m : L[k] \in 1 .. d /\ c[L[k]] = 0
      /\ \A x \in 1 .. d : c[x] = 0 => \E k \in 1 .. m : L[k] = x
      /\ \A x \in 1 .. d : c[x] <= 1 \/ x \in w
  BY <1>1 DEF Tracked
<1>4. /\ \A p \in 1 .. n - 1 : G[p] = H[p]
      /\ h # None /\ g # None /\ h.status = "run" /\ g.status = "run" /\ g.marker = h.marker /\ Stepped(g.scopes)
      /\ \A x : x \in ValuesOf(g.scopes) <=> x \in ValuesOf(h.scopes) \/ x = v
  OBVIOUS
<1>5. /\ \A p \in 1 .. n : H[p] # None => HolderFits(H[p], L, c, w)
      /\ \A p, q \in 1 .. n : p < q /\ H[p] # None /\ H[q] # None => Nested(H[p], H[q], L)
      /\ \A k \in 1 .. m : \E p \in 1 .. n : H[p] # None /\ L[k] \in ValuesOf(H[p].scopes)
  BY DEF Listed
<1>6. g = G[n] /\ h = H[n]
  OBVIOUS
<1> HIDE DEF g, h, d, m, v, L2, c2
<1>7. v = d + 1
  BY DEF v
<1>8. Tracked(L2, c2, w)
  <2>1. ASSUME NEW i \in 1 .. m + 1, NEW j \in 1 .. m + 1, i < j PROVE L2[i] < L2[j]
    <3>1. i \in 1 .. m
      BY <1>2, <2>1
    <3>2. CASE j \in 1 .. m
      BY <1>2, <1>3, <2>1, <3>1, <3>2
    <3>3. CASE j = m + 1
      <4>1. L2[i] \in 1 .. d /\ L2[j] = d + 1
        BY <1>2, <1>3, <1>7, <3>1, <3>3
      <4> QED BY <1>2, <4>1
    <3> QED BY <1>2, <3>2, <3>3
  <2>2. ASSUME NEW k \in 1 .. m + 1 PROVE L2[k] \in 1 .. d + 1 /\ c2[L2[k]] = 0
    <3>1. CASE k \in 1 .. m
      <4>1. L2[k] \in 1 .. d /\ c[L2[k]] = 0
        BY <1>2, <1>3, <3>1
      <4> QED BY <1>2, <4>1
    <3>2. CASE k = m + 1
      BY <1>2, <1>7, <3>2
    <3> QED BY <1>2, <3>1, <3>2
  <2>3. ASSUME NEW x \in 1 .. d + 1, c2[x] = 0 PROVE \E k \in 1 .. m + 1 : L2[k] = x
    <3>1. CASE x \in 1 .. d
      <4>1. PICK k \in 1 .. m : L[k] = x
        BY <1>2, <1>3, <2>3, <3>1
      <4> QED BY <1>2, <4>1
    <3>2. CASE x = d + 1
      BY <1>2, <1>7, <3>2
    <3> QED BY <1>2, <3>1, <3>2
  <2>4. ASSUME NEW x \in 1 .. d + 1 PROVE c2[x] <= 1 \/ x \in w
    <3>1. CASE x \in 1 .. d
      BY <1>2, <1>3, <3>1
    <3>2. CASE x = d + 1
      BY <1>2, <3>2
    <3> QED BY <1>2, <3>1, <3>2
  <2> QED BY <1>2, <2>1, <2>2, <2>3, <2>4 DEF Tracked
<1>9. \A p \in 1 .. n : (p \in 1 .. n - 1 /\ G[p] = H[p]) \/ p = n
  BY <1>4
(* What another place holds is older.                                      *)
<1>10. ASSUME NEW p \in 1 .. n, H[p] # None
       PROVE  /\ \A k \in 1 .. m + 1 : L2[k] \in ValuesOf(H[p].scopes) => k \in 1 .. m /\ L2[k] = L[k]
              /\ \A x \in ValuesOf(H[p].scopes) : x \in 1 .. d /\ c2[x] = c[x]
  <2>1. ValuesOf(H[p].scopes) \subseteq 1 .. d
    BY <1>5, <1>10 DEF HolderFits, d
  <2>2. v \notin 1 .. d
    BY <1>2, <1>7
  <2>3. \A x \in 1 .. d : c2[x] = c[x]
    BY <1>2
  <2>4. \A k \in 1 .. m + 1 : (k \in 1 .. m /\ L2[k] = L[k]) \/ L2[k] = v
    BY <1>2
  <2> QED BY <2>1, <2>2, <2>3, <2>4
<1>11. ASSUME NEW p \in 1 .. n - 1, G[p] # None PROVE HolderFits(G[p], L2, c2, w)
  <2>1. p \in 1 .. n /\ G[p] = H[p] /\ HolderFits(H[p], L, c, w)
    BY <1>4, <1>5, <1>11
  <2>2. /\ H[p].marker \in 0 .. m /\ Stepped(H[p].scopes)
        /\ \A x \in ValuesOf(H[p].scopes) : c[x] = 0 \/ x \in w \/ Ending(H[p], x)
        /\ \A k \in 1 .. m : L[k] \in ValuesOf(H[p].scopes) => k > H[p].marker
    BY <2>1 DEF HolderFits, m
  <2>3. H[p] # None
    BY <1>11, <2>1
  <2>4. /\ \A k \in 1 .. m + 1 : L2[k] \in ValuesOf(H[p].scopes) => k \in 1 .. m /\ L2[k] = L[k]
        /\ \A x \in ValuesOf(H[p].scopes) : x \in 1 .. d /\ c2[x] = c[x]
    BY <1>10, <2>1, <2>3
  <2>5. H[p].marker \in 0 .. m + 1 /\ 1 .. d \subseteq 1 .. d + 1
    BY <1>2, <2>2
  <2>6. \A x \in ValuesOf(H[p].scopes) : x \in 1 .. d + 1 /\ (c2[x] = 0 \/ x \in w \/ Ending(H[p], x))
    BY <2>2, <2>4, <2>5
  <2> QED BY <1>2, <2>1, <2>2, <2>5, <2>6, <2>4 DEF HolderFits
<1>12. HolderFits(g, L2, c2, w)
  <2>1. /\ h.marker \in 0 .. m /\ ValuesOf(h.scopes) \subseteq 1 .. d
        /\ \A x \in ValuesOf(h.scopes) : c[x] = 0 \/ x \in w \/ Ending(h, x)
        /\ \A k \in 1 .. m : L[k] \in ValuesOf(h.scopes) => k > h.marker
    BY <1>4, <1>5, <1>6 DEF HolderFits, m, d
  <2>2. \A x : ~Ending(h, x)
    BY <1>4 DEF Ending
  <2>3. g.marker \in 0 .. m + 1 /\ ValuesOf(g.scopes) \subseteq 1 .. d + 1
    <3>1. g.marker \in 0 .. m + 1
      BY <1>2, <1>4, <2>1
    <3>2. 1 .. d \subseteq 1 .. d + 1 /\ v \in 1 .. d + 1
      BY <1>2, <1>7
    <3>3. \A x \in ValuesOf(g.scopes) : x \in 1 .. d + 1
      BY <1>4, <2>1, <3>2
    <3> QED BY <3>1, <3>3
  <2>4. ASSUME NEW x \in ValuesOf(g.scopes) PROVE c2[x] = 0 \/ x \in w
    <3>1. CASE x \in ValuesOf(h.scopes)
      BY <1>2, <2>1, <2>2, <3>1
    <3>2. CASE x = v
      BY <1>2, <1>7, <3>2
    <3> QED BY <1>4, <2>4, <3>1, <3>2
  <2>5. ASSUME NEW k \in 1 .. m + 1, L2[k] \in ValuesOf(g.scopes) PROVE k > g.marker
    <3>1. CASE k \in 1 .. m
      <4>1. L2[k] \in 1 .. d /\ L2[k] = L[k]
        BY <1>2, <1>3, <3>1
      <4>2. L2[k] # v
        BY <1>2, <1>7, <4>1
      <4> QED BY <1>4, <2>1, <2>5, <3>1, <4>1, <4>2
    <3>2. CASE k = m + 1
      BY <1>2, <1>4, <2>1, <3>2
    <3> QED BY <1>2, <3>1, <3>2
  <2> QED BY <1>2, <1>4, <2>3, <2>4, <2>5 DEF HolderFits
<1>13. ASSUME NEW p \in 1 .. n, G[p] # None PROVE HolderFits(G[p], L2, c2, w)
  BY <1>6, <1>9, <1>11, <1>12, <1>13
<1>14. ASSUME NEW p \in 1 .. n, NEW q \in 1 .. n, p < q, G[p] # None, G[q] # None PROVE Nested(G[p], G[q], L2)
  <2>1. p \in 1 .. n - 1 /\ G[p] = H[p]
    BY <1>9, <1>14
  <2>2. H[q] # None /\ G[q].marker = H[q].marker
    BY <1>4, <1>6, <1>9, <1>14
  <2>3. Nested(H[p], H[q], L)
    BY <1>5, <1>14, <2>1, <2>2
  <2>4. \A k \in 1 .. m + 1 : L2[k] \in ValuesOf(H[p].scopes) => k <= H[q].marker
    BY <2>3, <1>10, <1>14, <2>1 DEF Nested, m
  <2> QED BY <1>2, <2>1, <2>2, <2>3, <2>4 DEF Nested
<1>15. ASSUME NEW k \in 1 .. m + 1 PROVE \E p \in 1 .. n : G[p] # None /\ L2[k] \in ValuesOf(G[p].scopes)
  <2>1. CASE k \in 1 .. m
    <3>1. PICK p \in 1 .. n : H[p] # None /\ L[k] \in ValuesOf(H[p].scopes)
      BY <1>5, <2>1
    <3>2. L2[k] = L[k]
      BY <1>2, <2>1
    <3>3. CASE p = n
      BY <1>4, <1>6, <3>1, <3>2, <3>3
    <3>4. CASE p # n
      BY <1>9, <3>1, <3>2, <3>4
    <3> QED BY <3>3, <3>4
  <2>2. CASE k = m + 1
    BY <1>2, <1>4, <1>6, <2>2
  <2> QED BY <1>2, <2>1, <2>2
<1>16. DOMAIN G = 1 .. n
  OBVIOUS
<1>17. Listed(G, L2, c2, w)
  BY <1>2, <1>8, <1>13, <1>14, <1>15, <1>16 DEF Listed
<1> QED BY <1>17 DEF L2, c2, v, d

(* g holds what h held, except v.                                          *)
Reduced(g, h, v) ==
    /\ g # None /\ g.marker = h.marker /\ Stepped(g.scopes)
    /\ \A x \in ValuesOf(g.scopes) : x \in ValuesOf(h.scopes) /\ (Ending(h, x) => Ending(g, x))
    /\ \A x \in ValuesOf(h.scopes) : x \in ValuesOf(g.scopes) \/ x = v

LEMMA AllReduced ==
    ASSUME NEW H, NEW G, NEW n, DOMAIN H = 1 .. n, NEW L, NEW c, NEW w, Listed(H, L, c, w), NEW v,
           \A p \in 1 .. n : G[p] = H[p] \/ (H[p] # None /\ Reduced(G[p], H[p], v)),
           NEW p \in 1 .. n, G[p] # None
    PROVE  H[p] # None /\ Reduced(G[p], H[p], v) /\ HolderFits(H[p], L, c, w)
  BY DEF Listed, Reduced, HolderFits

(* The value that was listed last is closed.                               *)
LEMMA NewestClosed ==
    ASSUME NEW H, NEW G, NEW n \in Nat, DOMAIN H = 1 .. n, DOMAIN G = 1 .. n, n # 0,
           NEW L, NEW c, NEW w, Listed(H, L, c, w), H[n] # None, Len(L) > H[n].marker,
           \A p \in 1 .. n : G[p] = H[p] \/ (H[p] # None /\ Reduced(G[p], H[p], Last(L))),
           NEW w2, w \subseteq w2,
           \A p \in 1 .. n : G[p] # None /\ Last(L) \in ValuesOf(G[p].scopes) =>
              Last(L) \in w2 \/ Ending(G[p], Last(L))
    PROVE  Listed(G, Front(L), [c EXCEPT ![Last(L)] = @ + 1], w2)
<1> DEFINE m == Len(L)
           d == Len(c)
           v == Last(L)
           L2 == Front(L)
           c2 == [c EXCEPT ![v] = @ + 1]
<1>1. Tracked(L, c, w)
  BY DEF Listed
<1>2. /\ L \in Seq(Nat) /\ c \in Seq(Nat) /\ m \in Nat /\ d \in Nat
      /\ \A i, j \in 1 .. m : i < j => L[i] < L[j]
      /\ \A k \in 1 .. m : L[k] \in 1 .. d /\ c[L[k]] = 0
      /\ \A x \in 1 .. d : c[x] = 0 => \E k \in 1 .. m : L[k] = x
      /\ \A x \in 1 .. d : c[x] <= 1 \/ x \in w
  BY ONLY <1>1 DEF Tracked
<1>3. n \in 1 .. n /\ HolderFits(H[n], L, c, w)
  BY DEF Listed
<1>4. H[n].marker \in Nat /\ m > H[n].marker
  BY <1>2, <1>3 DEF HolderFits
<1>5. m \in Nat \ {0} /\ m - 1 \in Nat
  BY <1>2, <1>4
<1>6. L # << >> /\ IsStack(L)
  BY <1>2, <1>5, StackFacts DEF IsStack
<1>7. /\ Len(L2) = m - 1 /\ (\A k \in 1 .. m - 1 : L2[k] = L[k]) /\ v = L[m]
  BY <1>6, PopFacts, StackFacts
<1>8. L2 \in Seq(Nat)
  BY <1>2, <1>5, SubSeqProperties DEF Front
<1>9. v \in 1 .. d /\ c[v] = 0
  BY <1>2, <1>5, <1>7
<1>10. /\ c2 \in Seq(Nat) /\ Len(c2) = d /\ c2[v] = 1 /\ \A x \in 1 .. d : x # v => c2[x] = c[x]
  <2> HIDE DEF v
  <2> QED BY <1>2, <1>9
<1>11. \A p \in 1 .. n : G[p] = H[p] \/ (H[p] # None /\ Reduced(G[p], H[p], v))
  OBVIOUS
<1>12. \A p \in 1 .. n : G[p] # None /\ v \in ValuesOf(G[p].scopes) => v \in w2 \/ Ending(G[p], v)
  OBVIOUS
<1>13. \A p, q \in 1 .. n : p < q /\ H[p] # None /\ H[q] # None => Nested(H[p], H[q], L)
  BY DEF Listed
<1>14. \A k \in 1 .. m : \E p \in 1 .. n : H[p] # None /\ L[k] \in ValuesOf(H[p].scopes)
  BY DEF Listed
<1> HIDE DEF m, d, v, L2, c2
<1>15. ASSUME NEW p \in 1 .. n, G[p] # None
       PROVE  H[p] # None /\ Reduced(G[p], H[p], v) /\ HolderFits(H[p], L, c, w)
  BY <1>11, <1>15, AllReduced
<1>16. Tracked(L2, c2, w2)
  <2>1. ASSUME NEW i \in 1 .. m - 1, NEW j \in 1 .. m - 1, i < j PROVE L2[i] < L2[j]
    BY <1>5, <1>2, <1>7, <2>1
  <2>2. ASSUME NEW k \in 1 .. m - 1 PROVE L2[k] \in 1 .. d /\ c2[L2[k]] = 0 /\ L2[k] # v
    <3>1. k \in 1 .. m /\ m \in 1 .. m /\ k < m
      BY <1>5
    <3>2. L2[k] = L[k] /\ L[k] \in 1 .. d /\ c[L[k]] = 0 /\ L[k] < v
      BY <1>2, <1>7, <3>1
    <3>3. L2[k] # v
      BY <1>9, <3>2
    <3> QED BY <1>10, <3>2, <3>3
  <2>3. ASSUME NEW x \in 1 .. d, c2[x] = 0 PROVE \E k \in 1 .. m - 1 : L2[k] = x
    <3>1. x # v /\ c[x] = 0
      BY <1>10, <2>3
    <3>2. PICK k \in 1 .. m : L[k] = x
      BY <1>2, <3>1
    <3>3. k \in 1 .. m - 1
      BY <1>5, <1>7, <3>1, <3>2
    <3> QED BY <1>7, <3>2, <3>3
  <2>4. ASSUME NEW x \in 1 .. d PROVE c2[x] <= 1 \/ x \in w2
    BY <1>2, <1>10
  <2> QED BY <1>7, <1>8, <1>10, <2>1, <2>2, <2>3, <2>4 DEF Tracked
<1>17. ASSUME NEW p \in 1 .. n, H[p] # None PROVE H[p].marker \in 0 .. m - 1
  <2>1. HolderFits(H[p], L, c, w)
    BY <1>17 DEF Listed
  <2>2. H[p].marker \in 0 .. m
    BY <2>1 DEF HolderFits, m
  <2>3. CASE p = n
    BY <1>4, <1>5, <2>3
  <2>4. CASE p # n
    BY <2>4, <1>3, <1>13, <1>17, <1>4, <1>5, <2>2 DEF Nested
  <2> QED BY <2>3, <2>4
<1>18. ASSUME NEW p \in 1 .. n, G[p] # None PROVE HolderFits(G[p], L2, c2, w2)
  <2> DEFINE g == G[p]
             h == H[p]
  <2>1. h # None /\ Reduced(g, h, v) /\ HolderFits(h, L, c, w) /\ h.marker \in 0 .. m - 1
    BY <1>15, <1>17, <1>18
  <2>2. v \in ValuesOf(g.scopes) => v \in w2 \/ Ending(g, v)
    BY <1>12, <1>18
  <2> HIDE DEF g, h
  <2>3. /\ g.marker = h.marker /\ Stepped(g.scopes)
        /\ \A x \in ValuesOf(g.scopes) : x \in ValuesOf(h.scopes) /\ (Ending(h, x) => Ending(g, x))
    BY <2>1 DEF Reduced
  <2>4. /\ \A x \in ValuesOf(h.scopes) : x \in 1 .. d
        /\ \A x \in ValuesOf(h.scopes) : c[x] = 0 \/ x \in w \/ Ending(h, x)
        /\ \A k \in 1 .. m : L[k] \in ValuesOf(h.scopes) => k > h.marker
    BY <2>1 DEF HolderFits, m, d
  <2>5. ASSUME NEW x \in ValuesOf(g.scopes) PROVE x \in 1 .. d /\ (c2[x] = 0 \/ x \in w2 \/ Ending(g, x))
    <3>1. CASE x = v
      BY <1>9, <2>2, <2>5, <3>1
    <3>2. CASE x # v
      BY <1>10, <2>3, <2>4, <3>2
    <3> QED BY <3>1, <3>2
  <2>6. ASSUME NEW k \in 1 .. m - 1, L2[k] \in ValuesOf(g.scopes) PROVE k > g.marker
    BY <1>5, <1>7, <2>3, <2>4, <2>6
  <2>7. HolderFits(g, L2, c2, w2)
    BY <1>10, <2>5, <1>7, <2>1, <2>3, <2>6 DEF HolderFits
  <2> QED BY <2>7 DEF g
<1>19. ASSUME NEW p \in 1 .. n, NEW q \in 1 .. n, p < q, G[p] # None, G[q] # None PROVE Nested(G[p], G[q], L2)
  <2>1. H[p] # None /\ H[q] # None /\ Reduced(G[p], H[p], v) /\ Reduced(G[q], H[q], v)
    BY <1>15, <1>19
  <2>2. Nested(H[p], H[q], L)
    BY <1>13, <1>19, <2>1
  <2>3. /\ G[p].marker = H[p].marker /\ G[q].marker = H[q].marker
        /\ \A x \in ValuesOf(G[p].scopes) : x \in ValuesOf(H[p].scopes)
    BY <2>1 DEF Reduced
  <2>4. ASSUME NEW k \in 1 .. m - 1, L2[k] \in ValuesOf(G[p].scopes) PROVE k <= G[q].marker
    BY <1>5, <1>7, <2>3, <2>4, <2>2 DEF m, Nested
  <2>5. G[p].marker <= G[q].marker
    BY <2>2, <2>3 DEF Nested
  <2> QED BY <1>7, <2>4, <2>5 DEF Nested
<1>20. ASSUME NEW k \in 1 .. m - 1 PROVE \E p \in 1 .. n : G[p] # None /\ L2[k] \in ValuesOf(G[p].scopes)
  <2>1. k \in 1 .. m /\ m \in 1 .. m /\ k < m /\ L2[k] = L[k]
    BY <1>5, <1>7
  <2>2. PICK p \in 1 .. n : H[p] # None /\ L[k] \in ValuesOf(H[p].scopes)
    BY <1>14, <2>1
  <2>3. L[k] # v
    BY <1>2, <1>7, <2>1
  <2>4. CASE G[p] = H[p]
    BY <2>1, <2>2, <2>4
  <2>5. CASE Reduced(G[p], H[p], v)
    BY <2>1, <2>2, <2>3, <2>5 DEF Reduced
  <2> QED BY <1>11, <2>4, <2>5
<1>21. DOMAIN G = 1 .. n
  OBVIOUS
<1>22. Listed(G, L2, c2, w2)
  BY <1>7, <1>16, <1>18, <1>19, <1>20, <1>21 DEF Listed
<1> QED BY <1>22 DEF L2, c2, v

(* A value that is not listed any more is closed again.                    *)
LEMMA ClosedAgain ==
    ASSUME NEW H, NEW G, NEW n \in Nat, DOMAIN H = 1 .. n, DOMAIN G = 1 .. n,
           NEW L, NEW c, NEW w, Listed(H, L, c, w), NEW v \in 1 .. Len(c), v \in w,
           \A k \in 1 .. Len(L) : L[k] # v,
           \A p \in 1 .. n : G[p] = H[p] \/ (H[p] # None /\ Reduced(G[p], H[p], v))
    PROVE  Listed(G, L, [c EXCEPT ![v] = @ + 1], w)
<1> DEFINE m == Len(L)
           d == Len(c)
           c2 == [c EXCEPT ![v] = @ + 1]
<1>1. Tracked(L, c, w)
  BY DEF Listed
<1>2. /\ L \in Seq(Nat) /\ c \in Seq(Nat) /\ m \in Nat /\ d \in Nat
      /\ \A i, j \in 1 .. m : i < j => L[i] < L[j]
      /\ \A k \in 1 .. m : L[k] \in 1 .. d /\ c[L[k]] = 0
      /\ \A x \in 1 .. d : c[x] = 0 => \E k \in 1 .. m : L[k] = x
      /\ \A x \in 1 .. d : c[x] <= 1 \/ x \in w
  BY <1>1 DEF Tracked
<1>3. v \in 1 .. d /\ \A k \in 1 .. m : L[k] # v
  OBVIOUS
<1>4. /\ c2 \in Seq(Nat) /\ Len(c2) = d /\ c2[v] # 0 /\ \A x \in 1 .. d : x # v => c2[x] = c[x]
  BY <1>2, <1>3
<1>5. \A k \in 1 .. m : \E p \in 1 .. n : H[p] # None /\ L[k] \in ValuesOf(H[p].scopes)
  BY DEF Listed
<1> HIDE DEF m, d, c2
<1>6. ASSUME NEW p \in 1 .. n, G[p] # None
      PROVE  H[p] # None /\ Reduced(G[p], H[p], v) /\ HolderFits(H[p], L, c, w)
  BY <1>6, AllReduced
<1>7. Tracked(L, c2, w)
  <2>1. \A k \in 1 .. m : c2[L[k]] = 0
    BY <1>2, <1>3, <1>4
  <2>2. ASSUME NEW x \in 1 .. d, c2[x] = 0 PROVE \E k \in 1 .. m : L[k] = x
    BY <1>2, <1>4, <2>2
  <2>3. ASSUME NEW x \in 1 .. d PROVE c2[x] <= 1 \/ x \in w
    BY <1>2, <1>4
  <2> QED BY <1>2, <1>4, <2>1, <2>2, <2>3 DEF Tracked, m
<1>8. ASSUME NEW p \in 1 .. n, G[p] # None PROVE HolderFits(G[p], L, c2, w)
  <2> DEFINE g == G[p]
             h == H[p]
  <2>1. Reduced(g, h, v) /\ HolderFits(h, L, c, w)
    BY <1>6, <1>8
  <2> HIDE DEF g, h
  <2>2. /\ g.marker = h.marker /\ Stepped(g.scopes)
        /\ \A x \in ValuesOf(g.scopes) : x \in ValuesOf(h.scopes) /\ (Ending(h, x) => Ending(g, x))
    BY <2>1 DEF Reduced
  <2>3. /\ h.marker \in 0 .. Len(L)
        /\ \A x \in ValuesOf(h.scopes) : x \in 1 .. d
        /\ \A x \in ValuesOf(h.scopes) : c[x] = 0 \/ x \in w \/ Ending(h, x)
        /\ \A k \in 1 .. Len(L) : L[k] \in ValuesOf(h.scopes) => k > h.marker
    BY <2>1 DEF HolderFits, d
  <2>4. ASSUME NEW x \in ValuesOf(g.scopes) PROVE x \in 1 .. d /\ (c2[x] = 0 \/ x \in w \/ Ending(g, x))
    <3>1. CASE x = v
      BY <1>3, <3>1
    <3>2. CASE x # v
      BY <1>4, <2>2, <2>3, <3>2
    <3> QED BY <3>1, <3>2
  <2>5. HolderFits(g, L, c2, w)
    BY <1>4, <2>4, <2>2, <2>3 DEF HolderFits
  <2> QED BY <2>5 DEF g
<1>9. ASSUME NEW p \in 1 .. n, NEW q \in 1 .. n, p < q, G[p] # None, G[q] # None PROVE Nested(G[p], G[q], L)
  BY <1>6, <1>9 DEF Nested, Reduced, Listed
<1>10. ASSUME NEW k \in 1 .. m PROVE \E p \in 1 .. n : G[p] # None /\ L[k] \in ValuesOf(G[p].scopes)
  <2>1. PICK p \in 1 .. n : H[p] # None /\ L[k] \in ValuesOf(H[p].scopes)
    BY <1>5
  <2>2. CASE G[p] = H[p]
    BY <2>1, <2>2
  <2>3. CASE Reduced(G[p], H[p], v)
    BY <1>3, <2>1, <2>3 DEF Reduced
  <2> QED BY <2>2, <2>3
<1>11. DOMAIN G = 1 .. n
  OBVIOUS
<1>12. Listed(G, L, c2, w)
  BY <1>7, <1>8, <1>9, <1>10, <1>11 DEF Listed, m
<1> QED BY <1>12 DEF c2

-----------------------------------------------------------------------------
(* The places                                                              *)

(* What the activation a holds, when r is the result on its way down: a    *)
(* loop that hands its continuation to the driver has given its scopes     *)
(* away.                                                                   *)
Held(a, r) ==
    IF a.kind = "loop"
    THEN IF a.err = Activation \/ (a.status = "leave" /\ r = Activation) THEN None ELSE a
    ELSE IF a.kind = "handler" THEN a.cont ELSE None

(* The continuations in the driver's frames fs, the captured one, and the  *)
(* activations.                                                            *)
Places(fs, cont, s, r) ==
    [p \in 1 .. Len(fs) + 1 + Len(s) |->
        IF p <= Len(fs) THEN fs[p].cont
        ELSE IF p = Len(fs) + 1 THEN cont
        ELSE Held(s[p - Len(fs) - 1], IF p = Len(fs) + 1 + Len(s) THEN r ELSE None)]

(* A loop below another activation does not leave; it ends with an error.  *)
Stays(a) == a.kind = "loop" => a.status # "leave"
Calm(a) == a.kind = "loop" => a.err.kind # "ok"

(* A loop that ends without an error has nothing left to close.            *)
Emptied(a, r) == a.kind = "loop" /\ a.status = "leave" /\ r.kind = "ok" => ValuesOf(a.scopes) = {}

Formed(s, r) ==
    /\ IsStack(s) /\ s # << >>
    /\ \A i \in 1 .. Len(s) : Calm(s[i])
    /\ \A i \in 1 .. Len(s) - 1 : Stays(s[i])
    /\ Emptied(Last(s), r)

Tidy(fs, cont, s, r, L, c, w) ==
    Len(fs) \in Nat /\ Formed(s, r) /\ Listed(Places(fs, cont, s, r), L, c, w)

(* g takes the place of h, and has all of it that is listed.               *)
Replaces(g, h, L, c, w) ==
    /\ g # None => h # None /\ Follows(g, h, c, w)
    /\ h # None => \A k \in 1 .. Len(L) : L[k] \in ValuesOf(h.scopes) => g # None /\ L[k] \in ValuesOf(g.scopes)

(* A loop that has just started.                                           *)
Starts(a, L) == Stepped(a.scopes) /\ ValuesOf(a.scopes) = {} /\ a.marker = Len(L)

LEMMA SelfReplaces ==
    ASSUME NEW H, NEW L, NEW c, NEW w, Listed(H, L, c, w), NEW p \in DOMAIN H
    PROVE  Replaces(H[p], H[p], L, c, w)
  BY DEF Listed, HolderFits, Follows, Replaces

LEMMA Replaced ==
    ASSUME NEW H, NEW G, NEW n \in Nat, DOMAIN H = 1 .. n, DOMAIN G = 1 .. n,
           NEW L, NEW c, NEW w, Listed(H, L, c, w),
           \A p \in 1 .. n : G[p] = H[p] \/ Replaces(G[p], H[p], L, c, w)
    PROVE  Listed(G, L, c, w)
<1> DEFINE to == [p \in 1 .. n |-> p]
<1>1. \A p \in 1 .. n : Replaces(G[p], H[p], L, c, w)
  BY SelfReplaces
<1>2. \A p \in 1 .. n : to[p] = p
  OBVIOUS
<1> HIDE DEF to
<1>3. \A p \in 1 .. n : G[p] # None => to[p] \in 1 .. n /\ H[to[p]] # None /\ Follows(G[p], H[to[p]], c, w)
  BY <1>1, <1>2 DEF Replaces
<1>4. \A p, q \in 1 .. n : p < q => to[p] < to[q]
  BY <1>2
<1> QED BY <1>3, <1>4, Embedded, <1>1 DEF Replaces

LEMMA Shrunk ==
    ASSUME NEW H, NEW G, NEW n \in Nat, DOMAIN H = 1 .. n + 1, DOMAIN G = 1 .. n,
           NEW L, NEW c, NEW w, Listed(H, L, c, w),
           \A p \in 1 .. n : G[p] = H[p], Replaces(None, H[n + 1], L, c, w)
    PROVE  Listed(G, L, c, w)
<1> DEFINE to == [p \in 1 .. n |-> p]
<1>1. \A p \in 1 .. n : Replaces(G[p], H[p], L, c, w) /\ p \in 1 .. n + 1
  BY SelfReplaces
<1>2. \A p \in 1 .. n : to[p] = p
  OBVIOUS
<1> HIDE DEF to
<1>3. ASSUME NEW p \in 1 .. n + 1, NEW k \in 1 .. Len(L), H[p] # None /\ L[k] \in ValuesOf(H[p].scopes)
      PROVE  \E q \in 1 .. n : G[q] # None /\ L[k] \in ValuesOf(G[q].scopes)
  BY <1>3, <1>1 DEF Replaces
<1>4. \A p, q \in DOMAIN G : p < q /\ G[p] # None /\ G[q] # None => to[p] < to[q]
  BY <1>2
<1>5. \A p \in DOMAIN G : G[p] # None => to[p] \in DOMAIN H /\ H[to[p]] # None /\ Follows(G[p], H[to[p]], c, w)
  BY <1>1, <1>2 DEF Replaces
<1>6. \A p \in DOMAIN H, k \in 1 .. Len(L) : H[p] # None /\ L[k] \in ValuesOf(H[p].scopes) =>
         \E q \in DOMAIN G : G[q] # None /\ L[k] \in ValuesOf(G[q].scopes)
  BY <1>3
<1>7. Listed(H, L, c, w)
  OBVIOUS
<1> QED BY ONLY <1>4, <1>5, <1>6, <1>7, Embedded

LEMMA Grown ==
    ASSUME NEW H, NEW G, NEW n \in Nat, DOMAIN H = 1 .. n, DOMAIN G = 1 .. n + 1,
           NEW L, NEW c, NEW w, Listed(H, L, c, w),
           \A p \in 1 .. n : G[p] = H[p], G[n + 1] = None \/ Starts(G[n + 1], L)
    PROVE  Listed(G, L, c, w)
<1> DEFINE to == [p \in 1 .. n |-> p]
           K == [p \in 1 .. n + 1 |-> IF p \in 1 .. n THEN H[p] ELSE None]
<1>1. \A p \in 1 .. n : Replaces(H[p], H[p], L, c, w) /\ p \in 1 .. n + 1
  BY SelfReplaces
<1>2. \A p \in 1 .. n : to[p] = p
  OBVIOUS
<1>3. /\ DOMAIN K = 1 .. n + 1 /\ K[n + 1] = None /\ (\A p \in 1 .. n : K[p] = H[p])
      /\ \A p \in 1 .. n + 1 : K[p] # None => p \in 1 .. n /\ K[p] = H[p]
  OBVIOUS
<1> HIDE DEF to, K
<1>4. Listed(K, L, c, w)
  <2>1. \A p \in DOMAIN K : K[p] # None => to[p] \in DOMAIN H /\ H[to[p]] # None /\ Follows(K[p], H[to[p]], c, w)
    BY <1>3, <1>1, <1>2 DEF Replaces
  <2>2. \A p \in DOMAIN H, k \in 1 .. Len(L) : H[p] # None /\ L[k] \in ValuesOf(H[p].scopes) =>
           \E q \in DOMAIN K : K[q] # None /\ L[k] \in ValuesOf(K[q].scopes)
    BY <1>3, <1>1 DEF Replaces
  <2>3. \A p, q \in DOMAIN K : p < q /\ K[p] # None /\ K[q] # None => to[p] < to[q]
    BY <1>3, <1>2
  <2>4. Listed(H, L, c, w)
    OBVIOUS
  <2> QED BY ONLY <2>1, <2>2, <2>3, <2>4, Embedded
<1>5. CASE G[n + 1] = None
  BY <1>3, <1>5, <1>4, Replaced
<1>6. CASE Starts(G[n + 1], L)
  <2> DEFINE i == n + 1
  <2>1. /\ i \in Nat /\ i # 0 /\ DOMAIN G = 1 .. i /\ DOMAIN K = 1 .. i /\ K[i] = None
        /\ \A p \in 1 .. i - 1 : G[p] = K[p]
    BY <1>3
  <2> HIDE DEF i
  <2> QED BY <1>4, <2>1, Started, <1>6 DEF Starts
<1> QED BY <1>5, <1>6

LEMMA PlaceFacts ==
    ASSUME NEW fs, NEW cont, NEW s, NEW r, Len(fs) \in Nat, IsStack(s)
    PROVE  LET H == Places(fs, cont, s, r)
               m == Len(fs)
               n == m + 1 + Len(s) IN
           /\ n \in Nat /\ n # 0 /\ DOMAIN H = 1 .. n
           /\ \A p \in 1 .. m : H[p] = fs[p].cont
           /\ H[m + 1] = cont
           /\ s # << >> => H[n] = Held(Last(s), r)
           /\ \A i \in 1 .. Len(s) - 1 : H[m + 1 + i] = Held(s[i], None)
           /\ \A p \in 1 .. n : p \in 1 .. m \/ p = m + 1 \/ p - m - 1 \in 1 .. Len(s) - 1 \/ (s # << >> /\ p = n)
<1> DEFINE H == Places(fs, cont, s, r)
           m == Len(fs)
           k == Len(s)
           n == m + 1 + k
<1>1. k \in Nat /\ m \in Nat /\ (s = << >> <=> k = 0) /\ Last(s) = s[k]
  BY StackFacts
<1>2. DOMAIN H = 1 .. n
  BY DEF Places
<1>3. \A p \in 1 .. n : H[p] = IF p <= m THEN fs[p].cont
                              ELSE IF p = m + 1 THEN cont
                              ELSE Held(s[p - m - 1], IF p = n THEN r ELSE None)
  BY DEF Places
<1> HIDE DEF H, m, k
<1>4. /\ n \in Nat /\ n # 0 /\ (\A p \in 1 .. m : p \in 1 .. n /\ p <= m)
      /\ m + 1 \in 1 .. n /\ ~(m + 1 <= m)
      /\ s # << >> => n \in 1 .. n /\ ~(n <= m) /\ n # m + 1 /\ n - m - 1 = k
      /\ \A i \in 1 .. k - 1 : /\ m + 1 + i \in 1 .. n /\ ~(m + 1 + i <= m) /\ m + 1 + i # m + 1
                               /\ m + 1 + i # n /\ m + 1 + i - m - 1 = i
  BY <1>1
<1>5. \A p \in 1 .. m : H[p] = fs[p].cont
  BY <1>3, <1>4
<1>6. H[m + 1] = cont
  BY <1>3, <1>4
<1>7. s # << >> => H[n] = Held(Last(s), r)
  BY <1>1, <1>3, <1>4
<1>8. ASSUME NEW i \in 1 .. k - 1 PROVE H[m + 1 + i] = Held(s[i], None)
  <2> DEFINE p == m + 1 + i
  <2>1. p \in 1 .. n /\ ~(p <= m) /\ p # m + 1 /\ p # n /\ p - m - 1 = i
    BY <1>1
  <2> HIDE DEF p
  <2>2. H[p] = Held(s[p - m - 1], None)
    BY <1>3, <2>1
  <2> QED BY <2>1, <2>2 DEF p
<1>9. \A p \in 1 .. n : p \in 1 .. m \/ p = m + 1 \/ p - m - 1 \in 1 .. k - 1 \/ (s # << >> /\ p = n)
  BY <1>1
<1> QED BY <1>2, <1>4, <1>5, <1>6, <1>7, <1>8, <1>9 DEF H, m, k

LEMMA SamePlaces ==
    ASSUME NEW fs, NEW cont, NEW s, NEW r, NEW u, NEW r2, Len(fs) \in Nat, IsStack(s), IsStack(u),
           NEW k \in Nat, k < Len(s), k < Len(u), \A i \in 1 .. k : s[i] = u[i]
    PROVE  \A p \in 1 .. Len(fs) + 1 + k : Places(fs, cont, s, r)[p] = Places(fs, cont, u, r2)[p]
<1> DEFINE m == Len(fs)
           x == Len(s)
           y == Len(u)
           H == Places(fs, cont, s, r)
           G == Places(fs, cont, u, r2)
<1>1. x \in Nat /\ y \in Nat /\ m \in Nat /\ k < x /\ k < y
  BY StackFacts
<1>2. \A p \in 1 .. m + 1 + x : H[p] = IF p <= m THEN fs[p].cont
                              ELSE IF p = m + 1 THEN cont
                              ELSE Held(s[p - m - 1], IF p = m + 1 + x THEN r ELSE None)
  BY DEF Places
<1>3. \A p \in 1 .. m + 1 + y : G[p] = IF p <= m THEN fs[p].cont
                              ELSE IF p = m + 1 THEN cont
                              ELSE Held(u[p - m - 1], IF p = m + 1 + y THEN r2 ELSE None)
  BY DEF Places
<1> HIDE DEF H, G, m, x, y
<1>4. ASSUME NEW p \in 1 .. m + 1 + k PROVE H[p] = G[p]
  <2>1. p \in 1 .. m + 1 + x /\ p \in 1 .. m + 1 + y /\ p # m + 1 + x /\ p # m + 1 + y
    BY <1>1
  <2>2. CASE p <= m + 1
    BY <1>1, <2>2, <1>2, <1>3, <2>1
  <2>3. CASE ~(p <= m + 1)
    BY <1>1, <2>3, <1>2, <1>3, <2>1
  <2> QED BY <2>2, <2>3
<1> QED BY <1>4 DEF H, G, m

(* The activation on top becomes b.                                        *)
LEMMA TurnedPlaces ==
    ASSUME NEW fs, NEW cont, NEW s, NEW r, Len(fs) \in Nat, Formed(s, r),
           NEW b, NEW r2, Calm(b), Emptied(b, r2)
    PROVE  LET u == Append(Front(s), b)
               n == Len(fs) + 1 + Len(s)
               H == Places(fs, cont, s, r)
               G == Places(fs, cont, u, r2) IN
           /\ Formed(u, r2) /\ Last(u) = b
           /\ n \in Nat /\ n # 0 /\ DOMAIN H = 1 .. n /\ DOMAIN G = 1 .. n
           /\ H[n] = Held(Last(s), r) /\ G[n] = Held(b, r2)
           /\ \A p \in 1 .. n - 1 : G[p] = H[p]
<1> DEFINE u == Append(Front(s), b)
           k == Len(s)
           m == Len(fs)
           n == m + 1 + k
           H == Places(fs, cont, s, r)
           G == Places(fs, cont, u, r2)
<1>1. /\ m \in Nat /\ IsStack(s) /\ s # << >> /\ (\A i \in 1 .. k : Calm(s[i]))
      /\ \A i \in 1 .. k - 1 : Stays(s[i])
  BY DEF Formed
<1>2. k \in Nat \ {0} /\ k - 1 \in Nat
  BY <1>1, StackFacts
<1>3. IsStack(u) /\ Len(u) = k /\ Last(u) = b /\ u[k] = b /\ \A i \in 1 .. k - 1 : u[i] = s[i]
  BY <1>1, ReplaceTotals
<1>4. u # << >>
  BY <1>2, <1>3, EmptyStack
<1>5. n \in Nat /\ n # 0 /\ DOMAIN H = 1 .. n /\ H[n] = Held(Last(s), r)
  BY <1>1, PlaceFacts
<1> HIDE DEF u
<1>6. DOMAIN G = 1 .. m + 1 + Len(u) /\ G[m + 1 + Len(u)] = Held(Last(u), r2)
  <2>1. Len(fs) \in Nat /\ IsStack(u) /\ u # << >>
    BY <1>1, <1>3, <1>4
  <2> QED BY ONLY <2>1, PlaceFacts
<1> HIDE DEF H, G, k, m
<1>7. \A p \in 1 .. m + 1 + (k - 1) : H[p] = G[p]
  <2>1. k - 1 < Len(s) /\ k - 1 < Len(u)
    BY <1>2, <1>3 DEF k
  <2>2. \A i \in 1 .. k - 1 : s[i] = u[i]
    BY <1>3
  <2>3. Len(fs) \in Nat /\ IsStack(s) /\ IsStack(u) /\ k - 1 \in Nat
    BY <1>1, <1>2, <1>3 DEF m
  <2>4. \A p \in 1 .. Len(fs) + 1 + (k - 1) : Places(fs, cont, s, r)[p] = Places(fs, cont, u, r2)[p]
    BY ONLY <2>1, <2>2, <2>3, SamePlaces
  <2> QED BY <2>4 DEF H, G, m
<1>8. DOMAIN G = 1 .. n /\ G[n] = Held(b, r2)
  BY <1>3, <1>6
<1>9. ASSUME NEW p \in 1 .. n - 1 PROVE G[p] = H[p]
  BY <1>1, <1>2, <1>7
<1>10. \A i \in 1 .. k : Calm(u[i])
  BY <1>2, <1>1, <1>3
<1>11. Formed(u, r2)
  BY <1>1, <1>3, <1>4, <1>10 DEF Formed
<1> QED BY <1>3, <1>5, <1>8, <1>9, <1>11 DEF G, H, u, m, k

LEMMA TidyTurned ==
    ASSUME NEW fs, NEW cont, NEW s, NEW r, NEW L, NEW c, NEW w, Tidy(fs, cont, s, r, L, c, w),
           NEW b, NEW r2, Replaces(Held(b, r2), Held(Last(s), r), L, c, w), Calm(b), Emptied(b, r2)
    PROVE  Tidy(fs, cont, Append(Front(s), b), r2, L, c, w) /\ Last(Append(Front(s), b)) = b
<1> DEFINE u == Append(Front(s), b)
           n == Len(fs) + 1 + Len(s)
           H == Places(fs, cont, s, r)
           G == Places(fs, cont, u, r2)
<1>1. Len(fs) \in Nat /\ Formed(s, r) /\ Listed(H, L, c, w)
  BY DEF Tidy
<1>2. /\ Formed(u, r2) /\ Last(u) = b
      /\ n \in Nat /\ n # 0 /\ DOMAIN H = 1 .. n /\ DOMAIN G = 1 .. n
      /\ H[n] = Held(Last(s), r) /\ G[n] = Held(b, r2)
      /\ \A p \in 1 .. n - 1 : G[p] = H[p]
  BY <1>1, TurnedPlaces
<1> HIDE DEF u, n, H, G
<1>3. Listed(G, L, c, w)
  BY <1>1, <1>2, Replaced
<1> QED BY <1>1, <1>2, <1>3 DEF Tidy, G, u

LEMMA StayHeld ==
    ASSUME NEW a, Stays(a)
    PROVE  /\ \A r : Held(a, r) = Held(a, None)
           /\ \A r : Emptied(a, r)
BY NotActivation DEF Stays, Held, Emptied

(* The result changes.                                                     *)
LEMMA TidyAnswer ==
    ASSUME NEW fs, NEW cont, NEW s, NEW r, NEW L, NEW c, NEW w, Tidy(fs, cont, s, r, L, c, w),
           Stays(Last(s)), NEW r2
    PROVE  Tidy(fs, cont, s, r2, L, c, w)
<1>1. Len(fs) \in Nat /\ Formed(s, r) /\ Listed(Places(fs, cont, s, r), L, c, w)
  BY DEF Tidy
<1>2. IsStack(s) /\ s # << >>
  BY <1>1 DEF Formed
<1> DEFINE H == Places(fs, cont, s, r)
           G == Places(fs, cont, s, r2)
           k == Len(s)
           m == Len(fs)
           n == m + 1 + k
<1>3. n \in Nat /\ DOMAIN H = 1 .. n /\ DOMAIN G = 1 .. n /\ H[n] = Held(Last(s), r) /\ G[n] = Held(Last(s), r2)
  BY <1>1, <1>2, PlaceFacts
<1>4. Held(Last(s), r) = Held(Last(s), r2) /\ Emptied(Last(s), r2)
  <2> DEFINE a == Last(s)
  <2>1. Stays(a)
    OBVIOUS
  <2> HIDE DEF a
  <2>2. Held(a, r) = Held(a, r2) /\ Emptied(a, r2)
    BY <2>1, StayHeld
  <2> QED BY <2>2 DEF a
<1>5. k \in Nat \ {0} /\ k - 1 \in Nat /\ m \in Nat
  BY <1>1, <1>2, StackFacts
<1> HIDE DEF H, G, k, m
<1>6. \A p \in 1 .. m + 1 + (k - 1) : H[p] = G[p]
  BY <1>5, <1>1, <1>2, SamePlaces DEF k, H, G, m
<1>7. \A p \in 1 .. n : G[p] = H[p]
  BY <1>5, <1>3, <1>4, <1>6
<1>8. Listed(G, L, c, w)
  BY <1>1, <1>3, <1>7, Replaced DEF H
<1>9. Formed(s, r2)
  BY <1>1, <1>4 DEF Formed
<1> QED BY <1>1, <1>8, <1>9 DEF Tidy, G

(* a is put on top.                                                        *)
LEMMA TidyPushed ==
    ASSUME NEW fs, NEW cont, NEW s, NEW r, NEW L, NEW c, NEW w, Tidy(fs, cont, s, r, L, c, w),
           Stays(Last(s)), NEW a, NEW r2, Calm(a), Emptied(a, r2),
           Held(a, r2) = None \/ Starts(Held(a, r2), L)
    PROVE  Tidy(fs, cont, Append(s, a), r2, L, c, w) /\ Last(Append(s, a)) = a
<1> DEFINE u == Append(s, a)
           k == Len(s)
           m == Len(fs)
           n == m + 1 + k
           H == Places(fs, cont, s, r)
           G == Places(fs, cont, u, r2)
<1>1. /\ m \in Nat /\ IsStack(s) /\ s # << >> /\ (\A i \in 1 .. k : Calm(s[i])) /\ Listed(H, L, c, w)
      /\ \A i \in 1 .. k - 1 : Stays(s[i])
  BY DEF Tidy, Formed
<1>2. k \in Nat \ {0} /\ k - 1 \in Nat /\ Last(s) = s[k]
  BY <1>1, StackFacts
<1>3. IsStack(u) /\ Len(u) = k + 1 /\ u[k + 1] = a /\ \A i \in 1 .. k : u[i] = s[i]
  BY <1>1, PushFacts
<1>4. u # << >> /\ Last(u) = a
  BY <1>1, LastPushed
<1>5. n \in Nat /\ DOMAIN H = 1 .. n /\ H[n] = Held(Last(s), r)
  BY <1>1, PlaceFacts
<1> HIDE DEF u
<1>6. DOMAIN G = 1 .. m + 1 + Len(u) /\ G[m + 1 + Len(u)] = Held(Last(u), r2)
  <2>1. m \in Nat /\ IsStack(u) /\ u # << >>
    BY <1>1, <1>3, <1>4
  <2> QED BY ONLY <2>1, PlaceFacts
<1>7. \A i \in 1 .. Len(u) - 1 : G[m + 1 + i] = Held(u[i], None)
  <2>1. m \in Nat /\ IsStack(u)
    BY <1>1, <1>3
  <2> QED BY ONLY <2>1, PlaceFacts
<1> DEFINE z == Last(s)
<1>8. Stays(z) /\ z = s[k] /\ H[n] = Held(z, r)
  BY <1>2, <1>5
<1> HIDE DEF H, G, k, m, z
<1>9. \A p \in 1 .. m + 1 + (k - 1) : H[p] = G[p]
  <2>1. k - 1 < Len(s) /\ k - 1 < Len(u)
    BY <1>2, <1>3 DEF k
  <2>2. \A i \in 1 .. k - 1 : s[i] = u[i]
    BY <1>2, <1>3
  <2> QED BY <1>1, <1>2, <1>3, <2>1, <2>2, SamePlaces DEF H, G, m
<1>10. DOMAIN G = 1 .. n + 1 /\ G[n + 1] = Held(a, r2)
  BY <1>1, <1>2, <1>3, <1>4, <1>6
<1>11. G[n] = H[n]
  BY <1>2, <1>3, <1>8, <1>7, StayHeld
<1>12. \A p \in 1 .. n : G[p] = H[p]
  BY <1>1, <1>2, <1>9, <1>11
<1>13. Listed(G, L, c, w)
  BY <1>1, <1>5, <1>10, <1>12, Grown
<1>14. \A i \in 1 .. k + 1 : Calm(u[i])
  BY <1>2, <1>1, <1>3
<1>15. \A i \in 1 .. k + 1 - 1 : Stays(u[i])
  BY <1>2, <1>1, <1>3, <1>8
<1>16. Formed(u, r2)
  <2>1. Emptied(Last(u), r2)
    BY <1>4
  <2>2. ASSUME NEW i \in 1 .. Len(u) PROVE Calm(u[i])
    BY <1>3, <1>14
  <2>3. ASSUME NEW i \in 1 .. Len(u) - 1 PROVE Stays(u[i])
    BY <1>2, <1>3, <1>15
  <2> QED BY <1>3, <1>4, <2>1, <2>2, <2>3 DEF Formed
<1> QED BY <1>1, <1>4, <1>13, <1>16 DEF Tidy, G, u, m

(* What is on top is taken off.                                            *)
LEMMA TidyPopped ==
    ASSUME NEW fs, NEW cont, NEW s, NEW r, NEW L, NEW c, NEW w, Tidy(fs, cont, s, r, L, c, w),
           Len(s) > 1, Replaces(None, Held(Last(s), r), L, c, w), NEW r2
    PROVE  Tidy(fs, cont, Front(s), r2, L, c, w) /\ Stays(Last(Front(s)))
<1> DEFINE u == Front(s)
           k == Len(s)
           m == Len(fs)
           H == Places(fs, cont, s, r)
           G == Places(fs, cont, u, r2)
<1>1. /\ m \in Nat /\ IsStack(s) /\ s # << >> /\ (\A i \in 1 .. k : Calm(s[i])) /\ Listed(H, L, c, w)
      /\ \A i \in 1 .. k - 1 : Stays(s[i])
  BY DEF Tidy, Formed
<1>2. k \in Nat /\ k > 1
  BY <1>1, StackFacts
<1>3. IsStack(u) /\ Len(u) = k - 1 /\ \A i \in 1 .. k - 1 : u[i] = s[i]
  BY <1>1, PopFacts
<1>4. /\ DOMAIN H = 1 .. m + 1 + k /\ H[m + 1 + k] = Held(Last(s), r)
      /\ \A i \in 1 .. k - 1 : H[m + 1 + i] = Held(s[i], None)
  BY <1>1, PlaceFacts
<1>5. DOMAIN G = 1 .. m + 1 + Len(u) /\ (u # << >> => G[m + 1 + Len(u)] = Held(Last(u), r2))
  BY <1>1, <1>3, PlaceFacts
<1>6. Replaces(None, H[m + 1 + k], L, c, w)
  BY <1>4
<1> HIDE DEF u, H, G, k, m
<1> DEFINE j == k - 1
           n == m + 1 + j
           z == Last(u)
<1>7. j \in Nat \ {0} /\ j - 1 \in Nat /\ j \in 1 .. k /\ j \in 1 .. k - 1 /\ j < k /\ j - 1 < j /\ n \in Nat /\ n + 1 = m + 1 + k
  BY <1>1, <1>2
<1>8. u # << >> /\ z = u[j] /\ z = s[j] /\ Len(u) = j
  BY <1>3, <1>7, StackFacts
<1>9. Stays(z) /\ Calm(z)
  BY <1>1, <1>7, <1>8
<1>10. DOMAIN H = 1 .. n + 1 /\ DOMAIN G = 1 .. n /\ G[n] = Held(z, r2) /\ H[n] = Held(z, None) /\ Replaces(None, H[n + 1], L, c, w)
  BY <1>4, <1>5, <1>6, <1>7, <1>8
<1> HIDE DEF z
<1>11. G[n] = H[n] /\ Emptied(z, r2)
  BY <1>9, <1>10, StayHeld
<1>12. \A p \in 1 .. m + 1 + (j - 1) : H[p] = G[p]
  <2>1. \A i \in 1 .. j - 1 : s[i] = u[i]
    BY <1>3, <1>7
  <2>2. j - 1 < Len(s) /\ j - 1 < Len(u)
    BY <1>7, <1>8 DEF k
  <2> HIDE DEF j, n
  <2>3. Len(fs) \in Nat /\ IsStack(s) /\ IsStack(u) /\ j - 1 \in Nat
    BY <1>1, <1>3, <1>7 DEF m
  <2>4. \A p \in 1 .. Len(fs) + 1 + (j - 1) : Places(fs, cont, s, r)[p] = Places(fs, cont, u, r2)[p]
    BY ONLY <2>1, <2>2, <2>3, SamePlaces
  <2> QED BY <2>4 DEF H, G, m
<1>13. \A p \in 1 .. n : G[p] = H[p]
  BY <1>1, <1>7, <1>11, <1>12
<1>14. Listed(G, L, c, w)
  <2> HIDE DEF n
  <2> QED BY <1>1, <1>7, <1>10, <1>13, Shrunk
<1>15. Formed(u, r2)
  BY <1>2, <1>1, <1>3, <1>7, <1>8, <1>11 DEF z, Formed
<1>16. Tidy(fs, cont, u, r2, L, c, w)
  BY <1>1, <1>14, <1>15 DEF Tidy, G, m
<1> QED BY <1>9, <1>16 DEF u, z

(* A loop starts on top.                                                   *)
LEMMA TidyStarted ==
    ASSUME NEW fs, NEW cont, NEW s, NEW r, NEW L, NEW c, NEW w, Tidy(fs, cont, s, r, L, c, w),
           Stays(Last(s)), NEW by, NEW id, NEW catch, NEW depth
    PROVE  Tidy(fs, cont, Append(s, NewLoop(by, id, catch, depth, Len(L))), None, L, c, w)
<1> DEFINE a == NewLoop(by, id, catch, depth, Len(L))
<1>1. a.kind = "loop" /\ a.err = None /\ a.status = "run" /\ a.scopes = << << >> >> /\ a.marker = Len(L)
  BY DEF NewLoop
<1> HIDE DEF a
<1>2. Held(a, None) = a
  BY <1>1, NotActivation DEF Held
<1>3. Starts(a, L)
  BY <1>1, NoScopes DEF Starts
<1>4. Calm(a) /\ Emptied(a, None)
  BY <1>1 DEF Calm, Emptied, None
<1> QED BY <1>2, <1>3, <1>4, TidyPushed DEF a

LEMMA TidyCalled ==
    ASSUME NEW fs, NEW cont, NEW s, NEW r, NEW L, NEW c, NEW w, Tidy(fs, cont, s, r, L, c, w),
           Stays(Last(s)), NEW s2, NEW r2, NEW id, NEW catch, NEW depth,
           Called(s, s2, r2, id, catch, depth, Len(L))
    PROVE  Tidy(fs, cont, s2, r2, L, c, w)
<1>1. CASE depth + 1 > CallLimit
  BY <1>1, TidyAnswer DEF Called
<1>2. CASE ~(depth + 1 > CallLimit)
  BY <1>2, TidyStarted DEF Called
<1> QED BY <1>1, <1>2

(* What the loop on top holds.                                             *)
LEMMA TopHolds ==
    ASSUME NEW fs, NEW cont, NEW s, NEW r, NEW L, NEW c, NEW w, Tidy(fs, cont, s, r, L, c, w),
           Last(s).kind = "loop", Held(Last(s), r) = Last(s)
    PROVE  LET n == Len(fs) + 1 + Len(s)
               H == Places(fs, cont, s, r) IN
           /\ HolderFits(Last(s), L, c, w) /\ Last(s) # None
           /\ L \in Seq(Nat) /\ c \in Seq(Nat)
           /\ n \in Nat /\ n # 0 /\ DOMAIN H = 1 .. n /\ H[n] = Last(s) /\ Listed(H, L, c, w)
<1> DEFINE n == Len(fs) + 1 + Len(s)
           H == Places(fs, cont, s, r)
<1>1. Len(fs) \in Nat /\ IsStack(s) /\ s # << >> /\ Listed(H, L, c, w)
  BY DEF Tidy, Formed
<1>2. n \in Nat /\ n # 0 /\ DOMAIN H = 1 .. n /\ H[n] = Last(s)
  BY <1>1, PlaceFacts
<1>3. Last(s) # None
  BY DEF None
<1> HIDE DEF n, H
<1>4. n \in DOMAIN H
  BY <1>2
<1>5. HolderFits(Last(s), L, c, w) /\ Tracked(L, c, w)
  BY <1>1, <1>2, <1>3, <1>4 DEF Listed
<1> QED BY <1>1, <1>2, <1>3, <1>5 DEF Tracked, n, H

(* The loop on top goes on and keeps what is listed of it.                 *)
LEMMA TidyRevised ==
    ASSUME NEW fs, NEW cont, NEW s, NEW r, NEW L, NEW c, NEW w, Tidy(fs, cont, s, r, L, c, w),
           Last(s).kind = "loop", Held(Last(s), r) = Last(s),
           NEW sc, Stepped(sc), \A v \in ValuesOf(sc) : v \in ValuesOf(Last(s).scopes),
           \A k \in 1 .. Len(L) : L[k] \in ValuesOf(Last(s).scopes) => L[k] \in ValuesOf(sc),
           NEW st, \A v \in ValuesOf(sc) : Ending(Last(s), v) => st \in {"unwind", "leave"},
           NEW e, e.kind # "ok", e # Activation,
           NEW r2, st = "leave" => r2 # Activation /\ (r2.kind = "ok" => ValuesOf(sc) = {})
    PROVE  Tidy(fs, cont, Append(Front(s), Revised(Last(s), sc, st, e)), r2, L, c, w)
<1> DEFINE a == Last(s)
           b == Revised(a, sc, st, e)
<1>1. /\ b.kind = "loop" /\ b.marker = a.marker /\ b.scopes = sc /\ b.status = st /\ b.err = e
  BY RevisedFields
<1>2. a # None
  BY DEF None
<1> HIDE DEF b
<1>3. Held(b, r2) = b /\ b # None
  BY <1>1 DEF Held, None
<1>4. Follows(b, a, c, w)
  BY <1>1 DEF Follows, Ending
<1>5. Replaces(b, a, L, c, w)
  BY <1>1, <1>2, <1>3, <1>4 DEF Replaces
<1>6. Calm(b) /\ Emptied(b, r2)
  BY <1>1 DEF Calm, Emptied
<1>7. Replaces(Held(b, r2), Held(Last(s), r), L, c, w)
  BY <1>3, <1>5
<1> QED BY <1>6, <1>7, TidyTurned DEF b

LEMMA TidySame ==
    ASSUME NEW fs, NEW cont, NEW s, NEW r, NEW L, NEW c, NEW w, Tidy(fs, cont, s, r, L, c, w),
           Last(s).kind = "loop", Held(Last(s), r) = Last(s),
           NEW st, Last(s).status \in {"run", "busy"} \/ st \in {"unwind", "leave"},
           NEW e, e.kind # "ok", e # Activation,
           NEW r2, st = "leave" => r2 # Activation /\ r2.kind # "ok"
    PROVE  Tidy(fs, cont, Append(Front(s), Revised(Last(s), Last(s).scopes, st, e)), r2, L, c, w)
  BY TopHolds, TidyRevised DEF HolderFits, Ending

-----------------------------------------------------------------------------
(* What a step does to the list and to what is held                      *)

(* A local with a to-be-closed value is declared in the loop on top.       *)
LEMMA TidyOpened ==
    ASSUME NEW fs, NEW cont, NEW s, NEW r, NEW L, NEW c, NEW w, Tidy(fs, cont, s, r, L, c, w),
           NEW a, a = Last(s), a.kind = "loop", Held(a, r) = a, a.status = "run", a.scopes # << >>,
           NEW v, v = Len(c) + 1,
           NEW sc, sc = [a.scopes EXCEPT ![Len(a.scopes)] = Append(a.scopes[Len(a.scopes)], v)]
    PROVE  Tidy(fs, cont, Append(Front(s), Revised(a, sc, "run", None)), None, Append(L, v), Append(c, 0), w)
<1> DEFINE n == Len(fs) + 1 + Len(s)
           H == Places(fs, cont, s, r)
           b == Revised(a, sc, "run", None)
           u == Append(Front(s), b)
           G == Places(fs, cont, u, None)
<1>1. /\ HolderFits(a, L, c, w) /\ a # None /\ c \in Seq(Nat)
      /\ n \in Nat /\ n # 0 /\ DOMAIN H = 1 .. n /\ H[n] = a /\ Listed(H, L, c, w)
  BY TopHolds
<1>2. Stepped(a.scopes) /\ ValuesOf(a.scopes) \subseteq 1 .. Len(c)
  BY <1>1 DEF HolderFits
<1>3. v \in Nat /\ \A x \in ValuesOf(a.scopes) : x < v
  <2>1. Len(c) \in Nat
    BY <1>1
  <2> QED BY <1>2, <2>1
<1>4. Stepped(sc) /\ \A x : x \in ValuesOf(sc) <=> x \in ValuesOf(a.scopes) \/ x = v
  <2>1. a.scopes # << >> /\ sc = [a.scopes EXCEPT ![Len(a.scopes)] = Append(a.scopes[Len(a.scopes)], v)]
    OBVIOUS
  <2> QED BY ONLY <1>2, <1>3, <2>1, OpenedScopes
<1>5. b.kind = "loop" /\ b.marker = a.marker /\ b.scopes = sc /\ b.status = "run" /\ b.err = None
  BY RevisedFields
<1> HIDE DEF b
<1>6. Held(b, None) = b /\ b # None /\ Calm(b) /\ Emptied(b, None)
  BY <1>5, NotActivation DEF Held, None, Calm, Emptied
<1>7. Len(fs) \in Nat /\ Formed(s, r)
  BY DEF Tidy
<1>8. /\ Formed(u, None) /\ DOMAIN G = 1 .. n /\ G[n] = b /\ \A p \in 1 .. n - 1 : G[p] = H[p]
  <2>1. Calm(b) /\ Emptied(b, None) /\ Held(b, None) = b /\ Len(fs) \in Nat /\ Formed(s, r)
    BY <1>6, <1>7
  <2>2. /\ Formed(u, None) /\ DOMAIN G = 1 .. n /\ G[n] = Held(b, None) /\ \A p \in 1 .. n - 1 : G[p] = H[p]
    BY ONLY <2>1, TurnedPlaces
  <2> QED BY <2>1, <2>2
<1> HIDE DEF n, H, G, u
<1>9. /\ \A p \in 1 .. n - 1 : G[p] = H[p]
      /\ H[n] # None /\ H[n].status = "run" /\ G[n].status = "run" /\ G[n].marker = H[n].marker /\ Stepped(G[n].scopes)
      /\ \A x : x \in ValuesOf(G[n].scopes) <=> x \in ValuesOf(H[n].scopes) \/ x = Len(c) + 1
      /\ G[n] # None
  BY <1>1, <1>4, <1>5, <1>6, <1>8
<1>10. Listed(G, Append(L, Len(c) + 1), Append(c, 0), w)
  BY ONLY <1>1, <1>8, <1>9, Opened
<1> QED BY <1>7, <1>8, <1>10 DEF Tidy, G, u, b

(* The loop on top takes the value of its innermost scope, and closes it.  *)
LEMMA TidyClosed ==
    ASSUME NEW fs, NEW cont, NEW s, NEW r, NEW L, NEW c, NEW w, Tidy(fs, cont, s, r, L, c, w),
           NEW a, a = Last(s), a.kind = "loop", Held(a, r) = a, a.status = "run", a.scopes # << >>,
           Last(a.scopes) # << >>, NEW v, v = Last(Last(a.scopes)),
           NEW sc, sc = [a.scopes EXCEPT ![Len(a.scopes)] = Front(a.scopes[Len(a.scopes)])],
           NEW L2, L2 = IF L # << >> /\ Last(L) = v THEN Front(L) ELSE L, NEW r2
    PROVE  Tidy(fs, cont, Append(Front(s), Revised(a, sc, "busy", None)), r2, L2, [c EXCEPT ![v] = @ + 1], w)
<1> DEFINE n == Len(fs) + 1 + Len(s)
           H == Places(fs, cont, s, r)
           b == Revised(a, sc, "busy", None)
           u == Append(Front(s), b)
           G == Places(fs, cont, u, r2)
           m == Len(L)
<1>1. /\ HolderFits(a, L, c, w) /\ a # None /\ L \in Seq(Nat) /\ c \in Seq(Nat)
      /\ n \in Nat /\ n # 0 /\ DOMAIN H = 1 .. n /\ H[n] = a /\ Listed(H, L, c, w)
  BY TopHolds
<1>2. /\ Stepped(a.scopes) /\ ValuesOf(a.scopes) \subseteq 1 .. Len(c) /\ a.marker \in 0 .. m
      /\ \A x \in ValuesOf(a.scopes) : c[x] = 0 \/ x \in w \/ Ending(a, x)
      /\ \A k \in 1 .. m : L[k] \in ValuesOf(a.scopes) => k > a.marker
  BY <1>1 DEF HolderFits
<1>3. /\ Stepped(sc) /\ v \in ValuesOf(a.scopes)
      /\ \A x : x \in ValuesOf(sc) <=> x \in ValuesOf(a.scopes) /\ x # v
      /\ \A x \in ValuesOf(sc) : x < v
  BY <1>2, TakenScopes
<1>4. b.kind = "loop" /\ b.marker = a.marker /\ b.scopes = sc /\ b.status = "busy" /\ b.err = None
  BY RevisedFields
<1> HIDE DEF b
<1>5. Held(b, r2) = b /\ b # None /\ Calm(b) /\ Emptied(b, r2)
  BY <1>4, NotActivation DEF Held, None, Calm, Emptied
<1>6. Len(fs) \in Nat /\ Formed(s, r)
  BY DEF Tidy
<1>7. /\ Formed(u, r2) /\ DOMAIN G = 1 .. n /\ G[n] = b /\ \A p \in 1 .. n - 1 : G[p] = H[p]
  <2>1. Calm(b) /\ Emptied(b, r2) /\ Held(b, r2) = b /\ Len(fs) \in Nat /\ Formed(s, r)
    BY <1>5, <1>6
  <2>2. /\ Formed(u, r2) /\ DOMAIN G = 1 .. n /\ G[n] = Held(b, r2) /\ \A p \in 1 .. n - 1 : G[p] = H[p]
    BY ONLY <2>1, TurnedPlaces
  <2> QED BY <2>1, <2>2
<1>8. \A x : ~Ending(a, x)
  BY DEF Ending
<1> HIDE DEF n, H, G, u
<1>9. Reduced(b, a, v)
  BY <1>3, <1>4, <1>5, <1>8 DEF Reduced
<1>10. \A p \in 1 .. n : p \in 1 .. n - 1 \/ p = n
  BY <1>1
<1>11. \A p \in 1 .. n : G[p] = H[p] \/ (H[p] # None /\ Reduced(G[p], H[p], v))
  BY <1>1, <1>7, <1>9, <1>10
<1>12. m \in Nat /\ (m # 0 => Last(L) = L[m] /\ L # << >>) /\ (L # << >> => m # 0)
  BY <1>1 DEF Last
(* No place below holds what is listed behind the marker of a.             *)
<1>13. ASSUME NEW p \in 1 .. n - 1, H[p] # None, NEW k \in 1 .. m, L[k] \in ValuesOf(H[p].scopes)
       PROVE  k <= a.marker
  <2>1. p \in 1 .. n /\ n \in 1 .. n /\ p < n
    BY <1>1
  <2>2. Nested(H[p], H[n], L)
    BY <1>1, <1>13, <2>1 DEF Listed
  <2> QED BY <1>1, <1>13, <2>2 DEF Nested, m
<1>14. CASE L # << >> /\ Last(L) = v
  <2>1. m \in 1 .. m /\ L[m] = v
    BY <1>12, <1>14
  <2>2. m > a.marker
    BY <1>2, <1>3, <2>1
  <2>3. ASSUME NEW p \in 1 .. n, G[p] # None, v \in ValuesOf(G[p].scopes) PROVE FALSE
    <3>1. CASE p = n
      BY <1>3, <1>4, <1>7, <2>3, <3>1
    <3>2. CASE p \in 1 .. n - 1
      BY <1>7, <2>1, <2>3, <3>2, <1>13, <1>2, <1>12, <2>2
    <3> QED BY <1>10, <3>1, <3>2
  <2>4. /\ H[n] # None /\ Len(L) > H[n].marker
        /\ \A p \in 1 .. n : G[p] = H[p] \/ (H[p] # None /\ Reduced(G[p], H[p], Last(L)))
        /\ \A p \in 1 .. n : G[p] # None /\ Last(L) \in ValuesOf(G[p].scopes) => Last(L) \in w \/ Ending(G[p], Last(L))
    BY <1>1, <1>11, <1>14, <2>2, <2>3 DEF m
  <2>5. Listed(G, Front(L), [c EXCEPT ![Last(L)] = @ + 1], w)
    BY ONLY <1>1, <1>7, <2>4, NewestClosed
  <2>6. L2 = Front(L) /\ Last(L) = v
    BY <1>14
  <2> QED BY <1>6, <1>7, <2>5, <2>6 DEF Tidy, G, u, b
<1>15. CASE ~(L # << >> /\ Last(L) = v)
  <2>1. /\ \A i, j \in 1 .. m : i < j => L[i] < L[j]
        /\ \A x \in 1 .. Len(c) : c[x] = 0 => \E k \in 1 .. m : L[k] = x
        /\ \A k \in 1 .. m : \E p \in 1 .. n : H[p] # None /\ L[k] \in ValuesOf(H[p].scopes)
    BY <1>1 DEF Listed, Tracked, m
  <2>2. ASSUME NEW k \in 1 .. m, L[k] = v PROVE FALSE
    <3>1. k > a.marker
      BY <1>2, <1>3, <2>2
    <3>2. m # 0 /\ m \in 1 .. m /\ k # m
      BY <1>12, <1>15, <2>2
    <3>3. k < m /\ L[k] < L[m]
      BY <1>12, <2>1, <3>2
    <3>4. PICK p \in 1 .. n : H[p] # None /\ L[m] \in ValuesOf(H[p].scopes)
      BY <2>1, <3>2
    <3>5. L[m] \in Nat /\ L[k] \in Nat
      BY <1>1, <3>2
    <3>6. CASE p = n
      <4>1. L[m] \in ValuesOf(a.scopes)
        BY <1>1, <3>4, <3>6
      <4>2. L[m] < v \/ L[m] = v
        BY <1>3, <4>1
      <4> QED BY <2>2, <3>3, <3>5, <4>2
    <3>7. CASE p \in 1 .. n - 1
      <4>1. m <= a.marker
        BY <1>13, <3>2, <3>4, <3>7
      <4> QED BY <1>2, <1>12, <3>1, <3>3, <4>1
    <3> QED BY <1>10, <3>4, <3>6, <3>7
  <2>3. v \in 1 .. Len(c) /\ c[v] # 0 /\ v \in w
    BY <1>2, <1>3, <1>8, <2>1, <2>2
  <2>4. \A k \in 1 .. Len(L) : L[k] # v
    BY <2>2 DEF m
  <2>5. Listed(G, L, [c EXCEPT ![v] = @ + 1], w)
    BY ONLY <1>1, <1>7, <1>11, <2>3, <2>4, ClosedAgain
  <2>6. L2 = L
    BY <1>15
  <2> QED BY <1>6, <1>7, <2>5, <2>6 DEF Tidy, G, u, b
<1> QED BY <1>14, <1>15

(* The loop on top closes the value that was listed last.                  *)
LEMMA TidySwept ==
    ASSUME NEW fs, NEW cont, NEW s, NEW r, NEW L, NEW c, NEW w, Tidy(fs, cont, s, r, L, c, w),
           Last(s).kind = "loop", Held(Last(s), r) = Last(s), Len(L) > Last(s).marker,
           NEW w2, w \subseteq w2,
           \/ Last(L) \in w2 \/ Ending(Last(s), Last(L))
           \/ \A p \in DOMAIN Places(fs, cont, s, r) :
                Places(fs, cont, s, r)[p] # None => Last(L) \notin ValuesOf(Places(fs, cont, s, r)[p].scopes)
    PROVE  Tidy(fs, cont, s, r, Front(L), [c EXCEPT ![Last(L)] = @ + 1], w2)
<1> DEFINE n == Len(fs) + 1 + Len(s)
           H == Places(fs, cont, s, r)
           a == Last(s)
           m == Len(L)
           v == Last(L)
<1>1. /\ HolderFits(a, L, c, w) /\ a # None /\ L \in Seq(Nat) /\ c \in Seq(Nat)
      /\ n \in Nat /\ n # 0 /\ DOMAIN H = 1 .. n /\ H[n] = a /\ Listed(H, L, c, w)
  BY TopHolds
<1>2. Len(fs) \in Nat /\ Formed(s, r)
  BY DEF Tidy
<1>3. \/ v \in w2 \/ Ending(a, v)
      \/ \A p \in DOMAIN H : H[p] # None => v \notin ValuesOf(H[p].scopes)
  OBVIOUS
<1>4. m > a.marker /\ a.marker \in 0 .. m
  BY <1>1 DEF HolderFits
<1> HIDE DEF n, H, a
<1>5. m \in Nat \ {0} /\ m \in 1 .. m /\ v = L[m]
  BY <1>1, <1>4 DEF Last
<1>6. ASSUME NEW p \in 1 .. n, H[p] # None, v \in ValuesOf(H[p].scopes) PROVE v \in w2 \/ Ending(H[p], v)
  <2>1. CASE p = n
    BY <1>1, <1>3, <1>6, <2>1
  <2>2. CASE p # n
    <3>1. p \in 1 .. n /\ n \in 1 .. n /\ p < n
      BY <1>1, <2>2
    <3>2. Nested(H[p], H[n], L)
      BY <1>1, <1>6, <3>1 DEF Listed
    <3>3. m <= a.marker
      BY <1>1, <1>5, <1>6, <3>2 DEF Nested
    <3> QED BY <1>4, <1>5, <3>3
  <2> QED BY <2>1, <2>2
<1>7. /\ H[n] # None /\ Len(L) > H[n].marker
      /\ \A p \in 1 .. n : H[p] = H[p] \/ (H[p] # None /\ Reduced(H[p], H[p], Last(L)))
      /\ \A p \in 1 .. n : H[p] # None /\ Last(L) \in ValuesOf(H[p].scopes) => Last(L) \in w2 \/ Ending(H[p], Last(L))
  BY <1>1, <1>4, <1>6
<1>8. Listed(H, Front(L), [c EXCEPT ![Last(L)] = @ + 1], w2)
  <2> HIDE DEF m, v
  <2>1. w \subseteq w2
    OBVIOUS
  <2> QED BY ONLY <1>1, <1>7, <2>1, NewestClosed
<1> QED BY <1>2, <1>8 DEF Tidy, H

-----------------------------------------------------------------------------
(* What is listed is what is open, in every state                          *)

(* A continuation has been captured and is on its way to the driver.       *)
Handed ==
    captured # None =>
      \/ Has(Top, "activated")
      \/ res = Activation /\ ~(Top.kind = "loop" /\ Top.status = "busy")

ClosingInv ==
    ~astray =>
      /\ Running => Tidy(frames, captured, stack, res, closing, closed, swept) /\ Handed
      /\ ~Running =>
           /\ stack = << >> /\ frames = << >> /\ captured = None /\ closing = << >>
           /\ Tracked(closing, closed, swept)

LEMMA OpenPlaces ==
    ASSUME Inv, Running, NEW L, NEW c, NEW w, Tidy(frames, captured, stack, res, L, c, w)
    PROVE  LET H == Places(frames, captured, stack, res) IN
           \A v : v \in OpenValues <=> \E p \in DOMAIN H : H[p] # None /\ v \in ValuesOf(H[p].scopes)
<1> DEFINE H == Places(frames, captured, stack, res)
           m == Len(frames)
           k == Len(stack)
           n == m + 1 + k
<1>1. /\ IsStack(frames) /\ IsStack(stack) /\ stack # << >> /\ m \in Nat /\ k \in Nat \ {0}
      /\ (\A i \in 1 .. k - 1 : Stays(stack[i])) /\ Top = stack[k]
  BY StackFacts DEF Inv, Waiting, Tidy, Formed, Top
<1>2. /\ n \in Nat /\ n # 0 /\ DOMAIN H = 1 .. n
      /\ \A p \in 1 .. m : H[p] = frames[p].cont
      /\ H[m + 1] = captured
      /\ H[n] = Held(Top, res)
      /\ \A i \in 1 .. k - 1 : H[m + 1 + i] = Held(stack[i], None)
      /\ \A p \in 1 .. n : p \in 1 .. m \/ p = m + 1 \/ p - m - 1 \in 1 .. k - 1 \/ p = n
  <2>1. Len(frames) \in Nat /\ IsStack(stack) /\ stack # << >> /\ Top = Last(stack)
    BY <1>1 DEF Top
  <2>2. /\ n \in Nat /\ n # 0 /\ DOMAIN H = 1 .. n
        /\ \A p \in 1 .. m : H[p] = frames[p].cont
        /\ H[m + 1] = captured
        /\ H[n] = Held(Last(stack), res)
        /\ \A i \in 1 .. k - 1 : H[m + 1 + i] = Held(stack[i], None)
        /\ \A p \in 1 .. n : p \in 1 .. m \/ p = m + 1 \/ p - m - 1 \in 1 .. k - 1 \/ p = n
    BY ONLY <2>1, PlaceFacts
  <2> QED BY <2>1, <2>2
<1> HIDE DEF H
<1>3. ASSUME NEW h \in Holders, h # None PROVE \E p \in 1 .. n : H[p] = h
  <2>1. CASE h = captured
    BY <1>1, <1>2, <2>1
  <2>2. CASE h \in {f.cont : f \in ToSet(frames)}
    <3>1. PICK i \in 1 .. m : h = frames[i].cont
      BY <1>1, <2>2, StackRange
    <3>2. i \in 1 .. n
      BY <1>1, <3>1
    <3> QED BY <1>2, <3>1, <3>2
  <2>3. CASE \E a \in ToSet(stack) : (a.kind = "loop" /\ ~Suspends(a) /\ h = a) \/ (a.kind = "handler" /\ h = a.cont)
    <3>1. PICK i \in 1 .. k : \/ stack[i].kind = "loop" /\ ~Suspends(stack[i]) /\ h = stack[i]
                              \/ stack[i].kind = "handler" /\ h = stack[i].cont
      BY <1>1, <2>3, StackRange
    <3> DEFINE a == stack[i]
    <3>2. CASE i = k
      BY <1>1, <3>1, <3>2, <1>2 DEF Held, Suspends
    <3>3. CASE i # k
      <4>1. i \in 1 .. k - 1 /\ m + 1 + i \in 1 .. n
        BY <1>1, <3>3
      <4>2. Held(a, None) = h
        BY <3>1, NotActivation DEF Held, Suspends
      <4>3. H[m + 1 + i] = h
        BY <1>2, <4>1, <4>2
      <4> QED BY <4>1, <4>3
    <3> QED BY <3>2, <3>3
  <2> QED BY <1>3, <2>1, <2>2, <2>3 DEF Holders
<1>4. ASSUME NEW p \in 1 .. n, H[p] # None PROVE H[p] \in Holders
  <2>1. CASE p \in 1 .. m
    BY <1>1, <1>2, <2>1, StackRange DEF Holders
  <2>2. CASE p = m + 1
    BY <1>2, <2>2 DEF Holders
  <2>3. ASSUME NEW i \in 1 .. k, NEW r, H[p] = Held(stack[i], r),
               stack[i].kind = "loop" /\ stack[i].status = "leave" /\ res = Activation => r = Activation
        PROVE  H[p] \in Holders
    <3> DEFINE a == stack[i]
    <3>1. a \in ToSet(stack)
      BY <1>1, StackRange
    <3>2. CASE a.kind = "loop"
      BY <1>4, <2>3, <3>2, <3>1 DEF Held, Suspends, Holders
    <3>3. CASE a.kind = "handler"
      BY <2>3, <3>3, <3>1 DEF Held, Holders
    <3>4. CASE a.kind \notin {"loop", "handler"}
      BY <1>4, <2>3, <3>4 DEF Held
    <3> QED BY <3>2, <3>3, <3>4
  <2>4. CASE p = n
    <3>1. k \in 1 .. k /\ H[p] = Held(stack[k], res)
      BY <1>1, <1>2, <2>4
    <3> QED BY <2>3, <3>1
  <2>5. CASE p - m - 1 \in 1 .. k - 1
    <3> DEFINE i == p - m - 1
    <3>1. i \in 1 .. k /\ i \in 1 .. k - 1 /\ m + 1 + i = p
      BY <1>1, <2>5
    <3>2. H[p] = Held(stack[i], None) /\ Stays(stack[i])
      BY <1>1, <1>2, <3>1
    <3> HIDE DEF i
    <3> QED BY <2>3, <3>1, <3>2 DEF Stays
  <2> QED BY <1>2, <2>1, <2>2, <2>4, <2>5
<1>5. ASSUME NEW v
      PROVE  v \in OpenValues <=> \E p \in 1 .. n : H[p] # None /\ v \in ValuesOf(H[p].scopes)
  BY <1>3, <1>4 DEF OpenValues
<1> QED BY <1>2, <1>5 DEF H

LEMMA ClosingIsSound ==
    ASSUME Inv, ClosingInv
    PROVE  ClosingSound
<1> SUFFICES ASSUME ~astray PROVE ClosingSound
  BY DEF ClosingSound, CloseListMatchesScopes, ScopesClose
<1>1. CASE Running
  <2> DEFINE H == Places(frames, captured, stack, res)
  <2>1. Tidy(frames, captured, stack, res, closing, closed, swept)
    BY <1>1 DEF ClosingInv
  <2>2. Listed(H, closing, closed, swept)
    BY <2>1 DEF Tidy
  <2>3. \A v : v \in OpenValues <=> \E p \in DOMAIN H : H[p] # None /\ v \in ValuesOf(H[p].scopes)
    BY <1>1, <2>1, OpenPlaces
  <2> HIDE DEF H
  <2>4. /\ closing \in Seq(Nat) /\ closed \in Seq(Nat)
        /\ \A i, j \in 1 .. Len(closing) : i < j => closing[i] < closing[j]
        /\ \A k \in 1 .. Len(closing) : closing[k] \in 1 .. Len(closed) /\ closed[closing[k]] = 0
        /\ \A v \in 1 .. Len(closed) : closed[v] = 0 => \E k \in 1 .. Len(closing) : closing[k] = v
        /\ \A v \in 1 .. Len(closed) : closed[v] <= 1 \/ v \in swept
    BY <2>2 DEF Listed, Tracked
  <2>5. DOMAIN closing = 1 .. Len(closing) /\ DOMAIN closed = 1 .. Len(closed) /\ IsStack(closing)
    BY <2>4 DEF IsStack
  <2>6. ASSUME NEW v PROVE v \in ToSet(closing) <=> v \in OpenValues /\ closed[v] = 0
    <3>1. v \in ToSet(closing) <=> \E k \in 1 .. Len(closing) : v = closing[k]
      BY <2>5, StackRange
    <3>2. ASSUME NEW k \in 1 .. Len(closing), v = closing[k] PROVE v \in OpenValues /\ closed[v] = 0
      BY <2>2, <3>2, <2>3, <2>4 DEF Listed
    <3>3. ASSUME v \in OpenValues, closed[v] = 0 PROVE \E k \in 1 .. Len(closing) : v = closing[k]
      <4>1. PICK p \in DOMAIN H : H[p] # None /\ v \in ValuesOf(H[p].scopes)
        BY <2>3, <3>3
      <4>2. v \in 1 .. Len(closed)
        BY <2>2, <4>1 DEF Listed, HolderFits
      <4> QED BY <2>4, <3>3, <4>2
    <3> QED BY <3>1, <3>2, <3>3
  <2> QED BY <1>1, <2>4, <2>5, <2>6 DEF ClosingSound, CloseListMatchesScopes, ScopesClose
<1>2. CASE ~Running
  <2>1. stack = << >> /\ frames = << >> /\ captured = None /\ closing = << >> /\ Tracked(closing, closed, swept)
    BY <1>2 DEF ClosingInv
  <2>2. ToSet(<< >>) = {} /\ Len(<< >>) = 0
    BY EmptyStack, StackRange
  <2>3. OpenValues = {}
    BY <2>1, <2>2 DEF Holders, OpenValues
  <2>4. ToSet(closing) = {v \in OpenValues : closed[v] = 0}
    BY <2>1, <2>2, <2>3
  <2>5. /\ closed \in Seq(Nat) /\ (\A v \in 1 .. Len(closed) : closed[v] <= 1 \/ v \in swept)
        /\ \A v \in 1 .. Len(closed) : closed[v] # 0
    BY <2>1, <2>2 DEF Tracked
  <2>6. DOMAIN closing = {}
    BY <2>1
  <2> QED BY <2>4, <2>5, <2>6 DEF ClosingSound, CloseListMatchesScopes, ScopesClose
<1> QED BY <1>1, <1>2

LEMMA OnePlace ==
    ASSUME NEW fs, Len(fs) = 0, NEW cont, NEW s, IsStack(s), s # << >>, Len(s) = 1, NEW r
    PROVE  LET G == Places(fs, cont, s, r) IN
           DOMAIN G = 1 .. 2 /\ G[1] = cont /\ G[2] = Held(Last(s), r)
<1> DEFINE G == Places(fs, cont, s, r)
<1>1. Len(fs) \in Nat
  OBVIOUS
<1> DEFINE m == Len(fs)
           n == m + 1 + Len(s)
<1>2. DOMAIN G = 1 .. n /\ G[m + 1] = cont /\ G[n] = Held(Last(s), r)
  <2>1. Len(fs) \in Nat /\ IsStack(s) /\ s # << >>
    BY <1>1
  <2>2. DOMAIN G = 1 .. n
    BY ONLY <2>1, PlaceFacts
  <2>3. G[m + 1] = cont
    BY ONLY <2>1, PlaceFacts
  <2>4. G[n] = Held(Last(s), r)
    BY ONLY <2>1, PlaceFacts
  <2> QED BY <2>2, <2>3, <2>4
<1> HIDE DEF G
<1> QED BY <1>2 DEF G

LEMMA ClosingInit ==
    ASSUME Init
    PROVE  ClosingInv
<1>1. /\ frames = << >> /\ captured = None /\ stack = <<MainLoop>> /\ res = None /\ closing = << >>
      /\ closed = << >> /\ swept = {} /\ outcome = "running"
  BY DEF Init
<1> DEFINE a == MainLoop
           H == Places(<< >>, None, << >>, None)
<1>2. Len(<< >>) = 0 /\ IsStack(<< >>) /\ << >> \in Seq(Nat)
  BY EmptyStack
<1>3. a.kind = "loop" /\ a.status = "run" /\ a.err = None /\ a.marker = 0 /\ a.scopes = << << >> >>
  BY DEF MainLoop, NewLoop
<1>4. DOMAIN H = 1 .. 1 /\ H[1] = None
  BY <1>2 DEF Places
<1> DEFINE G == Places(<< >>, None, <<a>>, None)
<1>5. IsStack(<<a>>) /\ <<a>> # << >> /\ Len(<<a>>) = 1 /\ Last(<<a>>) = a /\ <<a>>[1] = a
  BY SingleStack, <1>2, LastPushed
<1> HIDE DEF a
<1>6. DOMAIN G = 1 .. 2 /\ G[1] = None /\ G[2] = Held(a, None)
  BY <1>2, <1>5, OnePlace
<1>7. Held(a, None) = a /\ a # None /\ Calm(a) /\ Emptied(a, None)
  BY <1>3, NotActivation DEF Held, None, Calm, Emptied
<1> HIDE DEF G, H
<1>8. Tracked(<< >>, << >>, {})
  BY <1>2 DEF Tracked
<1>9. HolderFits(a, << >>, << >>, {})
  BY <1>2, <1>3, NoScopes DEF HolderFits
<1>10. Listed(G, << >>, << >>, {})
  BY <1>2, <1>6, <1>7, <1>9, <1>8 DEF Listed
<1>11. Formed(<<a>>, None)
  BY <1>5, <1>7 DEF Formed
<1> QED BY <1>1, <1>2, <1>10, <1>11 DEF ClosingInv, Running, Handed, a, Tidy, G

(* A step after which no continuation is captured.                         *)
LEMMA QuietListed ==
    ASSUME Running, outcome' = outcome, ~astray' => captured' = None,
           ~astray' => Tidy(frames', None, stack', res', closing', closed', swept')
    PROVE  ClosingInv'
BY DEF ClosingInv, Running, Handed

LEMMA NothingCaptured ==
    ASSUME ClosingInv, Running, ~astray, ~Has(Top, "activated"),
           res # Activation \/ (Top.kind = "loop" /\ Top.status = "busy")
    PROVE  captured = None /\ Tidy(frames, None, stack, res, closing, closed, swept)
BY DEF ClosingInv, Handed

LEMMA GuestTop ==
    ASSUME Inv, ClosingInv, Running, ~astray, Top.kind = "loop",
           (Top.status = "run" /\ res = None) \/ Top.status = "busy"
    PROVE  /\ Top.err = None /\ Stays(Top)
           /\ captured = None /\ Tidy(frames, None, stack, res, closing, closed, swept)
           /\ Held(Top, res) = Top
  BY LoopOnTop, NotActivation, NothingCaptured DEF Has, Stays, Held

(* A record without scopes is put on top.                                  *)
LEMMA TidyRecord ==
    ASSUME NEW fs, NEW cont, NEW s, NEW r, NEW L, NEW c, NEW w, Tidy(fs, cont, s, r, L, c, w),
           Stays(Last(s)), NEW a, a.kind \in {"native", "fallback"} \/ (a.kind = "handler" /\ a.cont = None),
           NEW r2
    PROVE  /\ Tidy(fs, cont, s \o <<a>>, r2, L, c, w) /\ Last(s \o <<a>>) = a /\ Stays(a)
           /\ IsStack(s \o <<a>>)
<1>1. IsStack(s)
  BY DEF Tidy, Formed
<1>2. s \o <<a>> = Append(s, a) /\ IsStack(Append(s, a))
  BY <1>1, PushFacts
<1>3. Held(a, r2) = None /\ Calm(a) /\ Emptied(a, r2) /\ Stays(a)
  BY DEF Held, Calm, Emptied, Stays
<1>4. Tidy(fs, cont, Append(s, a), r2, L, c, w) /\ Last(Append(s, a)) = a
  BY <1>3, TidyPushed
<1> QED BY <1>2, <1>3, <1>4

LEMMA TidyCalledBack ==
    ASSUME NEW fs, NEW cont, NEW s, NEW r, NEW L, NEW c, NEW w, Tidy(fs, cont, s, r, L, c, w),
           Stays(Last(s)), NEW a, a.kind \in {"native", "fallback"},
           NEW id, NEW catch, NEW depth, NEW s2, NEW r2,
           Called(s \o <<a>>, s2, r2, id, catch, depth, Len(L))
    PROVE  Tidy(fs, cont, s2, r2, L, c, w)
<1> DEFINE u == s \o <<a>>
<1>1. Tidy(fs, cont, u, None, L, c, w) /\ Last(u) = a /\ Stays(a)
  BY TidyRecord
<1>2. Called(u, s2, r2, id, catch, depth, Len(L))
  OBVIOUS
<1> HIDE DEF u
<1>3. Stays(Last(u))
  BY <1>1
<1> QED BY <1>1, <1>2, <1>3, TidyCalled

-----------------------------------------------------------------------------
(* Moves of guest code keep the list                                     *)

LEMMA RaiseListed ==
    ASSUME Inv, ClosingInv, Raise
    PROVE  ClosingInv'
<1>1. /\ Running /\ res = None /\ Top.kind = "loop" /\ Top.status = "run" /\ res' = Raised(Top.catch)
      /\ stack' = WithTop([Top EXCEPT !.status = "leave"])
      /\ frames' = frames /\ astray' = astray /\ captured' = captured /\ outcome' = outcome
      /\ closing' = closing /\ closed' = closed /\ swept' = swept
  BY DEF Raise, Ready, Events, Ghosts
<1>2. ASSUME ~astray'
      PROVE  captured' = None /\ Tidy(frames', None, stack', res', closing', closed', swept')
  <2>1. /\ Top.err = None /\ Held(Top, res) = Top /\ captured = None
        /\ Tidy(frames, None, stack, res, closing, closed, swept)
    BY <1>1, <1>2, GuestTop
  <2>2. stack' = WithTop(Revised(Top, Top.scopes, "leave", None))
    BY <1>1, <2>1, TopAsIs, Zenon
  <2>3. Tidy(frames, None, Append(Front(stack), Revised(Last(stack), Last(stack).scopes, "leave", None)), res', closing, closed, swept)
    BY <1>1, <2>1, TidySame, NotActivation DEF Top, None, Raised
  <2> QED BY <1>1, <2>1, <2>2, <2>3 DEF WithTop, Below, Top
<1> QED BY <1>1, <1>2, QuietListed

LEMMA GuestCallListed ==
    ASSUME Inv, ClosingInv, GuestCall
    PROVE  ClosingInv'
<1>1. /\ Running /\ res = None /\ Top.kind = "loop" /\ Top.status = "run"
      /\ frames' = frames /\ astray' = astray /\ captured' = captured /\ outcome' = outcome
      /\ closing' = closing /\ closed' = closed /\ swept' = swept
      /\ IF Depth(Top) + 1 > CallLimit
         THEN stack' = WithTop([Top EXCEPT !.status = "leave"]) /\ res' = CallLimitError(Top.catch)
         ELSE stack' = WithTop([Top EXCEPT !.scopes = Append(Top.scopes, << >>)]) /\ res' = res
  BY DEF GuestCall, Moves, Ready, Events, Ghosts
<1>2. ASSUME ~astray'
      PROVE  captured' = None /\ Tidy(frames', None, stack', res', closing', closed', swept')
  <2>1. /\ Top.err = None /\ Held(Top, res) = Top /\ captured = None
        /\ Tidy(frames, None, stack, res, closing, closed, swept)
    BY <1>1, <1>2, GuestTop
  <2>2. None.kind # "ok" /\ None # Activation
    BY NotActivation DEF None
  <2>3. CASE Depth(Top) + 1 > CallLimit
    <3>1. stack' = WithTop(Revised(Top, Top.scopes, "leave", None))
      BY <1>1, <2>1, <2>3, TopAsIs, Zenon
    <3>2. Tidy(frames, None, Append(Front(stack), Revised(Last(stack), Last(stack).scopes, "leave", None)), res', closing, closed, swept)
      BY <1>1, <2>1, <2>2, TidySame, <2>3, NotActivation DEF Top, CallLimitError
    <3> QED BY <1>1, <2>1, <3>1, <3>2 DEF WithTop, Below, Top
  <2>4. CASE ~(Depth(Top) + 1 > CallLimit)
    <3> DEFINE a == Top
               sc == Append(a.scopes, << >>)
    <3>1. stack' = WithTop(Revised(Top, sc, "run", None)) /\ res' = None
      <4>1. stack' = WithTop([Top EXCEPT !.scopes = sc]) /\ res' = res
        BY <1>1, <2>4
      <4>2. [Top EXCEPT !.scopes = sc] = Revised(Top, sc, Top.status, Top.err)
        BY <1>1, TopAsIs, Zenon
      <4> QED BY <1>1, <2>1, <4>1, <4>2
    <3>2. HolderFits(a, closing, closed, swept)
      BY <1>1, <2>1, TopHolds DEF Top
    <3>3. Stepped(sc) /\ ValuesOf(sc) = ValuesOf(a.scopes)
      BY <3>2, EnteredScopes DEF HolderFits
    <3>4. \A v : ~Ending(a, v)
      BY <1>1 DEF Ending
    <3>5. a = Last(stack) /\ a.kind = "loop" /\ Held(a, res) = a
      BY <1>1, <2>1 DEF Top
    <3> HIDE DEF a, sc
    <3> QED BY <1>1, <2>1, <3>1, <2>2, <3>3, <3>4, <3>5, TidyRevised DEF WithTop, Below, a, sc
  <2> QED BY <2>3, <2>4
<1> QED BY <1>1, <1>2, QuietListed

(* The innermost frame of the loop on top is left; what was listed of it   *)
(* has been closed.                                                        *)
LEMMA FrameListed ==
    ASSUME Inv, Running, Top.kind = "loop", Top.err = None, Held(Top, res) = Top,
           Tidy(frames, None, stack, res, closing, closed, swept),
           \/ Top.status = "run" /\ Last(Top.scopes) = << >>
           \/ Top.status = "closing" /\ Len(closing) <= Top.marker,
           ReturnFrame(Top)
    PROVE  Tidy(frames, None, stack', res', closing, closed, swept)
<1> DEFINE a == Top
           L == closing
<1>1. IsLoop(a) /\ IsStack(a.scopes) /\ a.scopes # << >> /\ Len(a.scopes) \in Nat \ {0}
  BY LoopOnTop
<1>2. HolderFits(a, L, closed, swept) /\ L \in Seq(Nat)
  BY TopHolds DEF Top
<1>3. /\ Stepped(a.scopes) /\ a.marker \in 0 .. Len(L)
      /\ \A k \in 1 .. Len(L) : L[k] \in ValuesOf(a.scopes) => k > a.marker
  BY <1>2 DEF HolderFits
<1>4. /\ Stepped(Front(a.scopes))
      /\ \A v : v \in ValuesOf(a.scopes) <=> v \in ValuesOf(Front(a.scopes)) \/ v \in ToSet(Last(a.scopes))
      /\ \A v \in ValuesOf(Front(a.scopes)) : v \notin ToSet(Last(a.scopes))
  BY <1>1, <1>3, LeftScopes
<1>5. \A k \in 1 .. Len(L) : L[k] \in ValuesOf(a.scopes) => L[k] \in ValuesOf(Front(a.scopes))
  <2>1. CASE a.status = "run" /\ Last(a.scopes) = << >>
    BY EmptyStack, StackRange, <1>4, <2>1
  <2>2. CASE a.status = "closing" /\ Len(L) <= a.marker
    BY <1>2, <1>3, <2>2
  <2> QED BY <2>1, <2>2
<1>6. a = Last(stack) /\ a.kind = "loop" /\ Held(a, res) = a /\ a.err = None
  BY DEF Top
<1>7. None.kind # "ok" /\ None # Activation
  BY NotActivation DEF None
<1>8. CASE Len(a.scopes) > 1
  <2> DEFINE sc == Front(a.scopes)
  <2>1. stack' = WithTop(Revised(Top, sc, "run", None)) /\ res' = None
    <3>1. stack' = WithTop([Top EXCEPT !.scopes = sc, !.status = "run"]) /\ res' = None
      BY <1>8 DEF ReturnFrame
    <3>2. [Top EXCEPT !.scopes = sc, !.status = "run"] = Revised(Top, sc, "run", Top.err)
      BY TopAsIs, Zenon
    <3> QED BY <3>1, <3>2
  <2>2. Stepped(sc) /\ (\A v \in ValuesOf(sc) : v \in ValuesOf(a.scopes) /\ ~Ending(a, v))
    BY <1>4 DEF Ending
  <2>3. \A k \in 1 .. Len(L) : L[k] \in ValuesOf(a.scopes) => L[k] \in ValuesOf(sc)
    BY <1>5
  <2> HIDE DEF sc, a
  <2> QED BY <2>1, <1>6, <1>7, <2>2, <2>3, TidyRevised DEF WithTop, Below, a
<1>9. CASE ~(Len(a.scopes) > 1)
  <2> DEFINE e == << >>
             sc == <<e>>
  <2>1. stack' = WithTop(Revised(Top, sc, "leave", None)) /\ res' = Ok(a.catch)
    <3>1. stack' = WithTop([Top EXCEPT !.scopes = sc, !.status = "leave"]) /\ res' = Ok(a.catch)
      BY <1>9 DEF ReturnFrame
    <3>2. [Top EXCEPT !.scopes = sc, !.status = "leave"] = Revised(Top, sc, "leave", Top.err)
      BY TopAsIs, Zenon
    <3> QED BY <3>1, <3>2
  <2>2. Stepped(sc) /\ ValuesOf(sc) = {}
    BY NoScopes
  <2>3. ValuesOf(Front(a.scopes)) = {}
    BY <1>1, PopFacts, <1>9, <1>4, ScopeValues
  <2>4. res' # Activation
    BY <2>1, NotActivation
  <2> HIDE DEF sc, a
  <2>5. Tidy(frames, None, Append(Front(stack), Revised(a, sc, "leave", None)), res', L, closed, swept)
    BY <1>6, <1>7, <2>2, <2>4, TidyRevised, <1>5, <2>3
  <2> QED BY <2>1, <2>5 DEF WithTop, Below, a
<1> QED BY <1>8, <1>9

LEMMA ReturnListed ==
    ASSUME Inv, ClosingInv, Return
    PROVE  ClosingInv'
<1>1. /\ Running /\ res = None /\ Top.kind = "loop" /\ Top.status = "run" /\ Last(Top.scopes) = << >> /\ ReturnFrame(Top)
      /\ frames' = frames /\ astray' = astray /\ captured' = captured /\ outcome' = outcome
      /\ closing' = closing /\ closed' = closed /\ swept' = swept
  BY DEF Return, Moves, Ready, Events, Ghosts
<1>2. ASSUME ~astray'
      PROVE  captured' = None /\ Tidy(frames', None, stack', res', closing', closed', swept')
  BY <1>1, <1>2, GuestTop, FrameListed
<1> QED BY <1>1, <1>2, QuietListed

LEMMA ReturnDynamicListed ==
    ASSUME Inv, ClosingInv, ReturnDynamic
    PROVE  ClosingInv'
<1>1. /\ Running /\ res = None /\ Top.kind = "loop" /\ Top.status = "run" /\ res' = res
      /\ stack' = WithTop([Top EXCEPT !.status = "closing", !.err = None])
      /\ frames' = frames /\ astray' = astray /\ captured' = captured /\ outcome' = outcome
      /\ closing' = closing /\ closed' = closed /\ swept' = swept
  BY DEF ReturnDynamic, Moves, Ready, Events, Ghosts
<1>2. ASSUME ~astray'
      PROVE  captured' = None /\ Tidy(frames', None, stack', res', closing', closed', swept')
  <2>1. /\ Top.err = None /\ Held(Top, res) = Top /\ captured = None
        /\ Tidy(frames, None, stack, res, closing, closed, swept)
    BY <1>1, <1>2, GuestTop
  <2>2. stack' = WithTop(Revised(Top, Top.scopes, "closing", None))
    BY <1>1, TopAsIs, Zenon
  <2>3. None.kind # "ok" /\ None # Activation
    BY NotActivation DEF None
  <2>4. Tidy(frames, None, Append(Front(stack), Revised(Last(stack), Last(stack).scopes, "closing", None)), res', closing, closed, swept)
    BY <1>1, <2>1, <2>3, TidySame DEF Top
  <2> QED BY <1>1, <2>1, <2>2, <2>4 DEF WithTop, Below, Top
<1> QED BY <1>1, <1>2, QuietListed

LEMMA OpenScopeListed ==
    ASSUME Inv, ClosingInv, OpenScope
    PROVE  ClosingInv'
<1> DEFINE a == Top
           v == Len(closed) + 1
           sc == [a.scopes EXCEPT ![Len(a.scopes)] = Append(a.scopes[Len(a.scopes)], v)]
<1>1. /\ Running /\ res = None /\ Top.kind = "loop" /\ Top.status = "run" /\ res' = res
      /\ stack' = WithTop([Top EXCEPT !.scopes[Len(Top.scopes)] = Append(Top.scopes[Len(Top.scopes)], v)])
      /\ frames' = frames /\ astray' = astray /\ captured' = captured /\ outcome' = outcome
      /\ closing' = Append(closing, v) /\ closed' = Append(closed, 0) /\ swept' = swept
  BY DEF OpenScope, Moves, Ready, Events, Ghosts
<1>2. ASSUME ~astray'
      PROVE  captured' = None /\ Tidy(frames', None, stack', res', closing', closed', swept')
  <2>1. /\ a.err = None /\ Held(a, res) = a /\ captured = None
        /\ Tidy(frames, None, stack, res, closing, closed, swept)
    BY <1>1, <1>2, GuestTop
  <2>2. IsLoop(a) /\ a.scopes # << >>
    BY <1>1, LoopOnTop
  <2>3. stack' = WithTop(Revised(a, sc, "run", None))
    <3>1. [a EXCEPT !.scopes[Len(a.scopes)] = Append(a.scopes[Len(a.scopes)], v)] = Revised(a, sc, a.status, a.err)
      BY <2>2, ScopeUpdates
    <3> QED BY <1>1, <2>1, <3>1
  <2>4. a = Last(stack) /\ a.kind = "loop" /\ a.status = "run"
    BY <1>1 DEF Top
  <2>5. v = Len(closed) + 1 /\ sc = [a.scopes EXCEPT ![Len(a.scopes)] = Append(a.scopes[Len(a.scopes)], v)]
    OBVIOUS
  <2> HIDE DEF a, sc, v
  <2>6. Tidy(frames, None, Append(Front(stack), Revised(a, sc, "run", None)), None, Append(closing, v), Append(closed, 0), swept)
    BY ONLY <2>1, <2>2, <2>4, <2>5, TidyOpened
  <2> QED BY <1>1, <2>1, <2>3, <2>6 DEF WithTop, Below
<1> QED BY <1>1, <1>2, QuietListed

(* The loop on top waits for what it has called.                           *)
LEMMA TopWaits ==
    ASSUME Inv, ClosingInv, Running, ~astray, Top.kind = "loop", Top.status = "run", res = None, NEW r2
    PROVE  LET b == Revised(Top, Top.scopes, "busy", None) IN
           /\ [Top EXCEPT !.status = "busy"] = b
           /\ Tidy(frames, None, WithTop(b), r2, closing, closed, swept)
           /\ Last(WithTop(b)) = b /\ Stays(b) /\ captured = None
<1> DEFINE b == Revised(Top, Top.scopes, "busy", None)
<1>1. /\ Top.err = None /\ Held(Top, res) = Top /\ captured = None
      /\ Tidy(frames, None, stack, res, closing, closed, swept)
  BY GuestTop
<1>2. [Top EXCEPT !.status = "busy"] = b
  BY <1>1, TopAsIs, Zenon
<1>3. None.kind # "ok" /\ None # Activation
  BY NotActivation DEF None
<1>4. Tidy(frames, None, Append(Front(stack), Revised(Last(stack), Last(stack).scopes, "busy", None)), r2, closing, closed, swept)
  BY <1>1, <1>3, TidySame DEF Top
<1>5. Stays(b)
  BY DEF Stays, Revised
<1>6. stack # << >> /\ IsStack(stack)
  BY LoopOnTop
<1> HIDE DEF b
<1>7. Last(Append(Front(stack), b)) = b
  BY <1>6, ReplaceTotals
<1> QED BY <1>1, <1>2, <1>4, <1>5, <1>7 DEF WithTop, Below, Top, b

LEMMA CallbackListed ==
    ASSUME Inv, ClosingInv, Callback
    PROVE  ClosingInv'
<1> DEFINE a == Native(Top.catch)
           b == Revised(Top, Top.scopes, "busy", None)
           s == WithTop(b)
           d == Depth(Top)
           id == Fresh
<1>1. /\ Running /\ res = None /\ Top.kind = "loop" /\ Top.status = "run"
      /\ CallGuest(WithTop([Top EXCEPT !.status = "busy"]) \o <<a>>, id, Top.catch, d, Len(closing))
      /\ frames' = frames /\ astray' = astray /\ captured' = None /\ outcome' = outcome
      /\ closing' = closing /\ closed' = closed /\ swept' = swept
  BY DEF Callback, Moves, Ready, Ghosts
<1>2. a.kind \in {"native", "fallback"}
  BY DEF Native
<1> HIDE DEF a, d, id
<1>3. ASSUME ~astray'
      PROVE  Tidy(frames', None, stack', res', closing', closed', swept')
  <2>1. /\ [Top EXCEPT !.status = "busy"] = b
        /\ Tidy(frames, None, s, None, closing, closed, swept) /\ Last(s) = b /\ Stays(b)
    BY <1>1, <1>3, TopWaits
  <2>2. CallGuest(s \o <<a>>, id, Top.catch, d, Len(closing))
    BY <1>1, <2>1
  <2> HIDE DEF b, s
  <2>3. Stays(Last(s))
    BY <2>1
  <2>4. Tidy(frames, None, stack', res', closing, closed, swept)
    BY <1>2, <2>1, <2>3, TidyCalledBack, <2>2 DEF CallGuest, Called
  <2> QED BY <1>1, <2>4
<1> QED BY <1>1, <1>3, QuietListed

LEMMA CloseScopeListed ==
    ASSUME Inv, ClosingInv, CloseScope
    PROVE  ClosingInv'
<1> DEFINE a == Native(Top.catch)
           n == Len(Top.scopes)
           x == Front(Top.scopes[n])
           sc == [Top.scopes EXCEPT ![n] = x]
           v == Last(Last(Top.scopes))
           rest == TakeCloseValue(v)
           d == Depth(Top)
           id == Fresh
           b == Revised(Top, sc, "busy", None)
           s == WithTop(b)
           c2 == [closed EXCEPT ![v] = @ + 1]
<1>1. /\ Running /\ Top.kind = "loop" /\ Top.status = "run" /\ res = None /\ Last(Top.scopes) # << >>
      /\ CallGuest(WithTop([Top EXCEPT !.scopes[Len(Top.scopes)] = Front(@), !.status = "busy"]) \o <<a>>,
                   id, Top.catch, d, Len(rest))
      /\ frames' = frames /\ astray' = astray /\ captured' = None /\ outcome' = outcome
      /\ closing' = rest /\ closed' = c2 /\ swept' = swept
  BY Zenon DEF CloseScope, Moves, Ready
<1>2. IsLoop(Top) /\ Top.err = None /\ Top.scopes # << >>
  BY <1>1, LoopOnTop
<1>3. [Top EXCEPT !.scopes[n] = x, !.status = "busy"] = Revised(Top, sc, "busy", Top.err)
  <2>1. [Top EXCEPT !.scopes[n] = x, !.status = "busy"] = [[Top EXCEPT !.scopes[n] = x] EXCEPT !.status = "busy"]
    OBVIOUS
  <2>2. [Top EXCEPT !.scopes[n] = x] = Revised(Top, sc, Top.status, Top.err)
    BY ONLY <1>2, ScopeUpdates
  <2>3. [Revised(Top, sc, Top.status, Top.err) EXCEPT !.status = "busy"] = Revised(Top, sc, "busy", Top.err)
    BY DEF Revised
  <2> QED BY ONLY <2>1, <2>2, <2>3
<1>4. a.kind \in {"native", "fallback"}
  BY DEF Native
<1>5. rest = IF closing # << >> /\ Last(closing) = v THEN Front(closing) ELSE closing
  BY DEF TakeCloseValue
<1>6. sc = [Top.scopes EXCEPT ![Len(Top.scopes)] = Front(Top.scopes[Len(Top.scopes)])] /\ v = Last(Last(Top.scopes))
  OBVIOUS
<1>7. b.kind = "loop" /\ b.status = "busy" /\ s = WithTop(b)
  BY RevisedFields
<1>8. WithTop([Top EXCEPT !.scopes[Len(Top.scopes)] = Front(@), !.status = "busy"]) = s
  BY <1>2, <1>3 DEF IsLoop
<1> HIDE DEF a, n, x, sc, v, rest, d, id
<1>9. ASSUME ~astray'
       PROVE  Tidy(frames', None, stack', res', closing', closed', swept')
  <2>1. /\ Held(Top, res) = Top /\ Tidy(frames, None, stack, res, closing, closed, swept)
    BY <1>1, <1>9, GuestTop
  <2> DEFINE t == Top
  <2>2. /\ t = Last(stack) /\ t.kind = "loop" /\ Held(t, res) = t /\ t.status = "run" /\ t.scopes # << >>
        /\ Last(t.scopes) # << >> /\ v = Last(Last(t.scopes))
        /\ sc = [t.scopes EXCEPT ![Len(t.scopes)] = Front(t.scopes[Len(t.scopes)])]
    BY <1>1, <1>2, <1>6, <2>1 DEF Top
  <2> HIDE DEF t
  <2>3. Tidy(frames, None, Append(Front(stack), Revised(t, sc, "busy", None)), None, rest, [closed EXCEPT ![v] = @ + 1], swept)
    BY ONLY <1>5, <2>1, <2>2, TidyClosed, ZenonT(60)
  <2>4. Tidy(frames, None, s, None, rest, c2, swept)
    BY <2>3 DEF t, WithTop, Below
  <2> HIDE DEF b
  <2>5. Last(s) = b /\ Stays(b)
    <3>1. stack # << >> /\ IsStack(stack)
      BY <1>1, LoopOnTop
    <3>2. Last(Append(Front(stack), b)) = b
      BY <3>1, ReplaceTotals
    <3> QED BY <1>7, <3>2 DEF WithTop, Below, Stays
  <2> HIDE DEF s, c2
  <2>6. Called(s \o <<a>>, stack', res', id, Top.catch, d, Len(rest)) /\ Stays(Last(s))
    BY <2>5, <1>1, <1>8 DEF CallGuest, Called
  <2> QED BY <1>1, <1>4, <2>4, <2>6, TidyCalledBack
<1> QED BY <1>1, <1>9, QuietListed

LEMMA FallbackListed ==
    ASSUME Inv, ClosingInv, ~astray, Running, Top.kind = "loop", Top.status = "run", res = None,
           NEW target \in {"guest", "returns", "raises", "callsBack"},
           NEW handler, NEW restore, NEW call, Fallback(target, handler, restore, call)
    PROVE  Tidy(frames, None, stack', res', closing, closed, swept) /\ captured' = None
<1> DEFINE entered == activations < MaxActivations
           a == FallbackRecord(target, handler, restore, call, entered)
           b == Revised(Top, Top.scopes, "busy", None)
           s == WithTop(b)
           v == s \o <<a>>
<1>1. /\ [Top EXCEPT !.status = "busy"] = b /\ captured = None
      /\ Tidy(frames, None, s, None, closing, closed, swept) /\ Last(s) = b /\ Stays(b)
  BY TopWaits
<1>2. a.kind = "fallback"
  BY DEF FallbackRecord
<1>3. /\ \/ stack' = v
         \/ CallGuest(Append(v, Native(call)), call + 1, call, Depth(Top), Len(closing))
         \/ CallGuest(v, call + 1, call, Depth(Top), Len(closing))
      /\ captured' \in {None, captured}
  BY <1>1 DEF Fallback
<1> HIDE DEF a, b, s
<1>4. Stays(Last(s))
  BY <1>1
<1>5. \A r2 : Tidy(frames, None, v, r2, closing, closed, swept)
  BY <1>1, <1>2, <1>4, TidyRecord
<1>6. Last(v) = a /\ Stays(a) /\ IsStack(v)
  BY <1>1, <1>2, <1>4, TidyRecord
<1> HIDE DEF v
<1>7. CASE stack' = v
  BY <1>1, <1>3, <1>5, <1>7
<1>8. CASE CallGuest(v, call + 1, call, Depth(Top), Len(closing))
  BY <1>6, <1>8, <1>5, TidyCalled, <1>1, <1>3 DEF CallGuest, Called
<1>9. CASE CallGuest(Append(v, Native(call)), call + 1, call, Depth(Top), Len(closing))
  <2> DEFINE e == Native(call)
  <2>1. e.kind \in {"native", "fallback"}
    BY DEF Native
  <2>2. Append(v, e) = v \o <<e>>
    BY <1>6, PushFacts
  <2>3. CallGuest(v \o <<e>>, call + 1, call, Depth(Top), Len(closing))
    BY <1>9, <2>2
  <2> HIDE DEF e
  <2>4. Called(v \o <<e>>, stack', res', call + 1, call, Depth(Top), Len(closing)) /\ Stays(Last(v))
    BY <1>6, <2>3 DEF CallGuest, Called
  <2>5. Tidy(frames, None, stack', res', closing, closed, swept)
    BY <1>5, <2>1, <2>4, TidyCalledBack
  <2> QED BY <1>1, <1>3, <2>5
<1> QED BY <1>3, <1>7, <1>8, <1>9

LEMMA RefuseListed ==
    ASSUME Inv, ClosingInv, ~astray, Running, Top.kind = "loop", Top.status = "run", res = None,
           NEW handler, NEW call, RefuseRequest(handler, call)
    PROVE  Tidy(frames, None, stack', res', closing, closed, swept) /\ captured' = None
<1> DEFINE a == FallbackRecord("guest", handler, FALSE, call, FALSE)
           b == Revised(Top, Top.scopes, "busy", None)
           s == WithTop(b)
<1>1. /\ [Top EXCEPT !.status = "busy"] = b /\ captured = None
      /\ Tidy(frames, None, s, None, closing, closed, swept) /\ Last(s) = b /\ Stays(b)
  BY TopWaits
<1>2. stack' = s \o <<a>> /\ captured' = captured
  BY <1>1 DEF RefuseRequest
<1>3. a.kind = "fallback"
  BY DEF FallbackRecord
<1> HIDE DEF a, b, s
<1>4. Stays(Last(s))
  BY <1>1
<1>5. Tidy(frames, None, s \o <<a>>, res', closing, closed, swept)
  BY <1>1, <1>3, <1>4, TidyRecord
<1> QED BY <1>1, <1>2, <1>5

LEMMA ProtectedCallListed ==
    ASSUME Inv, ClosingInv, ProtectedCall
    PROVE  ClosingInv'
<1>1. PICK target \in {"guest", "returns", "raises", "callsBack"}, handler \in BOOLEAN :
        CallProtectedTarget(target, handler)
  BY DEF ProtectedCall
<1>2. /\ Running /\ Top.kind = "loop" /\ Top.status = "run" /\ res = None
      /\ frames' = frames /\ astray' = astray /\ outcome' = outcome
      /\ closing' = closing /\ closed' = closed /\ swept' = swept
  BY <1>1 DEF CallProtectedTarget, Moves, Ready, Ghosts
<1>3. \E call : \/ \E restore : Fallback(target, handler, restore, call)
                \/ RefuseRequest(handler, call)
                \/ Activate(handler, call)
  BY <1>1, Zenon DEF CallProtectedTarget
<1>4. PICK call : \/ \E restore : Fallback(target, handler, restore, call)
                  \/ RefuseRequest(handler, call)
                  \/ Activate(handler, call)
  BY <1>3
<1>5. ASSUME ~astray'
      PROVE  captured' = None /\ Tidy(frames', None, stack', res', closing', closed', swept')
  <2>1. CASE \E restore : Fallback(target, handler, restore, call)
    BY <1>2, <1>5, <2>1, FallbackListed
  <2>2. CASE RefuseRequest(handler, call)
    BY <1>2, <1>5, <2>2, RefuseListed
  <2>3. CASE Activate(handler, call)
    BY <1>2, <1>5, TopWaits, <2>3 DEF Activate
  <2> QED BY <1>4, <2>1, <2>2, <2>3
<1> QED BY <1>2, <1>5, QuietListed

-----------------------------------------------------------------------------
(* Results keep the list                                                 *)

(* What the place i held above k is now in the place j above k, and all    *)
(* others above k are empty.                                               *)
LEMMA Moved ==
    ASSUME NEW H, NEW G, NEW n \in Nat, NEW o \in Nat, DOMAIN H = 1 .. n, DOMAIN G = 1 .. o,
           NEW L, NEW c, NEW w, Listed(H, L, c, w),
           NEW k \in Nat, NEW i \in 1 .. n, NEW j \in 1 .. o, k < i, k < j,
           \A p \in 1 .. k : G[p] = H[p],
           \A p \in 1 .. n : p > k /\ p # i => H[p] = None,
           \A p \in 1 .. o : p > k /\ p # j => G[p] = None,
           Replaces(G[j], H[i], L, c, w)
    PROVE  Listed(G, L, c, w)
<1> DEFINE to == [p \in 1 .. o |-> IF p = j THEN i ELSE p]
<1>1. /\ \A p \in 1 .. o : p \in 1 .. k \/ p = j \/ (p > k /\ p # j)
      /\ \A p \in 1 .. n : p \in 1 .. k \/ p = i \/ (p > k /\ p # i)
      /\ \A p \in 1 .. k : p \in 1 .. n /\ p \in 1 .. o /\ p # j /\ p # i /\ p < i
  OBVIOUS
<1>2. ASSUME NEW p \in DOMAIN G, G[p] # None PROVE p \in 1 .. k \/ p = j
  BY <1>1, <1>2
<1>3. ASSUME NEW p \in DOMAIN G, G[p] # None
      PROVE  to[p] \in DOMAIN H /\ H[to[p]] # None /\ Follows(G[p], H[to[p]], c, w)
  <2>1. CASE p \in 1 .. k
    BY <1>1, <2>1, SelfReplaces, <1>3 DEF Replaces
  <2>2. CASE p = j
    BY <2>2, <1>3 DEF Replaces
  <2> QED BY <1>2, <1>3, <2>1, <2>2
<1>4. ASSUME NEW p \in DOMAIN G, NEW q \in DOMAIN G, p < q, G[p] # None, G[q] # None
      PROVE  to[p] < to[q]
  <2>1. p \in 1 .. k
    BY <1>4, <1>2
  <2>2. to[p] = p /\ p < i
    BY <1>1, <2>1
  <2>3. to[q] = i \/ to[q] = q
    OBVIOUS
  <2> QED BY <1>4, <2>2, <2>3
<1>5. ASSUME NEW p \in DOMAIN H, NEW e \in 1 .. Len(L), H[p] # None, L[e] \in ValuesOf(H[p].scopes)
      PROVE  \E q \in DOMAIN G : G[q] # None /\ L[e] \in ValuesOf(G[q].scopes)
  <2>1. CASE p \in 1 .. k
    BY <1>1, <2>1, <1>5
  <2>2. CASE p = i
    BY <1>5, <2>2 DEF Replaces
  <2> QED BY <1>1, <1>5, <2>1, <2>2
<1> HIDE DEF to
<1> QED BY <1>3, <1>4, <1>5, Embedded

(* A continuation is captured when its loop leaves, above the driver or    *)
(* alone.                                                                  *)
LEMMA TidyCaptured ==
    ASSUME NEW fs, NEW s, NEW L, NEW c, NEW w, NEW r, Tidy(fs, None, s, r, L, c, w),
           NEW a, a = Last(s), a.kind = "loop", a.status = "busy", a.err = None,
           Len(s) = 1 \/ (Len(s) = 2 /\ s[1] = Driver)
    PROVE  Tidy(fs, Revised(a, a.scopes, "run", None), Append(Front(s), Revised(a, a.scopes, "leave", None)),
                Activation, L, c, w)
<1> DEFINE b == Revised(a, a.scopes, "leave", None)
           g == Revised(a, a.scopes, "run", None)
           u == Append(Front(s), b)
           m == Len(fs)
           k == Len(s)
           n == m + 1 + k
           H == Places(fs, None, s, r)
           G == Places(fs, g, u, Activation)
<1>1. /\ m \in Nat /\ IsStack(s) /\ s # << >> /\ Listed(H, L, c, w)
      /\ (\A i \in 1 .. k : Calm(s[i])) /\ (\A i \in 1 .. k - 1 : Stays(s[i]))
  BY DEF Tidy, Formed
<1>2. k \in {1, 2} /\ Last(s) = s[k]
  BY <1>1, StackFacts
<1>3. /\ b.kind = "loop" /\ b.status = "leave" /\ b.err = None
      /\ g.kind = "loop" /\ g.status = "run" /\ g.scopes = a.scopes /\ g.marker = a.marker
  BY RevisedFields
<1> HIDE DEF b, g
<1>4. Held(a, r) = a /\ a # None /\ Held(b, Activation) = None /\ g # None /\ Calm(b) /\ Emptied(b, Activation)
  BY <1>3, NotActivation DEF Held, None, Calm, Emptied, Activation
<1>5. IsStack(u) /\ Len(u) = k /\ Last(u) = b /\ u[k] = b /\ u # << >> /\ \A i \in 1 .. k - 1 : u[i] = s[i]
  <2>1. /\ IsStack(u) /\ Len(u) = k /\ Last(u) = b /\ u[k] = b
        /\ \A i \in 1 .. k - 1 : u[i] = s[i]
    <3>1. IsStack(s) /\ s # << >>
      BY <1>1
    <3>2. /\ IsStack(u) /\ Len(u) = Len(s) /\ Last(u) = b /\ u[Len(s)] = b
          /\ \A i \in 1 .. Len(s) - 1 : u[i] = s[i]
      BY ONLY <3>1, ReplaceTotals
    <3> QED BY <3>2
  <2>2. u # << >>
    BY <1>2, <2>1, EmptyStack
  <2> QED BY <2>1, <2>2
<1>6. Held(Driver, None) = None /\ Stays(Driver)
  BY DEF Held, Driver, None, Stays
<1>7. n \in Nat /\ DOMAIN H = 1 .. n /\ (\A p \in 1 .. m : H[p] = fs[p].cont) /\ H[m + 1] = None /\ H[n] = a
      /\ \A i \in 1 .. k - 1 : H[m + 1 + i] = Held(s[i], None)
  BY <1>1, PlaceFacts, <1>4
<1> HIDE DEF u
<1>8. DOMAIN G = 1 .. n /\ (\A p \in 1 .. m : G[p] = fs[p].cont) /\ G[m + 1] = g /\ G[n] = None
      /\ \A i \in 1 .. k - 1 : G[m + 1 + i] = Held(u[i], None)
  <2> DEFINE o == m + 1 + Len(u)
  <2>1. Len(fs) \in Nat /\ IsStack(u) /\ u # << >>
    BY <1>1, <1>5
  <2>2. DOMAIN G = 1 .. o
    BY ONLY <2>1, PlaceFacts
  <2>3. (\A p \in 1 .. m : G[p] = fs[p].cont) /\ G[m + 1] = g
    BY ONLY <2>1, PlaceFacts
  <2>4. G[o] = Held(Last(u), Activation)
    BY ONLY <2>1, PlaceFacts
  <2>5. \A i \in 1 .. Len(u) - 1 : G[m + 1 + i] = Held(u[i], None)
    BY ONLY <2>1, PlaceFacts
  <2> QED BY <1>4, <1>5, <2>2, <2>3, <2>4, <2>5
<1> HIDE DEF H, G
<1>9. Replaces(g, a, L, c, w)
  BY <1>1, <1>2, <1>7, <1>4, SelfReplaces, <1>3 DEF Replaces, Ending, Follows
<1>10. /\ \A p \in 1 .. n : p > m /\ p # n => H[p] = None
       /\ \A p \in 1 .. n : p > m /\ p # m + 1 => G[p] = None
  <2>1. CASE k = 1
    BY <1>1, <2>1, <1>7, <1>8
  <2>2. CASE k = 2
    BY <1>1, <2>2, <1>5, <1>6, <1>7, <1>8
  <2> QED BY <1>2, <2>1, <2>2
<1>11. Listed(G, L, c, w)
  <2>1. \A p \in 1 .. m : G[p] = H[p]
    BY <1>7, <1>8
  <2>2. Replaces(G[m + 1], H[n], L, c, w)
    BY <1>7, <1>8, <1>9
  <2> DEFINE j == m + 1
  <2>3. /\ n \in Nat /\ m \in Nat /\ n \in 1 .. n /\ j \in 1 .. n /\ m < n /\ m < j
        /\ DOMAIN H = 1 .. n /\ DOMAIN G = 1 .. n /\ Listed(H, L, c, w)
        /\ \A p \in 1 .. m : G[p] = H[p]
        /\ \A p \in 1 .. n : p > m /\ p # n => H[p] = None
        /\ \A p \in 1 .. n : p > m /\ p # j => G[p] = None
        /\ Replaces(G[j], H[n], L, c, w)
    BY <1>1, <1>7, <1>8, <1>10, <2>1, <2>2, <1>2
  <2> HIDE DEF m, n, k, j
  <2> QED BY ONLY <2>3, Moved
<1>12. Formed(u, Activation)
  BY <1>2, <1>1, <1>4, <1>5 DEF Formed
<1> QED BY <1>1, <1>11, <1>12 DEF Tidy, G, u, b, g, m

(* A step on which a continuation may be on its way to the driver.         *)
LEMMA HandedListed ==
    ASSUME Running, outcome' = outcome,
           ~astray' => Tidy(frames', captured', stack', res', closing', closed', swept') /\ Handed'
    PROVE  ClosingInv'
BY DEF ClosingInv, Running

LEMMA LoopReceivesListed ==
    ASSUME Inv, Labelled, ClosingInv, LoopReceives
    PROVE  ClosingInv'
<1>1. /\ Running /\ Top.kind = "loop" /\ Top.status = "busy" /\ res # None
      /\ frames' = frames /\ outcome' = outcome /\ closing' = closing /\ closed' = closed /\ swept' = swept
      /\ captured' = IF res = Activation THEN [Top EXCEPT !.status = "run"] ELSE captured
      /\ ~astray' => ~astray /\ (res # Activation \/ Top.by # "call")
  BY DEF LoopReceives, Returning
<1> SUFFICES ASSUME ~astray' PROVE ClosingInv'
  BY DEF ClosingInv
<1>2. /\ Top.err = None /\ Held(Top, res) = Top /\ captured = None /\ IsResult(res)
      /\ Tidy(frames, None, stack, res, closing, closed, swept)
  BY <1>1, GuestTop, LoopOnTop
<1>3. None.kind # "ok" /\ None # Activation
  BY NotActivation DEF None
<1>4. CASE res.kind = "ok"
  <2>1. stack' = WithTop([Top EXCEPT !.status = "run"]) /\ res' = None /\ captured' = None
    BY <1>1, <1>2, <1>4 DEF LoopReceives, Activation
  <2>2. stack' = WithTop(Revised(Top, Top.scopes, "run", None))
    BY <1>1, <1>2, <2>1, TopAsIs, Zenon
  <2>3. Tidy(frames', None, stack', res', closing', closed', swept')
    BY <1>1, <2>1, <2>2, <1>2, <1>3, TidySame DEF WithTop, Below, Top
  <2> QED BY <1>1, <2>1, <2>3, QuietListed
<1>5. CASE res.kind # "ok"
  <2>1. stack' = WithTop([Top EXCEPT !.status = "leave"]) /\ res' = res
    BY <1>5 DEF LoopReceives
  <2>2. stack' = WithTop(Revised(Top, Top.scopes, "leave", None))
    BY <1>1, <1>2, <2>1, TopAsIs, Zenon
  <2>3. CASE res # Activation
    BY <1>1, <1>2, <2>3, <1>3, <1>5, TidySame, <2>1, <2>2, QuietListed DEF Top, WithTop, Below
  <2>4. CASE res = Activation
    <3> DEFINE a == Top
    <3>1. captured' = Revised(a, a.scopes, "run", None)
      <4>1. captured' = [Top EXCEPT !.status = "run"]
        BY <1>1, <2>4
      <4>2. [Top EXCEPT !.status = "run"] = Revised(Top, Top.scopes, "run", None)
        BY <1>1, <1>2, TopAsIs, Zenon
      <4> QED BY <4>1, <4>2
    <3>2. Len(stack) = 1 \/ (Len(stack) = 2 /\ stack[1] = Driver)
      BY <1>1, <2>4, LoopOnTop, TopShapes DEF IsLoop, Top
    <3>3. a = Last(stack) /\ a.kind = "loop" /\ a.status = "busy" /\ a.err = None
      BY <1>1, <1>2 DEF Top
    <3>4. stack' = Append(Front(stack), Revised(a, a.scopes, "leave", None))
      BY <2>2 DEF WithTop, Below
    <3> HIDE DEF a
    <3>5. Tidy(frames, Revised(a, a.scopes, "run", None), Append(Front(stack), Revised(a, a.scopes, "leave", None)),
               Activation, closing, closed, swept)
      BY ONLY <1>2, <3>2, <3>3, TidyCaptured
    <3>6. Handed'
      <4>1. stack # << >> /\ IsStack(stack)
        BY <1>1, LoopOnTop
      <4>2. Last(stack') = Revised(a, a.scopes, "leave", None)
        BY <3>4, <4>1, ReplaceTotals
      <4>3. Top'.status = "leave"
        BY <4>2 DEF Top, Revised
      <4> QED BY <2>1, <2>4, <4>3 DEF Handed
    <3>7. Tidy(frames', captured', stack', res', closing', closed', swept')
      BY <1>1, <2>1, <2>4, <3>1, <3>4, <3>5
    <3> QED BY <1>1, <3>6, <3>7, HandedListed
  <2> QED BY <2>3, <2>4
<1> QED BY <1>4, <1>5

(* A loop on top that does not hand over what it holds.                    *)
LEMMA LoopHolds ==
    ASSUME Inv, ClosingInv, Running, ~astray, Top.kind = "loop", ~Has(Top, "activated"), res # Activation
    PROVE  /\ captured = None /\ Held(Top, res) = Top
           /\ Tidy(frames, None, stack, res, closing, closed, swept)
  BY NothingCaptured DEF Has, Held

LEMMA RecordOnTop ==
    ASSUME Inv, Labelled, ClosingInv, Running, ~astray, Top.kind \in {"native", "fallback", "handler"}
    PROVE  /\ res # Activation /\ captured = None /\ Len(stack) > 1
           /\ Tidy(frames, None, stack, res, closing, closed, swept)
<1>1. res = Activation => Asking
  BY DEF Labelled
<1>2. res # Activation
  BY <1>1 DEF Asking
<1>3. ~Has(Top, "activated")
  BY DEF Has
<1>4. captured = None /\ Tidy(frames, None, stack, res, closing, closed, swept)
  BY <1>2, <1>3, NothingCaptured
<1>5. Len(stack) > 1
  BY AboveBottom
<1> QED BY <1>2, <1>4, <1>5

(* What is on top leaves and holds nothing that is listed.                 *)
LEMMA TidyBelow ==
    ASSUME NEW cont, Tidy(frames, cont, stack, res, closing, closed, swept), Len(stack) > 1,
           \/ Held(Top, res) = None
           \/ \A k \in 1 .. Len(closing) : closing[k] \notin ValuesOf(Held(Top, res).scopes),
           NEW r2
    PROVE  Tidy(frames, cont, Below, r2, closing, closed, swept) /\ Stays(Last(Below))
<1> DEFINE h == Held(Top, res)
<1>1. Replaces(None, h, closing, closed, swept)
  BY DEF Replaces
<1> HIDE DEF h
<1> QED BY TidyPopped, <1>1 DEF Below, h, Top

LEMMA TidyHandled ==
    ASSUME NEW fs, NEW cont, NEW s, NEW r, NEW L, NEW c, NEW w, Tidy(fs, cont, s, r, L, c, w),
           Stays(Last(s)), NEW a, a.kind = "handler", a.cont = None,
           NEW id, NEW catch, NEW depth, NEW s2, Handled(s, s2, a, id, catch, depth, Len(L))
    PROVE  Tidy(fs, cont, s2, None, L, c, w)
<1> DEFINE d == 1 + Min({depth, CallLimit - 1})
           b == NewLoop("call", id, catch, d, Len(L))
           u == s \o <<a>>
<1>1. IsStack(s)
  BY DEF Tidy, Formed
<1>2. s2 = Append(u, b)
  BY <1>1, PushTwice, PushFacts DEF Handled
<1>3. Tidy(fs, cont, u, None, L, c, w) /\ Last(u) = a /\ Stays(a)
  BY TidyRecord
<1> HIDE DEF u, d
<1>4. Stays(Last(u))
  BY <1>3
<1>5. Tidy(fs, cont, Append(u, b), None, L, c, w)
  BY <1>3, <1>4, TidyStarted
<1> QED BY <1>2, <1>5

LEMMA LoopLeavesListed ==
    ASSUME Inv, Labelled, ClosingInv, LoopLeaves
    PROVE  ClosingInv'
<1>1. /\ Running /\ Top.kind = "loop" /\ Top.by # "main" /\ Top.status = "leave" /\ res # None
      /\ frames' = frames /\ captured' = captured /\ outcome' = outcome
      /\ closing' = closing /\ closed' = closed /\ swept' = swept /\ (astray => astray')
  BY Zenon DEF LoopLeaves, Returning, Events
<1>2. /\ Unwinds(Top) => stack' = WithTop([Top EXCEPT !.status = "unwind", !.err = res]) /\ res' = None
      /\ ~Unwinds(Top) => stack' = Below /\ res' = res
  BY Zenon DEF LoopLeaves
<1> SUFFICES ASSUME ~astray' PROVE ClosingInv'
  BY DEF ClosingInv
<1>3. ~astray
  BY <1>1
<1>4. IsResult(res) /\ stack # << >> /\ Len(stack) > 1 /\ IsStack(stack) /\ IsLoop(Top)
  BY <1>1, <1>3, TopBelongs, AboveBottom, LoopOnTop
<1>5. res = Activation \/ res.kind \in {"ok", "error"}
  BY <1>1, <1>4, ResultKinds
<1>6. ~Has(Top, "activated")
  BY <1>3, <1>4, <1>1 DEF Labelled, AsksAgain
<1> DEFINE b == Revised(Top, Top.scopes, "unwind", res)
<1>7. [Top EXCEPT !.status = "unwind", !.err = res] = b
  BY <1>1, TopAsIs, Zenon
<1>8. CASE res.kind = "error"
  <2>1. res # Activation
    BY <1>4, <1>8, ResultKinds
  <2>2. captured = None /\ Held(Top, res) = Top /\ Tidy(frames, None, stack, res, closing, closed, swept)
    BY <1>1, <1>3, <1>6, <2>1, LoopHolds
  <2>3. stack' = WithTop(b) /\ res' = None
    BY <1>2, <1>7, <1>8 DEF Unwinds
  <2>4. Tidy(frames', None, stack', res', closing', closed', swept')
    BY <1>1, <2>3, <1>8, <2>1, <2>2, TidySame DEF WithTop, Below, Top
  <2> QED BY <1>1, <2>2, <2>4, QuietListed
<1>9. CASE res.kind = "ok"
  <2>1. res # Activation
    BY <1>4, <1>9, ResultKinds
  <2>2. captured = None /\ Held(Top, res) = Top /\ Tidy(frames, None, stack, res, closing, closed, swept)
    BY <1>1, <1>3, <1>6, <2>1, LoopHolds
  <2>3. ValuesOf(Top.scopes) = {}
    BY <1>1, <1>9, <2>2 DEF Tidy, Formed, Emptied, Top
  <2>4. stack' = Below /\ res' = res
    BY <1>2, <1>9, <2>1 DEF Unwinds
  <2>5. Tidy(frames', None, stack', res', closing', closed', swept')
    BY <1>1, <2>4, <1>4, <2>2, <2>3, TidyBelow
  <2> QED BY <1>1, <2>2, <2>5, QuietListed
<1>10. CASE res = Activation
  <2>1. Tidy(frames, captured, stack, res, closing, closed, swept) /\ Held(Top, res) = None
    BY <1>1, <1>3, <1>10 DEF ClosingInv, Held
  <2>2. CASE Unwinds(Top)
    <3>1. stack' = WithTop(b) /\ res' = None
      BY <1>2, <1>7, <2>2
    <3>2. b.kind = "loop" /\ b.err = Activation /\ b.status = "unwind"
      BY <1>10, RevisedFields
    <3> HIDE DEF b
    <3>3. Held(b, None) = None /\ Calm(b) /\ Emptied(b, None)
      BY <3>2 DEF Held, Calm, Emptied, Activation
    <3>4. Tidy(frames, captured, Append(Front(stack), b), None, closing, closed, swept)
          /\ Last(Append(Front(stack), b)) = b
      BY <2>1, <3>3, TidyTurned DEF Replaces, Top
    <3>5. Tidy(frames', captured', stack', res', closing', closed', swept')
      BY <1>1, <3>1, <3>4 DEF WithTop, Below
    <3>6. Top' = b
      BY <3>1, <3>4 DEF WithTop, Below, Top
    <3>7. Handed'
      BY <3>2, <3>6 DEF Handed, Has
    <3> QED BY <1>1, <3>5, <3>7, HandedListed
  <2>3. CASE ~Unwinds(Top)
    <3>1. stack' = Below /\ res' = Activation
      BY <1>2, <1>10, <2>3
    <3>2. Tidy(frames', captured', stack', res', closing', closed', swept')
      BY <1>1, <3>1, <1>4, <2>1, TidyBelow
    <3>3. Last(Below) = Driver
      BY <1>3, <1>1, <1>10, <1>4, OverDriver DEF Labelled, Asking, IsLoop
    <3>4. Handed'
      BY <3>1, <3>3 DEF Handed, Top, Driver
    <3> QED BY <1>1, <3>2, <3>4, HandedListed
  <2> QED BY <2>2, <2>3
<1> QED BY <1>5, <1>8, <1>9, <1>10

LEMMA NativeReturnsListed ==
    ASSUME Inv, Labelled, ClosingInv, NativeReturns
    PROVE  ClosingInv'
<1>1. /\ Running /\ Top.kind = "native" /\ stack' = Below
      /\ frames' = frames /\ captured' = captured /\ outcome' = outcome
      /\ closing' = closing /\ closed' = closed /\ swept' = swept /\ (astray => astray')
  BY DEF NativeReturns, Returning, Events
<1>2. ASSUME ~astray'
      PROVE  captured' = None /\ Tidy(frames', None, stack', res', closing', closed', swept')
  BY <1>1, <1>2, RecordOnTop, TidyBelow DEF Held
<1> QED BY <1>1, <1>2, QuietListed

LEMMA FallbackReturnsListed ==
    ASSUME Inv, Labelled, ClosingInv, FallbackReturns
    PROVE  ClosingInv'
<1> DEFINE a == HandlerRecord(Top.call, Top.caller, None, Top.native, Top.depth)
<1>1. /\ Running /\ Top.kind = "fallback" /\ frames' = frames /\ outcome' = outcome
      /\ captured' \in {None, captured}
      /\ closing' = closing /\ closed' = closed /\ swept' = swept /\ (astray => astray')
      /\ stack' = Below \/ StartHandler(Below, a, Top.depth)
  BY Zenon DEF FallbackReturns, Returning
<1>2. ASSUME ~astray'
      PROVE  captured' = None /\ Tidy(frames', None, stack', res', closing', closed', swept')
  <2>1. captured = None /\ Len(stack) > 1 /\ Tidy(frames, None, stack, res, closing, closed, swept)
    BY <1>1, <1>2, RecordOnTop
  <2>2. Held(Top, res) = None
    BY <1>1 DEF Held
  <2>3. \A r2 : Tidy(frames, None, Below, r2, closing, closed, swept)
    BY <2>1, <2>2, TidyBelow
  <2>4. Stays(Last(Below))
    BY <2>1, <2>2, TidyBelow
  <2>5. CASE stack' = Below
    BY <1>1, <2>1, <2>3, <2>5
  <2>6. CASE StartHandler(Below, a, Top.depth)
    <3> DEFINE s == Below
               d == Top.depth
               id == Fresh
               catch == a.call
               m == Len(closing)
    <3>1. a.kind = "handler" /\ a.cont = None
      BY DEF HandlerRecord
    <3>2. Handled(s, stack', a, id, catch, d, m) /\ res' = None
      BY <2>6 DEF StartHandler, Handled
    <3>3. Tidy(frames, None, s, None, closing, closed, swept) /\ Stays(Last(s)) /\ m = Len(closing)
      BY <2>3, <2>4
    <3> HIDE DEF a, s, d, id, catch, m
    <3> QED BY <1>1, <2>1, <3>2, <3>1, <3>3, TidyHandled
  <2> QED BY <1>1, <2>5, <2>6
<1> QED BY <1>1, <1>2, QuietListed

(* A continuation goes on as a resumed loop, and holds what it held.       *)
LEMMA ResumedHolds ==
    ASSUME NEW t, IsCont(t), NEW L, NEW c, NEW w, Replaces(t, t, L, c, w)
    PROVE  LET b == [t EXCEPT !.by = "resume"] IN
           /\ Calm(b) /\ Emptied(b, None)
           /\ Replaces(Held(b, None), t, L, c, w)
<1> DEFINE b == [t EXCEPT !.by = "resume"]
<1>1. t # None
  BY DEF IsCont, IsLoop, None
<1>2. b.kind = "loop" /\ b.status = "run" /\ b.err = None /\ b.marker = t.marker /\ b.scopes = t.scopes
  BY DEF IsCont, IsLoop
<1> HIDE DEF b
<1>3. Held(b, None) = b /\ b # None /\ Calm(b) /\ Emptied(b, None)
  BY <1>2, NotActivation DEF Held, None, Calm, Emptied
<1>4. \A v : ~Ending(t, v)
  BY DEF Ending, IsCont
<1>5. Replaces(b, t, L, c, w)
  BY <1>1, <1>2, <1>3, <1>4 DEF Replaces, Follows
<1> QED BY <1>3, <1>5 DEF b

LEMMA AloneStack ==
    ASSUME NEW s, IsStack(s), Len(s) = 1, NEW a, s[1] = a
    PROVE  s = <<a>>
<1>1. PICK A : s \in Seq(A)
  BY DEF IsStack
<1>2. s \in Seq(A \cup {a}) /\ <<a>> \in Seq(A \cup {a}) /\ Len(<<a>>) = 1 /\ <<a>>[1] = a
  BY <1>1
<1>3. \A i \in 1 .. Len(s) : s[i] = <<a>>[i]
  BY <1>2
<1> QED BY <1>2, <1>3, SeqEqual

LEMMA HandlerReturnsListed ==
    ASSUME Inv, Labelled, ClosingInv, HandlerReturns
    PROVE  ClosingInv'
<1> DEFINE a == CountError(Top)
<1>1. /\ Running /\ Top.kind = "handler" /\ frames' = frames /\ captured' = captured /\ outcome' = outcome
      /\ closing' = closing /\ closed' = closed /\ swept' = swept /\ astray' = astray
      /\ \/ StartHandler(Below, a, Top.depth)
         \/ Top.cont = None /\ stack' = Below
         \/ Top.cont # None /\ Resume(Top.cont)
  BY Zenon DEF HandlerReturns, Returning, Events
<1>2. ASSUME ~astray'
      PROVE  captured' = None /\ Tidy(frames', None, stack', res', closing', closed', swept')
  <2>1. captured = None /\ Len(stack) > 1 /\ Tidy(frames, None, stack, res, closing, closed, swept)
    BY <1>1, <1>2, RecordOnTop
  <2>2. Held(Top, res) = Top.cont
    BY <1>1 DEF Held
  <2>3. IsHandler(Top) /\ stack # << >> /\ IsStack(stack)
    BY <1>1, TopShapes DEF Inv, Sound, Top, WellStacked
  <2> DEFINE n == Len(frames) + 1 + Len(stack)
             H == Places(frames, None, stack, res)
  <2>4. Replaces(Top.cont, Top.cont, closing, closed, swept)
    <3>1. n \in DOMAIN H /\ H[n] = Held(Last(stack), res) /\ Listed(H, closing, closed, swept)
      <4>1. Len(frames) \in Nat /\ Listed(H, closing, closed, swept)
        BY <2>1 DEF Tidy
      <4>2. n \in Nat /\ n # 0 /\ DOMAIN H = 1 .. n /\ H[n] = Held(Last(stack), res)
        BY <2>3, <4>1, PlaceFacts
      <4> HIDE DEF n, H
      <4> QED BY <4>1, <4>2
    <3> HIDE DEF n, H
    <3> QED BY <2>2, <3>1, SelfReplaces DEF Top
  <2>5. CASE StartHandler(Below, a, Top.depth)
    <3> DEFINE t == Top
               u == Append(Front(stack), a)
               d == 1 + Min({Top.depth, CallLimit - 1})
               id == Fresh
               catch == a.call
    <3>1. a = [t EXCEPT !.errors = t.errors + 1] /\ IsHandler(t) /\ t.kind = "handler"
      BY <1>1, <2>3 DEF CountError
    <3>2. stack' = Below \o <<a, NewLoop("call", id, catch, d, Len(closing))>> /\ res' = None
      BY <2>5 DEF StartHandler
    <3> HIDE DEF a, t, d, id, catch
    <3>3. a.kind = "handler" /\ a.cont = t.cont
      BY <3>1 DEF IsHandler
    <3>4. Held(a, None) = t.cont /\ Calm(a) /\ Emptied(a, None) /\ Stays(a)
      BY <3>3 DEF Held, Calm, Emptied, Stays
    <3>5. Tidy(frames, None, u, None, closing, closed, swept) /\ Last(u) = a
      BY <2>1, <3>4, TidyTurned, <2>2, <2>4 DEF Top, t
    <3>6. stack' = Append(u, NewLoop("call", id, catch, d, Len(closing)))
      BY <2>3, PopFacts, <3>2, PushTwice DEF Below
    <3> HIDE DEF u
    <3>7. Stays(Last(u))
      BY <3>4, <3>5
    <3> QED BY <1>1, <2>1, <3>2, <3>5, <3>6, <3>7, TidyStarted
  <2>6. CASE Top.cont = None /\ stack' = Below
    BY <2>1, <2>2, <2>6, TidyBelow, <1>1
  <2>7. CASE Top.cont # None /\ Resume(Top.cont)
    <3> DEFINE t == Top.cont
               b == [t EXCEPT !.by = "resume"]
    <3>1. stack' = <<Driver, b>> /\ res' = None
      BY <2>7 DEF Resume
    <3>2. IsCont(t) /\ t # None
      BY <2>3, <2>7 DEF IsHandler
    <3>3. Len(stack) = 2 /\ stack[1] = Driver
      BY <1>1, <2>3, <2>7, TopShapes DEF Top, Inv, Sound
    <3>4. Front(stack) = <<Driver>>
      <4>1. /\ IsStack(Front(stack)) /\ Len(Front(stack)) = Len(stack) - 1
            /\ \A i \in 1 .. Len(stack) - 1 : Front(stack)[i] = stack[i]
        BY ONLY <2>3, PopFacts
      <4>2. Len(Front(stack)) = 1 /\ Front(stack)[1] = Driver
        BY ONLY <3>3, <4>1
      <4> QED BY ONLY <4>1, <4>2, AloneStack
    <3>5. stack' = Append(Front(stack), b)
      BY <3>1, <3>4, DoubleStack
    <3>6. Replaces(t, t, closing, closed, swept)
      BY <2>4
    <3> HIDE DEF t
    <3>7. Calm(b) /\ Emptied(b, None) /\ Replaces(Held(b, None), t, closing, closed, swept)
      BY ONLY <3>2, <3>6, ResumedHolds
    <3> HIDE DEF b
    <3>8. Tidy(frames, None, Append(Front(stack), b), None, closing, closed, swept)
      BY <2>1, <3>7, TidyTurned, <2>2 DEF t, Top
    <3> QED BY <1>1, <2>1, <3>1, <3>5, <3>8
  <2> QED BY <1>1, <2>5, <2>6, <2>7
<1> QED BY <1>1, <1>2, QuietListed

-----------------------------------------------------------------------------
(* Closing keeps the list                                                *)

LEMMA CloseNextListed ==
    ASSUME Inv, Labelled, ClosingInv, CloseNext
    PROVE  ClosingInv'
<1> DEFINE d == IF Top.by = "target" /\ Top.status = "unwind" THEN Top.depth - BaseDepth + 1 ELSE Top.depth
           id == Fresh
           v == Last(closing)
           L2 == Front(closing)
           c2 == [closed EXCEPT ![v] = @ + 1]
           returning == Top.status = "closing" /\ v \in ToSet(Last(Top.scopes))
           failing == Top.status = "unwind" /\ Top.err # Activation
<1>1. /\ Running /\ res = None /\ Top.kind = "loop" /\ Top.status \in {"unwind", "closing"}
      /\ Len(closing) > Top.marker
      /\ CallGuest(stack, id, Top.catch, d, Len(closing) - 1)
      /\ frames' = frames /\ captured' = captured /\ outcome' = outcome /\ astray' = astray
      /\ closing' = L2 /\ closed' = c2
      /\ swept' = IF returning \/ failing \/ v \notin OpenValues THEN swept ELSE swept \cup {v}
  BY Zenon DEF CloseNext, Events
<1>2. swept \subseteq swept' /\ (v \in swept' \/ Ending(Top, v) \/ v \notin OpenValues)
  <2>1. returning \/ failing => Ending(Top, v)
    BY DEF Ending
  <2> HIDE DEF v, returning, failing
  <2> QED BY <1>1, <2>1
<1> HIDE DEF d, id
<1>3. ASSUME ~astray'
      PROVE  captured' = None /\ Tidy(frames', None, stack', res', closing', closed', swept')
  <2>1. captured = None /\ Held(Top, res) = Top /\ Tidy(frames, None, stack, res, closing, closed, swept)
    BY <1>1, <1>3, LoopHolds, NotActivation DEF Labelled, Inv, AsksAgain
  <2> DEFINE t == Top
             H == Places(frames, None, stack, res)
  <2>2. t = Last(stack) /\ t.kind = "loop" /\ Held(t, res) = t /\ Len(closing) > t.marker /\ Stays(t)
    BY <1>1, <2>1 DEF Top, Stays
  <2>3. HolderFits(t, closing, closed, swept) /\ closing \in Seq(Nat)
    <3> HIDE DEF t
    <3> QED BY ONLY <2>1, <2>2, TopHolds
  <2>4. \A x : x \in OpenValues <=> \E p \in DOMAIN H : H[p] # None /\ x \in ValuesOf(H[p].scopes)
    BY <2>1, <1>1, OpenPlaces
  <2>5. \/ Last(closing) \in swept' \/ Ending(Last(stack), Last(closing))
        \/ \A p \in DOMAIN H : H[p] # None => Last(closing) \notin ValuesOf(H[p].scopes)
    <3> HIDE DEF H
    <3> QED BY <1>2, <2>4 DEF v, Top
  <2>6. Tidy(frames, None, stack, res, Front(closing), [closed EXCEPT ![Last(closing)] = @ + 1], swept')
    <3>1. /\ Last(stack).kind = "loop" /\ Held(Last(stack), res) = Last(stack)
          /\ Len(closing) > Last(stack).marker /\ swept \subseteq swept'
      BY <1>2, <2>2
    <3> QED BY ONLY <2>1, <2>5, <3>1, TidySwept
  <2>7. Tidy(frames, None, stack, res, L2, c2, swept')
    BY <2>6
  <2>8. Len(L2) = Len(closing) - 1
    BY <2>3, <2>2, PopFacts DEF HolderFits, IsStack
  <2> HIDE DEF L2, c2
  <2>9. Called(stack, stack', res', id, Top.catch, d, Len(L2)) /\ Stays(Last(stack))
    BY <2>2, <2>8, <1>1 DEF CallGuest, Called
  <2>10. Tidy(frames, None, stack', res', L2, c2, swept')
    BY ONLY <2>7, <2>9, TidyCalled
  <2> QED BY <1>1, <2>1, <2>10
<1> QED BY <1>1, <1>3, QuietListed

LEMMA CloseHandledListed ==
    ASSUME Inv, Labelled, ClosingInv, CloseHandled
    PROVE  ClosingInv'
<1>1. /\ Running /\ res # None /\ Top.kind = "loop" /\ Top.status \in {"unwind", "closing"}
      /\ stack' = WithTop(IF res.kind = "ok" THEN Top ELSE [Top EXCEPT !.err = res])
      /\ res' = None /\ outcome' = outcome
      /\ frames' = frames /\ captured' = captured /\ astray' = astray
      /\ closing' = closing /\ closed' = closed /\ swept' = swept
  BY DEF CloseHandled, Returning, Events, Ghosts
<1>2. ASSUME ~astray'
      PROVE  captured' = None /\ Tidy(frames', None, stack', res', closing', closed', swept')
  <2>1. res # Activation
    BY <1>1, <1>2 DEF Labelled, Asking
  <2>2. ~Has(Top, "activated")
    BY <1>1, <1>2 DEF Labelled, Inv, AsksAgain
  <2>3. captured = None /\ Held(Top, res) = Top /\ Tidy(frames, None, stack, res, closing, closed, swept)
    BY <1>1, <1>2, <2>1, <2>2, LoopHolds
  <2>4. IsLoop(Top) /\ stack # << >> /\ IsStack(stack)
    BY <1>1, LoopOnTop
  <2>5. [Top EXCEPT !.err = res] = Revised(Top, Top.scopes, Top.status, res)
    BY <1>1, TopAsIs, Zenon
  <2>6. Top.err.kind # "ok" /\ Top.err # Activation
    BY <2>4, StackFacts, <2>3, <1>1, <2>2 DEF Top, Tidy, Formed, Calm, Has
  <2>7. PICK e \in {Top.err, res} :
          stack' = WithTop(Revised(Top, Top.scopes, Top.status, e)) /\ e.kind # "ok" /\ e # Activation
    BY <1>1, <2>1, <2>5, <2>6, <2>4 DEF IsLoop, Revised
  <2> DEFINE b == Revised(Top, Top.scopes, Top.status, e)
             t == Top
  <2>8. b.kind = "loop" /\ b.status = t.status /\ b.marker = t.marker /\ b.scopes = t.scopes /\ b.err = e
    BY RevisedFields DEF Revised
  <2>9. stack' = Append(Front(stack), b)
    BY <2>7 DEF WithTop, Below
  <2>10. t = Last(stack) /\ t.kind = "loop" /\ t.status \in {"unwind", "closing"} /\ Held(t, res) = t
    BY <1>1, <2>3 DEF Top
  <2> HIDE DEF b, t
  <2>11. Held(b, None) = b /\ Calm(b) /\ Emptied(b, None) /\ b # None
    BY <2>7, <2>8, <2>10 DEF Held, Calm, Emptied, None
  <2>12. HolderFits(t, closing, closed, swept) /\ t # None
    BY ONLY <2>3, <2>10, TopHolds
  <2>13. Replaces(b, t, closing, closed, swept)
    BY <2>8, <2>12, <2>11 DEF Ending, HolderFits, Replaces, Follows
  <2>14. Replaces(Held(b, None), Held(Last(stack), res), closing, closed, swept)
    BY <2>10, <2>11, <2>13
  <2>15. Tidy(frames, None, stack', None, closing, closed, swept)
    BY ONLY <2>3, <2>9, <2>11, <2>14, TidyTurned
  <2> QED BY <1>1, <2>3, <2>15
<1> QED BY <1>1, <1>2, QuietListed

LEMMA CloseDoneListed ==
    ASSUME Inv, Charged, Labelled, ClosingInv, CloseDone
    PROVE  ClosingInv'
<1>1. /\ Running /\ res = None /\ Top.kind = "loop" /\ Top.status \in {"unwind", "closing"}
      /\ Len(closing) <= Top.marker
      /\ frames' = frames /\ captured' = captured /\ astray' = astray
      /\ closing' = closing /\ closed' = closed /\ swept' = swept
  BY DEF CloseDone, Events, Ghosts
<1> SUFFICES ASSUME ~astray' PROVE ClosingInv'
  BY DEF ClosingInv
<1>2. ~astray
  BY <1>1
<1>3. stack # << >> /\ WellStacked(stack) /\ IsLoop(Top)
  BY <1>1, LoopOnTop
<1>4. Has(Top, "activated") => AsksAgain
  BY <1>2, <1>3 DEF Labelled
<1>5. ASSUME ~Has(Top, "activated")
      PROVE  /\ captured = None /\ Held(Top, res) = Top
             /\ Tidy(frames, None, stack, res, closing, closed, swept)
             /\ \A k \in 1 .. Len(closing) : closing[k] \notin ValuesOf(Top.scopes)
             /\ closing \in Seq(Nat) /\ Calm(Top)
  <2>1. captured = None /\ Held(Top, res) = Top /\ Tidy(frames, None, stack, res, closing, closed, swept)
    BY <1>1, <1>2, <1>5, LoopHolds, NotActivation
  <2> DEFINE t == Top
  <2>2. t = Last(stack) /\ t.kind = "loop" /\ Held(t, res) = t /\ Len(closing) <= t.marker
    BY <1>1, <2>1 DEF Top
  <2>3. Calm(Top)
    BY <1>3, StackFacts, <2>1 DEF Top, WellStacked, Tidy, Formed
  <2> HIDE DEF t
  <2>4. HolderFits(t, closing, closed, swept) /\ closing \in Seq(Nat)
    BY ONLY <2>1, <2>2, TopHolds
  <2>5. \A k \in 1 .. Len(closing) : closing[k] \notin ValuesOf(t.scopes)
    <3>1. /\ t.marker \in 0 .. Len(closing) /\ Len(closing) \in Nat
          /\ \A k \in 1 .. Len(closing) : closing[k] \in ValuesOf(t.scopes) => k > t.marker
      BY <2>4 DEF HolderFits
    <3> QED BY ONLY <2>2, <3>1
  <2> QED BY <2>1, <2>3, <2>4, <2>5 DEF t
<1>6. CASE Top.status = "unwind" /\ Len(stack) = 1
  <2>1. stack' = << >> /\ outcome' = "failed"
    BY <1>6 DEF CloseDone
  <2>2. Top.by = "main"
    BY <1>1, <1>3, <1>6, TopShapes DEF Top
  <2>3. /\ captured = None /\ Held(Top, res) = Top /\ Tidy(frames, None, stack, res, closing, closed, swept)
        /\ \A k \in 1 .. Len(closing) : closing[k] \notin ValuesOf(Top.scopes)
        /\ closing \in Seq(Nat)
    BY <1>4, <1>5, <2>2 DEF AsksAgain
  <2>4. Len(frames) = 0 /\ frames = << >>
    BY <1>1, <1>2, <2>2, TopDepth, FramesCount
  <2> DEFINE G == Places(frames, None, stack, res)
  <2>5. DOMAIN G = 1 .. 2 /\ G[1] = None /\ G[2] = Top
    <3>1. IsStack(stack)
      BY <1>3 DEF WellStacked
    <3>2. DOMAIN G = 1 .. 2 /\ G[1] = None /\ G[2] = Held(Last(stack), res)
      BY ONLY <1>3, <1>6, <2>4, <3>1, OnePlace
    <3> QED BY <2>3, <3>2 DEF Top
  <2>6. Listed(G, closing, closed, swept)
    BY <2>3 DEF Tidy
  <2> HIDE DEF G
  <2>7. \A k \in 1 .. Len(closing) : FALSE
    BY <2>3, <2>5, <2>6 DEF Listed
  <2>8. closing = << >>
    <3>1. Len(closing) = 0
      <4>1. Len(closing) \in Nat
        BY <2>3
      <4> HIDE DEF G
      <4> QED BY ONLY <2>7, <4>1
    <3> QED BY ONLY <2>3, <3>1
  <2>9. Tracked(closing, closed, swept)
    BY <2>6 DEF Listed
  <2>10. ~Running'
    BY <2>1 DEF Running
  <2> QED BY <1>1, <2>1, <2>3, <2>4, <2>8, <2>9, <2>10 DEF ClosingInv
<1>7. CASE Top.status = "unwind" /\ Len(stack) # 1
  <2>1. stack' = Below /\ res' = Top.err /\ outcome' = outcome
    BY <1>7 DEF CloseDone
  <2>2. Len(stack) > 1
    BY <1>1, <1>3, <1>7, TopShapes, AboveBottom DEF Top
  <2>3. CASE Top.err = Activation
    <3>1. Top.by = "resume"
      BY <1>1, <1>4, <2>3 DEF Has, AsksAgain
    <3>2. Tidy(frames, captured, Below, Activation, closing, closed, swept)
      BY <2>2, TidyBelow, <1>1, <1>2, <2>3 DEF ClosingInv, Held
    <3>3. Last(Below) = Driver
      BY <1>1, <3>1, OverDriver
    <3>4. Handed'
      BY <2>1, <2>3, <3>3 DEF Handed, Top, Driver
    <3>5. Tidy(frames', captured', stack', res', closing', closed', swept')
      BY <1>1, <2>1, <2>3, <3>2
    <3> QED BY <1>1, <2>1, <3>4, <3>5, HandedListed
  <2>4. CASE Top.err # Activation
    BY <1>5, <2>4, <2>2, TidyBelow, <1>1, <2>1, QuietListed DEF Has
  <2> QED BY <2>3, <2>4
<1>8. CASE Top.status = "closing" /\ Top.err = None
  BY <1>8, <1>5, NotActivation, <1>1, FrameListed, QuietListed DEF CloseDone, Has
<1>9. CASE Top.status = "closing" /\ Top.err # None
  <2>1. stack' = WithTop([Top EXCEPT !.status = "leave"]) /\ res' = Top.err /\ outcome' = outcome
    BY <1>9 DEF CloseDone
  <2>2. ~Has(Top, "activated")
    BY <1>4, <1>9 DEF AsksAgain
  <2>3. /\ captured = None /\ Held(Top, res) = Top /\ Calm(Top)
        /\ Tidy(frames, None, stack, res, closing, closed, swept)
    BY <1>5, <2>2
  <2> DEFINE t == Top
             b == Revised(t, t.scopes, "leave", t.err)
  <2>4. stack' = Append(Front(stack), b)
    <3>1. [Top EXCEPT !.status = "leave"] = b
      BY <1>1, TopAsIs, Zenon
    <3> QED BY <2>1, <3>1 DEF WithTop, Below
  <2>5. t = Last(stack) /\ t.kind = "loop" /\ Held(t, res) = t /\ t.err.kind # "ok" /\ t.err # Activation
    BY <1>1, <2>2, <2>3 DEF Calm, Has, Top
  <2> HIDE DEF t
  <2>6. Tidy(frames, None, Append(Front(stack), Revised(t, t.scopes, "leave", t.err)), t.err, closing, closed, swept)
    BY ONLY <2>3, <2>5, TidySame
  <2>7. Tidy(frames, None, stack', res', closing, closed, swept)
    BY <2>1, <2>4, <2>6 DEF t
  <2> QED BY <1>1, <2>1, <2>3, <2>7, QuietListed
<1> QED BY <1>1, <1>6, <1>7, <1>8, <1>9

-----------------------------------------------------------------------------
(* The driver keeps the list                                             *)

(* The driver holds no values.                                             *)
LEMMA DriverHolds ==
    /\ IsStack(<<Driver>>) /\ <<Driver>> # << >> /\ Len(<<Driver>>) = 1
    /\ <<Driver>>[1] = Driver /\ Last(<<Driver>>) = Driver
    /\ Stays(Driver) /\ Calm(Driver) /\ \A r : Held(Driver, r) = None /\ Emptied(Driver, r)
  BY SingleStack, EmptyStack, LastPushed DEF Driver, Stays, Calm, Held, Emptied

(* What is captured waits in a frame of the driver.                        *)
LEMMA TidyWaiting ==
    ASSUME NEW fs, IsStack(fs), NEW p, NEW q, NEW s, NEW r, NEW L, NEW c, NEW w,
           Tidy(fs, p, s, r, L, c, w), Len(s) = 1, Held(Last(s), r) = None, NEW r2
    PROVE  Tidy(Append(fs, [cont |-> p, req |-> q]), None, <<Driver>>, r2, L, c, w)
<1> DEFINE g == [cont |-> p, req |-> q]
           fs2 == Append(fs, g)
           u == <<Driver>>
           m == Len(fs)
           H == Places(fs, p, s, r)
           G == Places(fs2, None, u, r2)
<1>1. m \in Nat /\ IsStack(s) /\ s # << >> /\ Listed(H, L, c, w)
  BY DEF Tidy, Formed
<1>2. IsStack(u) /\ u # << >> /\ Len(u) = 1 /\ Last(u) = Driver /\ Held(Driver, r2) = None
  BY DriverHolds
<1>3. Formed(u, r2)
  BY DriverHolds DEF Formed
<1>4. g.cont = p
  OBVIOUS
<1> HIDE DEF g, u
<1>5. Len(fs2) = m + 1 /\ fs2[m + 1] = g /\ \A i \in 1 .. m : fs2[i] = fs[i]
  BY PushFacts
<1>6. /\ DOMAIN H = 1 .. m + 2 /\ (\A i \in 1 .. m : H[i] = fs[i].cont)
      /\ H[m + 1] = p /\ H[m + 2] = None
  <2> DEFINE n == m + 1 + Len(s)
  <2>1. DOMAIN H = 1 .. n
    BY ONLY <1>1, PlaceFacts
  <2>2. (\A i \in 1 .. m : H[i] = fs[i].cont) /\ H[m + 1] = p
    BY ONLY <1>1, PlaceFacts
  <2>3. H[n] = Held(Last(s), r)
    BY ONLY <1>1, PlaceFacts
  <2>4. n = m + 2
    BY <1>1
  <2> QED BY <2>1, <2>2, <2>3, <2>4
<1>7. /\ DOMAIN G = 1 .. m + 3 /\ (\A i \in 1 .. m + 1 : G[i] = fs2[i].cont)
      /\ G[m + 2] = None /\ G[m + 3] = None
  <2> DEFINE n == Len(fs2) + 1 + Len(u)
  <2>1. Len(fs2) \in Nat /\ IsStack(u) /\ u # << >>
    BY <1>1, <1>2, <1>5
  <2> HIDE DEF fs2
  <2>2. DOMAIN G = 1 .. n
    BY ONLY <2>1, PlaceFacts
  <2>3. (\A i \in 1 .. Len(fs2) : G[i] = fs2[i].cont) /\ G[Len(fs2) + 1] = None
    BY ONLY <2>1, PlaceFacts
  <2>4. G[n] = Held(Last(u), r2)
    BY ONLY <2>1, PlaceFacts
  <2>5. n = m + 3 /\ Len(fs2) + 1 = m + 2 /\ Len(fs2) = m + 1
    BY <1>1, <1>2, <1>5
  <2> QED BY <1>2, <2>2, <2>3, <2>4, <2>5
<1> HIDE DEF H, G, fs2
<1>8. \A i \in 1 .. m : G[i] = H[i]
  BY <1>1, <1>5, <1>6, <1>7
<1>9. G[m + 1] = p
  BY <1>1, <1>4, <1>5, <1>7
<1>10. Replaces(p, p, L, c, w)
  <2>1. m + 1 \in DOMAIN H
    BY <1>1, <1>6
  <2>2. Replaces(H[m + 1], H[m + 1], L, c, w)
    BY ONLY <1>1, <2>1, SelfReplaces
  <2> QED BY <1>6, <2>2
<1>11. Listed(G, L, c, w)
  <2> DEFINE n == m + 2
             o == m + 3
             i == m + 1
             j == m + 1
  <2>1. /\ n \in Nat /\ o \in Nat /\ m \in Nat /\ i \in 1 .. n /\ j \in 1 .. o /\ m < i /\ m < j
        /\ DOMAIN H = 1 .. n /\ DOMAIN G = 1 .. o
    BY <1>1, <1>6, <1>7
  <2>2. \A x \in 1 .. n : x > m /\ x # i => H[x] = None
    BY <1>1, <1>6
  <2>3. \A x \in 1 .. o : x > m /\ x # j => G[x] = None
    BY <1>1, <1>7
  <2>4. Replaces(G[j], H[i], L, c, w)
    BY <1>6, <1>9, <1>10
  <2> HIDE DEF n, o, i, j, m
  <2>5. /\ n \in Nat /\ o \in Nat /\ m \in Nat /\ i \in 1 .. n /\ j \in 1 .. o /\ m < i /\ m < j
        /\ DOMAIN H = 1 .. n /\ DOMAIN G = 1 .. o /\ Listed(H, L, c, w)
        /\ \A x \in 1 .. m : G[x] = H[x]
        /\ \A x \in 1 .. n : x > m /\ x # i => H[x] = None
        /\ \A x \in 1 .. o : x > m /\ x # j => G[x] = None
        /\ Replaces(G[j], H[i], L, c, w)
    BY <1>1, <1>8, <2>1, <2>2, <2>3, <2>4
  <2> QED BY ONLY <2>5, Moved
<1>12. Len(fs2) \in Nat
  BY <1>1, <1>5
<1> QED BY <1>3, <1>11, <1>12 DEF Tidy, G, fs2, g, u

(* What waited in the newest frame goes to what runs on the driver.        *)
LEMMA TidyReceived ==
    ASSUME NEW fs, IsStack(fs), fs # << >>, NEW r, NEW L, NEW c, NEW w,
           Tidy(fs, None, <<Driver>>, r, L, c, w),
           NEW x, Calm(x), Emptied(x, None), Replaces(Held(x, None), Last(fs).cont, L, c, w)
    PROVE  Tidy(Front(fs), None, Append(<<Driver>>, x), None, L, c, w)
<1> DEFINE fs2 == Front(fs)
           s == <<Driver>>
           u == Append(s, x)
           m == Len(fs)
           H == Places(fs, None, s, r)
           G == Places(fs2, None, u, None)
<1>1. m \in Nat /\ IsStack(s) /\ s # << >> /\ Listed(H, L, c, w)
  BY DEF Tidy, Formed
<1>2. /\ Len(s) = 1 /\ s[1] = Driver /\ Last(s) = Driver /\ Calm(Driver) /\ Stays(Driver)
      /\ Held(Driver, r) = None /\ Held(Driver, None) = None
  BY DriverHolds
<1> HIDE DEF s
<1>3. IsStack(u) /\ u # << >> /\ Last(u) = x /\ Len(u) = 2 /\ u[2] = x /\ u[1] = Driver
  <2>1. IsStack(u) /\ u # << >> /\ Last(u) = x
    BY ONLY <1>1, LastPushed
  <2>2. Len(u) = Len(s) + 1 /\ u[Len(s) + 1] = x /\ \A i \in 1 .. Len(s) : u[i] = s[i]
    BY ONLY <1>1, PushFacts
  <2> HIDE DEF u
  <2> QED BY <1>2, <2>1, <2>2
<1> HIDE DEF u
<1>4. Formed(u, None)
  BY <1>3, <1>2 DEF Formed
<1>5. Len(fs2) = m - 1 /\ (\A i \in 1 .. m - 1 : fs2[i] = fs[i]) /\ m # 0 /\ Last(fs) = fs[m]
  BY PopFacts, StackFacts
<1>6. /\ DOMAIN H = 1 .. m + 2 /\ (\A i \in 1 .. m : H[i] = fs[i].cont)
      /\ H[m + 1] = None /\ H[m + 2] = None
  <2> DEFINE n == m + 1 + Len(s)
  <2>1. DOMAIN H = 1 .. n
    BY ONLY <1>1, PlaceFacts
  <2>2. (\A i \in 1 .. m : H[i] = fs[i].cont) /\ H[m + 1] = None
    BY ONLY <1>1, PlaceFacts
  <2>3. H[n] = Held(Last(s), r)
    BY ONLY <1>1, PlaceFacts
  <2>4. n = m + 2
    BY <1>1, <1>2
  <2> QED BY <1>2, <2>1, <2>2, <2>3, <2>4
<1>7. /\ DOMAIN G = 1 .. m + 2 /\ (\A i \in 1 .. m - 1 : G[i] = fs2[i].cont)
      /\ G[m] = None /\ G[m + 1] = None /\ G[m + 2] = Held(x, None)
  <2> DEFINE n == Len(fs2) + 1 + Len(u)
  <2>1. Len(fs2) \in Nat /\ IsStack(u) /\ u # << >>
    BY <1>1, <1>3, <1>5
  <2> HIDE DEF fs2
  <2>2. DOMAIN G = 1 .. n
    BY ONLY <2>1, PlaceFacts
  <2>3. (\A i \in 1 .. Len(fs2) : G[i] = fs2[i].cont) /\ G[Len(fs2) + 1] = None
    BY ONLY <2>1, PlaceFacts
  <2>4. G[n] = Held(Last(u), None)
    BY ONLY <2>1, PlaceFacts
  <2>5. \A i \in 1 .. Len(u) - 1 : G[Len(fs2) + 1 + i] = Held(u[i], None)
    BY ONLY <2>1, PlaceFacts
  <2>6. n = m + 2 /\ Len(fs2) + 1 = m /\ Len(fs2) = m - 1 /\ Len(fs2) + 1 + 1 = m + 1 /\ 1 \in 1 .. Len(u) - 1
    BY <1>1, <1>3, <1>5
  <2>7. G[m + 1] = None
    BY <1>2, <1>3, <2>5, <2>6
  <2> QED BY <1>3, <2>2, <2>3, <2>4, <2>6, <2>7
<1> HIDE DEF H, G, fs2
<1>8. \A i \in 1 .. m - 1 : G[i] = H[i]
  BY <1>1, <1>5, <1>6, <1>7
<1>9. H[m] = Last(fs).cont
  BY <1>1, <1>5, <1>6
<1>10. Listed(G, L, c, w)
  <2> DEFINE n == m + 2
             k == m - 1
  <2>1. /\ n \in Nat /\ k \in Nat /\ m \in 1 .. n /\ n \in 1 .. n /\ k < m /\ k < n
        /\ DOMAIN H = 1 .. n /\ DOMAIN G = 1 .. n
    BY <1>1, <1>5, <1>6, <1>7
  <2>2. /\ \A i \in 1 .. n : i > k /\ i # m => H[i] = None
        /\ \A i \in 1 .. n : i > k /\ i # n => G[i] = None
    <3>1. \A i \in 1 .. n : i > k => i = m \/ i = m + 1 \/ i = m + 2
      BY <1>1
    <3> QED BY <1>6, <1>7, <3>1
  <2>3. Replaces(G[n], H[m], L, c, w)
    BY <1>7, <1>9
  <2>4. \A i \in 1 .. k : G[i] = H[i]
    BY <1>8
  <2> HIDE DEF n, k, m
  <2> QED BY ONLY <1>1, <2>1, <2>2, <2>3, <2>4, Moved
<1>11. Len(fs2) \in Nat
  BY <1>1, <1>5
<1> QED BY <1>4, <1>10, <1>11 DEF Tidy, G, fs2, u, s

(* Where nothing is held nothing is to be closed.                          *)
LEMMA NothingListed ==
    ASSUME NEW H, NEW L, NEW c, NEW w, Listed(H, L, c, w),
           \A p \in DOMAIN H, k \in 1 .. Len(L) : H[p] # None => L[k] \notin ValuesOf(H[p].scopes)
    PROVE  L = << >> /\ Tracked(L, c, w)
<1>1. Tracked(L, c, w) /\ \A k \in 1 .. Len(L) : FALSE
  BY DEF Listed
<1>2. L \in Seq(Nat)
  BY <1>1 DEF Tracked
<1>3. Len(L) \in Nat
  BY <1>2
<1>4. Len(L) = 0
  BY ONLY <1>1, <1>3
<1> QED BY ONLY <1>1, <1>2, <1>4

(* With no frame the stack of one activation has two places.               *)
LEMMA LonePlace ==
    ASSUME NEW fs, Len(fs) = 0, NEW s, Len(s) = 1, NEW r, NEW L, NEW c, NEW w,
           Tidy(fs, None, s, r, L, c, w)
    PROVE  LET G == Places(fs, None, s, r) IN
           /\ DOMAIN G = 1 .. 2 /\ G[1] = None /\ G[2] = Held(Last(s), r)
           /\ Listed(G, L, c, w)
           /\ IsStack(s) /\ s # << >> /\ Last(s) = s[1]
  BY StackFacts, OnePlace DEF Tidy, Formed

LEMMA FinishesFromMain ==
    ASSUME Inv, Charged, Running, ~astray, Top.kind = "loop", Top.by = "main", Top.status = "leave",
           Held(Top, res) = Top, Tidy(frames, None, stack, res, closing, closed, swept),
           res # None, res # Activation, Finish(res, Top),
           closing' = closing, closed' = closed, swept' = swept
    PROVE  ClosingInv'
<1>1. Len(frames) = 0 /\ frames = << >>
  BY TopDepth, FramesCount
<1>2. Len(stack) = 1 /\ IsResult(res) /\ stack # << >>
  BY LoopOnTop, TopShapes DEF Top, Inv, Sound
<1>3. frames' = << >> /\ captured' = None /\ res' = None
  BY DEF Finish
<1>4. CASE res.kind = "ok"
  <2>1. outcome' = "returned" /\ stack' = << >>
    BY <1>4 DEF Finish
  <2> DEFINE G == Places(frames, None, stack, res)
  <2>2. DOMAIN G = 1 .. 2 /\ G[1] = None /\ G[2] = Held(Last(stack), res) /\ Listed(G, closing, closed, swept)
    BY <1>1, <1>2, LonePlace
  <2> HIDE DEF G
  <2>3. ValuesOf(Top.scopes) = {}
    BY <1>4 DEF Tidy, Formed, Top, Emptied
  <2>4. \A p \in DOMAIN G, k \in 1 .. Len(closing) : G[p] # None => closing[k] \notin ValuesOf(G[p].scopes)
    BY <2>2, <2>3 DEF Top
  <2>5. closing = << >> /\ Tracked(closing, closed, swept)
    BY ONLY <2>2, <2>4, NothingListed
  <2>6. ~Running'
    BY <2>1 DEF Running
  <2> QED BY <1>3, <2>1, <2>5, <2>6 DEF ClosingInv
<1>5. CASE res.kind # "ok"
  <2> DEFINE t == Top
             b == Revised(t, t.scopes, "unwind", res)
  <2>1. stack' = <<[Top EXCEPT !.status = "unwind", !.err = res]>> /\ outcome' = outcome
    BY <1>5 DEF Finish
  <2>2. [Top EXCEPT !.status = "unwind", !.err = res] = b
    BY TopAsIs, Zenon
  <2>3. stack' = Append(Front(stack), b)
    <3>1. IsStack(Front(stack)) /\ Len(Front(stack)) = Len(stack) - 1
      BY LoopOnTop, PopFacts
    <3>2. Front(stack) = << >>
      BY <1>2, <3>1, StackFacts
    <3> HIDE DEF b
    <3> QED BY <2>1, <2>2, <3>2, SingleStack
  <2>4. t = Last(stack) /\ t.kind = "loop" /\ Held(t, res) = t /\ res.kind # "ok" /\ res # Activation
    BY <1>5 DEF Top
  <2> HIDE DEF t
  <2>5. Tidy(frames', None, stack', res', closing', closed', swept')
    BY <1>1, <1>3, <2>3, <2>4, TidySame
  <2> QED BY <1>3, <2>1, <2>5, QuietListed
<1> QED BY <1>4, <1>5

LEMMA FinishesFromDriver ==
    ASSUME Inv, Running, ~astray, Top.kind = "driver", frames = << >>, res # None, res # Activation,
           Tidy(frames, None, stack, res, closing, closed, swept),
           Finish(res, MainLoop),
           closing' = closing, closed' = closed, swept' = swept
    PROVE  ClosingInv'
<1>1. Len(frames) = 0
  BY FramesCount
<1>2. Len(stack) = 1 /\ Top = Driver /\ IsResult(res)
  BY DriverOnTop
<1>3. frames' = << >> /\ captured' = None /\ res' = None
  BY DEF Finish
<1> DEFINE H == Places(frames, None, stack, res)
<1>4. DOMAIN H = 1 .. 2 /\ H[1] = None /\ H[2] = None /\ Listed(H, closing, closed, swept)
  BY <1>1, <1>2, LonePlace, DriverHolds DEF Top
<1> HIDE DEF H
<1>5. closing = << >> /\ Tracked(closing, closed, swept)
  <2>1. \A p \in DOMAIN H, k \in 1 .. Len(closing) : H[p] # None => closing[k] \notin ValuesOf(H[p].scopes)
    BY <1>4
  <2> QED BY ONLY <1>4, <2>1, NothingListed
<1>6. CASE res.kind = "ok"
  BY <1>6, <1>3, <1>5 DEF Finish, Running, ClosingInv
<1>7. CASE res.kind # "ok"
  <2> DEFINE b == [MainLoop EXCEPT !.status = "unwind", !.err = res]
             u == <<b>>
             G == Places(frames, None, u, None)
  <2>1. stack' = u /\ outcome' = outcome
    BY <1>7 DEF Finish
  <2>2. b.kind = "loop" /\ b.status = "unwind" /\ b.err = res /\ b.marker = 0 /\ b.scopes = << << >> >>
    BY DEF MainLoop, NewLoop
  <2> HIDE DEF b
  <2>3. Held(b, None) = b /\ Calm(b) /\ Stays(b) /\ Emptied(b, None)
    BY <1>7, <2>2 DEF Held, Calm, Stays, Emptied
  <2>4. IsStack(u) /\ u # << >> /\ Len(u) = 1 /\ Last(u) = b /\ u[1] = b
    BY SingleStack, EmptyStack, LastPushed
  <2> HIDE DEF u
  <2>5. DOMAIN G = 1 .. 2 /\ G[1] = None /\ G[2] = b
    <3>1. DOMAIN G = 1 .. 2 /\ G[1] = None /\ G[2] = Held(Last(u), None)
      BY ONLY <1>1, <2>4, OnePlace
    <3> QED BY <2>3, <2>4, <3>1
  <2> HIDE DEF G
  <2>6. Listed(G, closing, closed, swept)
    <3> DEFINE n == 2
    <3>1. n \in Nat /\ n # 0 /\ DOMAIN H = 1 .. n /\ DOMAIN G = 1 .. n /\ H[n] = None
      BY <1>4, <2>5
    <3>2. \A p \in 1 .. n - 1 : G[p] = H[p]
      BY <1>4, <2>5
    <3>3. Stepped(G[n].scopes) /\ ValuesOf(G[n].scopes) = {} /\ G[n].marker = Len(closing)
      BY <1>5, <2>2, <2>5, NoScopes, EmptyStack
    <3> HIDE DEF n
    <3> QED BY ONLY <1>4, <3>1, <3>2, <3>3, Started
  <2>7. Formed(u, None)
    BY <2>3, <2>4 DEF Formed
  <2>8. Tidy(frames', None, stack', res', closing', closed', swept')
    BY <1>3, <2>1, <1>1, <2>6, <2>7 DEF Tidy, G
  <2> QED BY <1>3, <2>1, <2>8, QuietListed
<1> QED BY <1>6, <1>7

LEMMA ActivatedListed ==
    ASSUME Inv, ClosingInv, Running, ~astray, Len(stack) = 1, Held(Top, res) = None, Activated,
           closing' = closing, closed' = closed, swept' = swept
    PROVE  ClosingInv'
<1> DEFINE q == request
           p == captured
           fs == frames
           gs == Append(fs, [cont |-> p, req |-> q])
           id == Fresh
           d == q.depth + BaseDepth
           m == Len(closing)
           a == NewLoop("target", id, q.call, d, m)
<1>1. frames' = gs /\ captured' = None /\ RunTarget(q) /\ outcome' = outcome
  BY DEF Activated
<1>2. \/ stack' = <<Driver>>
      \/ stack' = <<Driver, a>> /\ res' = None
  BY <1>1 DEF RunTarget
<1>3. ASSUME NEW r2
      PROVE  Tidy(gs, None, <<Driver>>, r2, closing, closed, swept)
  <2>1. IsStack(fs) /\ Tidy(fs, p, stack, res, closing, closed, swept) /\ Held(Last(stack), res) = None
    BY FramesCount DEF ClosingInv, Top
  <2> HIDE DEF fs, p, q
  <2> QED BY <2>1, TidyWaiting
<1> HIDE DEF gs, id, d
<1>4. Tidy(gs, None, Append(<<Driver>>, a), None, closing, closed, swept)
  BY DriverHolds, <1>3, TidyStarted
<1>5. <<Driver, a>> = Append(<<Driver>>, a)
  BY DoubleStack
<1> HIDE DEF a
<1>6. Tidy(gs, None, stack', res', closing, closed, swept)
  BY <1>2, <1>3, <1>4, <1>5
<1> QED BY <1>1, <1>6, QuietListed

LEMMA MainLeavesListed ==
    ASSUME Inv, Charged, Labelled, ClosingInv, MainLeaves
    PROVE  ClosingInv'
<1>1. /\ Running /\ res # None /\ Top.kind = "loop" /\ Top.by = "main" /\ Top.status = "leave"
      /\ astray' = astray /\ closing' = closing /\ closed' = closed /\ swept' = swept
      /\ \/ res = Activation /\ Activated
         \/ res = Activation /\ captured = None
         \/ res # Activation /\ Finish(res, Top)
  BY DEF MainLeaves, Returning, Ghosts
<1> SUFFICES ASSUME ~astray PROVE ClosingInv'
  BY <1>1 DEF ClosingInv
<1>2. CASE res = Activation /\ Activated
  BY <1>1, <1>2, LoopOnTop, TopShapes, ActivatedListed DEF Held, Top
<1>3. CASE res = Activation /\ captured = None
  BY <1>3, <1>1 DEF Labelled, Asking, Caught
<1>4. CASE res # Activation /\ Finish(res, Top)
  BY <1>1, <1>4, LoopHolds, FinishesFromMain DEF Labelled, Inv, AsksAgain
<1> QED BY <1>1, <1>2, <1>3, <1>4

LEMMA DriverActivatesListed ==
    ASSUME Inv, Labelled, ClosingInv, DriverActivates
    PROVE  ClosingInv'
<1>1. /\ Running /\ Top.kind = "driver" /\ res = Activation
      /\ astray' = astray /\ closing' = closing /\ closed' = closed /\ swept' = swept
      /\ captured # None => Activated
  BY DEF DriverActivates, Returning, Ghosts
<1> SUFFICES ASSUME ~astray PROVE ClosingInv'
  BY <1>1 DEF ClosingInv
<1>2. captured # None
  BY <1>1 DEF Labelled, Asking, Caught
<1>3. Len(stack) = 1 /\ Top = Driver
  BY <1>1, DriverOnTop
<1>4. Held(Top, res) = None
  BY <1>3, DriverHolds
<1> QED BY <1>1, <1>2, <1>3, <1>4, ActivatedListed

(* The newest frame holds a continuation.                                  *)
LEMMA FrameHolds ==
    ASSUME NEW fs, IsStack(fs), fs # << >>, NEW cont, NEW s, NEW r, NEW L, NEW c, NEW w,
           Tidy(fs, cont, s, r, L, c, w)
    PROVE  Replaces(Last(fs).cont, Last(fs).cont, L, c, w)
<1> DEFINE H == Places(fs, cont, s, r)
           m == Len(fs)
           n == m + 1 + Len(s)
<1>1. m \in Nat /\ IsStack(s) /\ Listed(H, L, c, w)
  BY DEF Tidy, Formed
<1>2. m # 0 /\ Last(fs) = fs[m]
  BY StackFacts
<1>3. n \in Nat /\ DOMAIN H = 1 .. n
  BY <1>1, PlaceFacts
<1>4. \A i \in 1 .. m : H[i] = fs[i].cont
  BY <1>1, PlaceFacts
<1>5. m \in DOMAIN H
  <2>1. Len(s) \in Nat
    BY <1>1, StackFacts
  <2> HIDE DEF m
  <2> QED BY <1>1, <1>2, <1>3, <2>1
<1>6. H[m] = Last(fs).cont
  BY <1>1, <1>2, <1>4
<1> HIDE DEF H, m
<1>7. Replaces(H[m], H[m], L, c, w)
  BY ONLY <1>1, <1>5, SelfReplaces
<1> QED BY <1>6, <1>7

LEMMA DriverReceivesListed ==
    ASSUME Inv, Labelled, ClosingInv, DriverReceives
    PROVE  ClosingInv'
<1> DEFINE f == InnermostFrame
           c == f.cont
           d == f.req.depth + BaseDepth
           a == HandlerRecord(f.req.call, f.req.caller, c, FALSE, d)
<1>1. /\ Running /\ Top.kind = "driver" /\ res # None /\ res # Activation /\ astray' = astray
      /\ closing' = closing /\ closed' = closed /\ swept' = swept
  BY DEF DriverReceives, Returning
<1> SUFFICES ASSUME ~astray PROVE ClosingInv'
  BY <1>1 DEF ClosingInv
<1>2. captured = None /\ Tidy(frames, None, stack, res, closing, closed, swept)
  BY <1>1, NothingCaptured DEF Has
<1>3. CASE frames = << >>
  BY <1>3, <1>1, <1>2, FinishesFromDriver DEF DriverReceives
<1>4. CASE frames # << >>
  <2>1. /\ frames' = Front(frames) /\ captured' = captured /\ outcome' = outcome
        /\ StartHandler(stack, a, d) \/ Resume(c)
    BY <1>4, Zenon DEF DriverReceives
  <2>2. IsStack(frames) /\ IsCont(c) /\ f = Last(frames) /\ Len(frames) \in 1 .. Len(frames) /\ f = frames[Len(frames)]
    <3>1. IsStack(frames) /\ \A i \in 1 .. Len(frames) : IsFrame(frames[i])
      BY DEF Inv, Waiting
    <3>2. f = Last(frames) /\ Len(frames) \in 1 .. Len(frames) /\ f = frames[Len(frames)]
      BY <1>4, <3>1, StackFacts DEF InnermostFrame
    <3> HIDE DEF f
    <3>3. IsFrame(f)
      BY <3>1, <3>2
    <3> QED BY <3>1, <3>2, <3>3 DEF IsFrame
  <2>3. stack = <<Driver>>
    BY <1>2, AloneStack, <1>1, DriverOnTop DEF Tidy, Formed
  <2> DEFINE fs == frames
             gs == Front(fs)
             t == c
             w == swept
  <2>4. Tidy(fs, None, <<Driver>>, res, closing, closed, w) /\ IsStack(fs) /\ fs # << >> /\ t = Last(fs).cont
    BY <1>2, <1>4, <2>2, <2>3
  <2>5. Replaces(t, t, closing, closed, w)
    <3>1. Replaces(Last(fs).cont, Last(fs).cont, closing, closed, w)
      <4> HIDE DEF fs
      <4> QED BY ONLY <2>4, FrameHolds
    <3> HIDE DEF t
    <3> QED BY <2>4, <3>1
  <2>6. frames' = gs
    BY <2>1
  <2>7. IsCont(t)
    BY <2>2
  <2>8. CASE StartHandler(stack, a, d)
    <3> DEFINE id == Fresh
               catch == a.call
               e == 1 + Min({d, CallLimit - 1})
               l == NewLoop("call", id, catch, e, Len(closing))
    <3>1. a.kind = "handler" /\ a.cont = t
      BY DEF HandlerRecord
    <3>2. stack' = stack \o <<a, l>> /\ res' = None
      BY <2>8 DEF StartHandler
    <3> HIDE DEF a, id, catch, e, t, fs, gs
    <3>3. Held(a, None) = t /\ Calm(a) /\ Emptied(a, None) /\ Stays(a)
      BY <3>1 DEF Held, Calm, Emptied, Stays
    <3> DEFINE u == Append(<<Driver>>, a)
    <3>4. Tidy(gs, None, u, None, closing, closed, w)
      BY <2>4, <2>5, <3>3, TidyReceived DEF gs
    <3>5. stack' = Append(u, l) /\ Last(u) = a
      <4> HIDE DEF l
      <4> QED BY <2>3, <3>2, DriverHolds, PushTwice, LastPushed
    <3> HIDE DEF u
    <3>6. Stays(Last(u))
      BY <3>3, <3>5
    <3>7. Tidy(gs, None, Append(u, l), None, closing, closed, w)
      BY <3>4, <3>6, TidyStarted
    <3> HIDE DEF l
    <3> QED BY <1>1, <1>2, <2>1, QuietListed, <2>6, <3>2, <3>5, <3>7
  <2>9. CASE Resume(c)
    <3> DEFINE b == [t EXCEPT !.by = "resume"]
    <3>1. stack' = <<Driver, b>> /\ res' = None
      BY <2>9 DEF Resume
    <3> HIDE DEF t, fs, gs
    <3>2. Calm(b) /\ Emptied(b, None) /\ Replaces(Held(b, None), t, closing, closed, w)
      BY ONLY <2>5, <2>7, ResumedHolds
    <3> HIDE DEF b
    <3>3. stack' = Append(<<Driver>>, b)
      BY <3>1, DoubleStack
    <3>4. Tidy(frames', None, stack', res', closing', closed', swept')
      BY <1>1, <2>6, <3>1, <3>3, <2>4, <3>2, TidyReceived DEF gs
    <3> QED BY <1>1, <1>2, <2>1, <3>4, QuietListed
  <2> QED BY <2>1, <2>8, <2>9
<1> QED BY <1>3, <1>4

LEMMA ClosingNext ==
    ASSUME Inv, Charged, Labelled, ClosingInv, [Next]_vars
    PROVE  ClosingInv'
<1>1. CASE Next
  <2>1. CASE GuestMoves
    BY <2>1, RaiseListed, GuestCallListed, ReturnListed, ReturnDynamicListed, OpenScopeListed,
       CloseScopeListed, CallbackListed, ProtectedCallListed DEF GuestMoves
  <2>2. CASE Results
    BY <2>2, LoopReceivesListed, LoopLeavesListed, NativeReturnsListed, FallbackReturnsListed,
       HandlerReturnsListed, MainLeavesListed, DriverActivatesListed, DriverReceivesListed DEF Results
  <2>3. CASE Closes
    BY <2>3, CloseNextListed, CloseHandledListed, CloseDoneListed DEF Closes
  <2> QED BY <1>1, <2>1, <2>2, <2>3 DEF Next
<1>2. CASE UNCHANGED vars
  <2>1. UNCHANGED <<stack, res, frames, captured, closing, closed, swept, astray, outcome>>
    BY <1>2 DEF vars
  <2>2. Running' <=> Running
    BY <2>1 DEF Running
  <2>3. Handed' <=> Handed
    BY <2>1 DEF Handed, Top
  <2>4. Tidy(frames, captured, stack, res, closing, closed, swept)'
        <=> Tidy(frames, captured, stack, res, closing, closed, swept)
    BY <2>1
  <2> QED BY <2>1, <2>2, <2>3, <2>4 DEF ClosingInv
<1> QED BY <1>1, <1>2

(***************************************************************************)
(* close_values is what is open, and in the end every value was closed     *)
(* once: in every execution, whatever errors and activations pass scopes.  *)
(***************************************************************************)
THEOREM ValuesAreClosed == Spec => []ClosingSound
  BY InvInit, ChargedInit, LabelledInit, ClosingInit, InvNext, ChargedNext, LabelledNext, ClosingNext,
     ClosingIsSound, PTL DEF Spec
=============================================================================
