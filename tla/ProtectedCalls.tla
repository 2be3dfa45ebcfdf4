--------------------------- MODULE ProtectedCalls ---------------------------
(***************************************************************************)
(* pcall, xpcall and to-be-closed variables on the main thread (vm.rs).    *)
(*                                                                         *)
(* A protected call of a guest function does not nest a Rust call: pcall   *)
(* leaves a request, the interpreter loop captures its continuation and    *)
(* unwinds to the driver below it with the error ProtectedCallActivation,  *)
(* and the driver runs the target, then resumes the continuation with its  *)
(* outcome.  Where the driver cannot be reached (from a message handler),  *)
(* and for native targets, a recursive fallback is used.                   *)
(*                                                                         *)
(* stack is the stack of Rust activations, res the result on its way down. *)
(* What guest code does next is any of its moves.  A loop's scopes are     *)
(* those of its guest frames: the values whose scopes are open, oldest     *)
(* first.                                                                  *)
(***************************************************************************)
EXTENDS Integers, Sequences, FiniteSets, SequencesExt

CONSTANTS
  CallLimit,          \* call_limit
  BaseDepth,          \* PROTECTED_CALL_BASE_DEPTH
  MaxActivations,     \* MAX_PROTECTED_CALL_ACTIVATIONS
  MaxHandlerErrors,   \* MAX_XPCALL_HANDLER_ERRORS
  MaxValues,          \* to-be-closed values a program registers
  Budget              \* moves guest code makes before its instruction limit

ASSUME LimitsAssumption ==
  /\ CallLimit \in Nat \ {0} /\ BaseDepth \in Nat \ {0}
  /\ MaxActivations \in Nat /\ MaxHandlerErrors \in Nat
  /\ MaxValues \in Nat /\ Budget \in Nat

VARIABLES
  stack, res,
  closing,            \* close_values of the main thread
  frames,             \* the driver's frames: [cont, req]
  request, captured,  \* protected_call_request, captured_blu_continuation
  targetDepth, handlerDepth, activations,
  scheduler,          \* protected_call_scheduler_active, and ..._capture_active
  closed,             \* how often each value was closed
  swept,              \* values closed while a frame had their scope open
  delivered,          \* the last outcome of a protected call
  astray,             \* an activation met something else than its driver
  budget, outcome

vars == <<stack, res, closing, frames, request, captured, targetDepth, handlerDepth, activations,
          scheduler, closed, swept, delivered, astray, budget, outcome>>

-----------------------------------------------------------------------------
None == [kind |-> "none"]
Activation == [kind |-> "activation"]

(***************************************************************************)
(* to is the protected call that encloses what returned or raised, 0 for   *)
(* none.  limit marks CallLimit and CStackOverflow.                        *)
(***************************************************************************)
Ok(call) == [kind |-> "ok", to |-> call]
Raised(call) == [kind |-> "error", to |-> call, limit |-> FALSE]
CallLimitError(call) == [kind |-> "error", to |-> call, limit |-> TRUE]

NewLoop(by, id, catch, depth, marker) ==
  [kind |-> "loop", by |-> by, id |-> id, catch |-> catch, marker |-> marker,
   depth |-> depth, scopes |-> << << >> >>, status |-> "run", err |-> None]

MainLoop == NewLoop("main", 0, 0, 0, 0)

Top == Last(stack)
Below == Front(stack)
WithTop(a) == Append(Below, a)

Depth(loop) == loop.depth + Len(loop.scopes) - 1

(***************************************************************************)
(* A number for a loop or a protected call that no other one has.          *)
(***************************************************************************)
IdsOf(a) ==
  CASE a.kind = "loop"                   -> {a.id, a.catch}
    [] a.kind = "handler" /\ a.cont # None -> {a.call, a.caller, a.cont.id, a.cont.catch}
    [] a.kind \in {"handler", "fallback"} -> {a.call, a.caller}
    [] a.kind = "request"                -> {a.call}
    [] OTHER                             -> {}

Fresh ==
  1 + Max({0} \cup IdsOf(captured) \cup IdsOf(request)
          \cup UNION {IdsOf(a) : a \in ToSet(stack)}
          \cup UNION {IdsOf(f.cont) \cup IdsOf(f.req) : f \in ToSet(frames)})

Running == outcome = "running"
Returning == Running /\ res # None

(***************************************************************************)
(* Guest code is about to move.  Without budget its only move is an error. *)
(***************************************************************************)
Ready ==
  /\ Running
  /\ res = None
  /\ Top.kind = "loop" /\ Top.status = "run"

Moves == Ready /\ budget > 0 /\ budget' = budget - 1

Counters == <<targetDepth, handlerDepth, activations, scheduler>>
Events == <<frames, request, captured>>
Ghosts == <<closed, swept, delivered, astray>>

-----------------------------------------------------------------------------
(***************************************************************************)
(* Moves of guest code.                                                    *)
(***************************************************************************)
Raise ==
  /\ Ready
  /\ budget' = IF budget > 0 THEN budget - 1 ELSE 0
  /\ stack' = WithTop([Top EXCEPT !.status = "leave"])
  /\ res' = Raised(Top.catch)
  /\ UNCHANGED <<closing, Events, Counters, Ghosts, outcome>>

GuestCall ==
  /\ Moves
  /\ IF Depth(Top) + 1 > CallLimit
     THEN stack' = WithTop([Top EXCEPT !.status = "leave"]) /\ res' = CallLimitError(Top.catch)
     ELSE stack' = WithTop([Top EXCEPT !.scopes = Append(@, << >>)]) /\ UNCHANGED res
  /\ UNCHANGED <<closing, Events, Counters, Ghosts, outcome>>

(***************************************************************************)
(* The innermost frame returns: to its caller in the loop, or the loop     *)
(* ends.                                                                   *)
(***************************************************************************)
ReturnFrame(loop) ==
  IF Len(loop.scopes) > 1
  THEN stack' = WithTop([loop EXCEPT !.scopes = Front(@), !.status = "run"]) /\ res' = None
  ELSE stack' = WithTop([loop EXCEPT !.scopes = << << >> >>, !.status = "leave"]) /\ res' = Ok(loop.catch)

Return ==
  /\ Moves
  /\ Last(Top.scopes) = << >>
  /\ ReturnFrame(Top)
  /\ UNCHANGED <<closing, Events, Counters, Ghosts, outcome>>

(***************************************************************************)
(* A return of all results of a call from inside a scope with a            *)
(* to-be-closed value closes values down to the loop's marker.             *)
(***************************************************************************)
ReturnDynamic ==
  /\ Moves
  /\ Last(Top.scopes) # << >>
  /\ stack' = WithTop([Top EXCEPT !.status = "closing", !.err = None])
  /\ UNCHANGED <<res, closing, Events, Counters, Ghosts, outcome>>

(***************************************************************************)
(* A local <close> is declared: __blu_internal_mark_close.                 *)
(***************************************************************************)
OpenScope ==
  LET v == Len(closed) + 1 IN
  /\ Moves
  /\ v <= MaxValues
  /\ closing' = Append(closing, v)
  /\ closed' = Append(closed, 0)
  /\ stack' = WithTop([Top EXCEPT !.scopes[Len(Top.scopes)] = Append(@, v)])
  /\ UNCHANGED <<res, Events, Counters, swept, delivered, astray, outcome>>

(***************************************************************************)
(* call_blu_closure: a nested loop, or CallLimit for what is below.        *)
(***************************************************************************)
CallGuest(below, id, catch, depth, marker) ==
  IF depth + 1 > CallLimit
  THEN stack' = below /\ res' = CallLimitError(catch)
  ELSE stack' = Append(below, NewLoop("call", id, catch, depth + 1, marker)) /\ res' = None

(***************************************************************************)
(* A native function calls a guest function back: invoke_native_callback.  *)
(* It drops a continuation captured before (and then fails: see            *)
(* NativeReturns).                                                         *)
(***************************************************************************)
Native(catch) == [kind |-> "native", prev |-> captured, to |-> catch]

Callback ==
  /\ Moves
  /\ CallGuest(WithTop([Top EXCEPT !.status = "busy"]) \o <<Native(Top.catch)>>, Fresh, Top.catch,
               Depth(Top), Len(closing))
  /\ captured' = None
  /\ UNCHANGED <<closing, frames, request, Counters, Ghosts, outcome>>

(* Mutant: a closed value stays on the list. *)
TakeCloseValueNot(v) == closing

TakeCloseValue(v) == IF closing # << >> /\ Last(closing) = v THEN Front(closing) ELSE closing

(***************************************************************************)
(* The scope of the newest value ends: __blu_internal_close takes the      *)
(* value off the list if it is the last one, and calls its handler back.   *)
(***************************************************************************)
CloseScope ==
  LET open == Last(Top.scopes)
      v == Last(open)
      rest == TakeCloseValue(v)
      loop == [Top EXCEPT !.scopes[Len(Top.scopes)] = Front(@), !.status = "busy"] IN
  /\ Moves
  /\ open # << >>
  /\ CallGuest(WithTop(loop) \o <<Native(Top.catch)>>, Fresh, Top.catch, Depth(Top), Len(rest))
  /\ closing' = rest
  /\ closed' = [closed EXCEPT ![v] = @ + 1]
  /\ captured' = None
  /\ UNCHANGED <<frames, request, Counters, swept, delivered, astray, outcome>>

-----------------------------------------------------------------------------
(***************************************************************************)
(* Protected calls.  A target is a guest function, or what a native one    *)
(* does: return, raise, or call a guest function back.                     *)
(***************************************************************************)
FallbackRecord(target, handler, restore, call, entered) ==
  [kind |-> "fallback", call |-> call, caller |-> Top.id, handler |-> handler, native |-> target # "guest",
   restore |-> restore, prev |-> captured, depth |-> Depth(Top), entered |-> entered]

Fallback(target, handler, restore, call) ==
  LET entered == activations < MaxActivations
      below == WithTop([Top EXCEPT !.status = "busy"])
               \o <<FallbackRecord(target, handler, restore, call, entered)>> IN
  /\ scheduler' = (scheduler /\ ~restore)
  /\ activations' = activations + IF entered THEN 1 ELSE 0
  /\ targetDepth' = targetDepth + IF entered /\ target = "guest" THEN 1 ELSE 0
  /\ captured' = IF entered /\ target \in {"guest", "callsBack"} THEN None ELSE captured
  /\ CASE ~entered                            -> stack' = below /\ res' = CallLimitError(call)
       [] entered /\ target = "returns"      -> stack' = below /\ res' = Ok(call)
       [] entered /\ target = "raises"       -> stack' = below /\ res' = Raised(call)
       [] entered /\ target = "callsBack"    ->
            CallGuest(Append(below, Native(call)), call + 1, call, Depth(Top), Len(closing))
       [] entered /\ target = "guest"        -> CallGuest(below, call + 1, call, Depth(Top), Len(closing))
  /\ UNCHANGED <<handlerDepth, request>>

(***************************************************************************)
(* The scheduler takes guest targets.  A target already being run below    *)
(* has been charged the base depth.                                        *)
(***************************************************************************)
Activate(handler, call) ==
  LET charged == Depth(Top) - (IF targetDepth > 0 THEN BaseDepth - 1 ELSE 0) IN
  /\ request' = [kind |-> "request", call |-> call, caller |-> Top.id, handler |-> handler,
                 depth |-> IF charged < 0 THEN 0 ELSE charged]
  /\ res' = Activation
  /\ stack' = WithTop([Top EXCEPT !.status = "busy"])
  /\ UNCHANGED <<captured, Counters>>

(***************************************************************************)
(* "nested activation requests": one is still pending.                     *)
(***************************************************************************)
RefuseRequest(handler, call) ==
  /\ stack' = WithTop([Top EXCEPT !.status = "busy"])
              \o <<FallbackRecord("guest", handler, FALSE, call, FALSE)>>
  /\ res' = Raised(call)
  /\ UNCHANGED <<request, captured, Counters>>

CallProtectedTarget(target, handler) ==
  LET call == Fresh
      direct == ~scheduler \/ (handlerDepth = 0 /\ target # "guest")
      nested == scheduler /\ handlerDepth > 0 IN
  /\ Moves
  /\ \/ nested /\ Fallback(target, handler, TRUE, call)
     \/ direct /\ Fallback(target, handler, FALSE, call)
     \/ ~nested /\ ~direct /\ request # None /\ RefuseRequest(handler, call)
     \/ ~nested /\ ~direct /\ request = None /\ Activate(handler, call)
  /\ UNCHANGED <<closing, frames, Ghosts, outcome>>

ProtectedCall ==
  \E target \in {"guest", "returns", "raises", "callsBack"}, handler \in BOOLEAN :
    CallProtectedTarget(target, handler)

-----------------------------------------------------------------------------
(***************************************************************************)
(* Results.  A loop inside a native call gets its result.  On an           *)
(* activation it captures its continuation, over one captured before.      *)
(***************************************************************************)
LoopReceives ==
  /\ Returning
  /\ Top.kind = "loop" /\ Top.status = "busy"
  /\ IF res.kind = "ok"
     THEN stack' = WithTop([Top EXCEPT !.status = "run"]) /\ res' = None
     ELSE stack' = WithTop([Top EXCEPT !.status = "leave"]) /\ UNCHANGED res
  /\ captured' = IF res = Activation THEN [Top EXCEPT !.status = "run"] ELSE captured
  /\ astray' = (astray \/ (res = Activation /\ Top.by = "call"))
  /\ UNCHANGED <<closing, frames, request, Counters, closed, swept, delivered, budget, outcome>>

(***************************************************************************)
(* A loop that ends with an error closes the values opened in it.  So does *)
(* a resumed loop on an activation.                                        *)
(***************************************************************************)
(* Mutant: the target of a protected call is left without closing. *)
UnwindsButTargets(loop) == res.kind = "error" /\ loop.by # "target"

Unwinds(loop) == res.kind = "error" \/ (res = Activation /\ loop.by = "resume")

(* Mutant: an activation does not lower the target depth. *)
LeftTargetsOnSuccess(loop) == IF loop.by = "target" /\ res # Activation THEN 1 ELSE 0

LeftTargets(loop) == IF loop.by = "target" THEN 1 ELSE 0

LoopLeaves ==
  LET closes == Unwinds(Top) IN
  /\ Returning
  /\ Top.kind = "loop" /\ Top.by # "main" /\ Top.status = "leave"
  /\ IF closes
     THEN stack' = WithTop([Top EXCEPT !.status = "unwind", !.err = res]) /\ res' = None
     ELSE stack' = Below /\ UNCHANGED res
  /\ targetDepth' = targetDepth - IF closes THEN 0 ELSE LeftTargets(Top)
  /\ astray' = (astray \/ (closes /\ res = Activation /\ Len(closing) > Top.marker))
  /\ UNCHANGED <<closing, Events, handlerDepth, activations, scheduler, closed, swept, delivered,
                 budget, outcome>>

(***************************************************************************)
(* The values whose scopes are open: in the continuations that wait for a  *)
(* protected call, in the one on its way to the driver, and in the loops   *)
(* that run or whose message handler runs.                                 *)
(***************************************************************************)
Suspends(loop) == loop.err = Activation \/ (loop.status = "leave" /\ res = Activation)

Holders ==
  {f.cont : f \in ToSet(frames)} \cup {captured}
  \cup {a \in ToSet(stack) : a.kind = "loop" /\ ~Suspends(a)}
  \cup {a.cont : a \in {b \in ToSet(stack) : b.kind = "handler"}}

ValuesOf(scopes) == UNION {ToSet(scope) : scope \in ToSet(scopes)}

OpenValues == UNION {ValuesOf(h.scopes) : h \in Holders \ {None}}

(***************************************************************************)
(* close_values_for_thread: the newest value above the marker is removed,  *)
(* then its handler is called.  A value is swept if a frame that goes on   *)
(* has its scope open.                                                     *)
(***************************************************************************)
CloseNext ==
  LET v == Last(closing)
      depth == IF Top.by = "target" /\ Top.status = "unwind" THEN Top.depth - BaseDepth + 1 ELSE Top.depth
      returning == Top.status = "closing" /\ v \in ToSet(Last(Top.scopes))
      failing == Top.status = "unwind" /\ Top.err # Activation IN
  /\ Running /\ res = None
  /\ Top.kind = "loop" /\ Top.status \in {"unwind", "closing"}
  /\ Len(closing) > Top.marker
  /\ closing' = Front(closing)
  /\ closed' = [closed EXCEPT ![v] = @ + 1]
  /\ swept' = IF returning \/ failing \/ v \notin OpenValues THEN swept ELSE swept \cup {v}
  /\ CallGuest(stack, Fresh, Top.catch, depth, Len(closing) - 1)
  /\ UNCHANGED <<Events, Counters, delivered, astray, budget, outcome>>

(***************************************************************************)
(* An error of the handler, an activation too, replaces the one before.    *)
(***************************************************************************)
CloseHandled ==
  /\ Returning
  /\ Top.kind = "loop" /\ Top.status \in {"unwind", "closing"}
  /\ stack' = WithTop(IF res.kind = "ok" THEN Top ELSE [Top EXCEPT !.err = res])
  /\ res' = None
  /\ UNCHANGED <<closing, Events, Counters, Ghosts, budget, outcome>>

CloseDone ==
  /\ Running /\ res = None
  /\ Top.kind = "loop" /\ Top.status \in {"unwind", "closing"}
  /\ Len(closing) <= Top.marker
  /\ IF Top.status = "unwind"
     THEN IF Len(stack) = 1
          THEN stack' = << >> /\ res' = None /\ outcome' = "failed" /\ UNCHANGED targetDepth
          ELSE /\ stack' = Below /\ res' = Top.err
               /\ targetDepth' = targetDepth - LeftTargets(Top)
               /\ UNCHANGED outcome
     ELSE /\ IF Top.err = None THEN ReturnFrame(Top)
             ELSE stack' = WithTop([Top EXCEPT !.status = "leave"]) /\ res' = Top.err
          /\ UNCHANGED <<targetDepth, outcome>>
  /\ UNCHANGED <<closing, Events, handlerDepth, activations, scheduler, Ghosts, budget>>

NativeReturns ==
  /\ Returning
  /\ Top.kind = "native"
  /\ stack' = Below
  /\ res' = IF Top.prev = None THEN res ELSE Raised(Top.to)
  /\ astray' = (astray \/ Top.prev # None)
  /\ UNCHANGED <<closing, Events, Counters, closed, swept, delivered, budget, outcome>>

(***************************************************************************)
(* call_xpcall_handler runs on top of below, for a protected call made by  *)
(* the loop caller; cont is the continuation the driver will resume.       *)
(***************************************************************************)
StartHandler(below, record, depth) ==
  /\ stack' = below \o <<record, NewLoop("call", Fresh, record.call, 1 + Min({depth, CallLimit - 1}), Len(closing))>>
  /\ res' = None

HandlerRecord(call, caller, cont, retry, depth) ==
  [kind |-> "handler", call |-> call, caller |-> caller, cont |-> cont, retry |-> retry, errors |-> 0,
   depth |-> depth]

Deliver(call, caller, receiver, r) ==
  delivered' = [call |-> call, caller |-> caller, receiver |-> receiver, result |-> r]

FallbackReturns ==
  LET guest == Top.entered /\ ~Top.native
      result == IF guest /\ Top.prev # None THEN Raised(Top.call) ELSE res IN
  /\ Returning
  /\ Top.kind = "fallback"
  /\ activations' = activations - IF Top.entered THEN 1 ELSE 0
  /\ targetDepth' = targetDepth - IF guest THEN 1 ELSE 0
  /\ captured' = IF guest THEN None ELSE captured
  /\ scheduler' = (scheduler \/ Top.restore)
  /\ astray' = (astray \/ (guest /\ Top.prev # None))
  /\ CASE result = Activation ->
            stack' = Below /\ res' = res /\ UNCHANGED <<handlerDepth, delivered>>
       [] result.kind = "error" /\ Top.handler ->
            /\ StartHandler(Below, HandlerRecord(Top.call, Top.caller, None, Top.native, Top.depth), Top.depth)
            /\ handlerDepth' = handlerDepth + 1
            /\ UNCHANGED delivered
       [] OTHER ->
            /\ stack' = Below /\ res' = Ok(Top.call)
            /\ Deliver(Top.call, Top.caller, Last(Below).id, result)
            /\ UNCHANGED handlerDepth
  /\ UNCHANGED <<closing, frames, request, closed, swept, budget, outcome>>

-----------------------------------------------------------------------------
(***************************************************************************)
(* The driver.                                                             *)
(***************************************************************************)
Driver == [kind |-> "driver"]

(* Mutant: the driver does not check the depth of a target. *)
RunTargetUnbounded(req) ==
  /\ stack' = <<Driver, NewLoop("target", Fresh, req.call, req.depth + BaseDepth, Len(closing))>>
  /\ res' = None
  /\ targetDepth' = targetDepth + 1

RunTarget(req) ==
  /\ IF req.depth + BaseDepth >= CallLimit
     THEN stack' = <<Driver>> /\ res' = CallLimitError(req.call) /\ UNCHANGED targetDepth
     ELSE /\ stack' = <<Driver, NewLoop("target", Fresh, req.call, req.depth + BaseDepth, Len(closing))>>
          /\ res' = None
          /\ targetDepth' = targetDepth + 1

(***************************************************************************)
(* The execution has its result: execute restores the flags, and closes    *)
(* what an error leaves open in loop.                                      *)
(***************************************************************************)
Finish(r, loop) ==
  /\ scheduler' = FALSE
  /\ request' = None /\ captured' = None /\ frames' = << >>
  /\ IF r.kind = "ok"
     THEN outcome' = "returned" /\ stack' = << >> /\ res' = None
     ELSE /\ stack' = <<[loop EXCEPT !.status = "unwind", !.err = r]>>
          /\ res' = None
          /\ UNCHANGED outcome

Activated ==
  /\ frames' = Append(frames, [cont |-> captured, req |-> request])
  /\ captured' = None /\ request' = None
  /\ RunTarget(request)
  /\ UNCHANGED <<scheduler, outcome>>

MainLeaves ==
  /\ Returning
  /\ Top.kind = "loop" /\ Top.by = "main" /\ Top.status = "leave"
  /\ \/ res = Activation /\ captured # None /\ Activated
     \/ res = Activation /\ captured = None /\ Finish(Raised(0), Top) /\ UNCHANGED targetDepth
     \/ res # Activation /\ Finish(res, Top) /\ UNCHANGED targetDepth
  /\ UNCHANGED <<closing, handlerDepth, activations, Ghosts, budget>>

Resume(cont) == stack' = <<Driver, [cont EXCEPT !.by = "resume"]>> /\ res' = None

DriverActivates ==
  /\ Returning
  /\ Top.kind = "driver"
  /\ res = Activation
  /\ \/ captured # None /\ Activated
     \/ captured = None /\ Finish(Raised(0), MainLoop) /\ UNCHANGED targetDepth
  /\ UNCHANGED <<closing, handlerDepth, activations, Ghosts, budget>>

(* Mutant: the driver resumes its oldest frame. *)
OutermostFrame == Head(frames)

InnermostFrame == Last(frames)

DriverReceives ==
  LET f == InnermostFrame IN
  /\ Returning
  /\ Top.kind = "driver"
  /\ res # Activation
  /\ IF frames = << >>
     THEN Finish(res, MainLoop) /\ UNCHANGED <<handlerDepth, delivered>>
     ELSE /\ frames' = Front(frames)
          /\ IF res.kind = "error" /\ f.req.handler
             THEN /\ StartHandler(stack, HandlerRecord(f.req.call, f.req.caller, f.cont, FALSE,
                                                       f.req.depth + BaseDepth),
                                  f.req.depth + BaseDepth)
                  /\ handlerDepth' = handlerDepth + 1
                  /\ UNCHANGED delivered
             ELSE /\ Resume(f.cont)
                  /\ Deliver(f.req.call, f.req.caller, f.cont.id, res)
                  /\ UNCHANGED handlerDepth
          /\ UNCHANGED <<request, captured, scheduler, outcome>>
  /\ UNCHANGED <<closing, targetDepth, activations, closed, swept, astray, budget>>

(***************************************************************************)
(* The outcome of the message handler: an error is retried where the       *)
(* target was native; whatever else it is, the protected call has failed.  *)
(***************************************************************************)
(* Mutant: the errors of a message handler are not counted. *)
CountErrorNot(record) == record

CountError(record) == [record EXCEPT !.errors = @ + 1]

Retries(record) == record.retry /\ record.errors < MaxHandlerErrors

HandlerReturns ==
  LET again == res.kind = "error" /\ ~res.limit /\ Retries(Top) IN
  /\ Returning
  /\ Top.kind = "handler"
  /\ IF again
     THEN /\ StartHandler(Below, CountError(Top), Top.depth)
          /\ UNCHANGED <<handlerDepth, delivered>>
     ELSE /\ handlerDepth' = handlerDepth - 1
          /\ IF Top.cont = None
             THEN /\ stack' = Below /\ res' = Ok(Top.call)
                  /\ Deliver(Top.call, Top.caller, Last(Below).id, Raised(Top.call))
             ELSE Resume(Top.cont) /\ Deliver(Top.call, Top.caller, Top.cont.id, Raised(Top.call))
  /\ UNCHANGED <<closing, Events, targetDepth, activations, scheduler, closed, swept, astray, budget, outcome>>

-----------------------------------------------------------------------------
Init ==
  /\ closing = << >> /\ frames = << >>
  /\ stack = <<MainLoop>>
  /\ res = None
  /\ request = None /\ captured = None
  /\ targetDepth = 0 /\ handlerDepth = 0 /\ activations = 0
  /\ scheduler = TRUE
  /\ closed = << >> /\ swept = {} /\ delivered = None /\ astray = FALSE
  /\ budget = Budget
  /\ outcome = "running"

GuestMoves ==
  \/ Raise \/ GuestCall \/ Return \/ ReturnDynamic \/ OpenScope \/ CloseScope \/ Callback \/ ProtectedCall

Results ==
  \/ LoopReceives \/ LoopLeaves \/ NativeReturns \/ FallbackReturns \/ HandlerReturns
  \/ MainLeaves \/ DriverActivates \/ DriverReceives

Closes == CloseNext \/ CloseHandled \/ CloseDone

Next == GuestMoves \/ Results \/ Closes

(***************************************************************************)
(* One thread, which always takes its next step.                           *)
(***************************************************************************)
Spec == Init /\ [][Next]_vars /\ WF_vars(Next)

-----------------------------------------------------------------------------
(***************************************************************************)
(* close_values is exactly what is still to be closed, in the order it was *)
(* opened, so that errors at any depth close everything they leave, newest *)
(* first, and nothing else.                                                *)
(***************************************************************************)
CloseListMatchesScopes ==
  ~astray => /\ \A i, j \in DOMAIN closing : i < j => closing[i] < closing[j]
             /\ ToSet(closing) = {v \in OpenValues : closed[v] = 0}

(***************************************************************************)
(* Every value is closed, whatever ends its scope, and only once unless a  *)
(* frame that goes on had its scope open.                                  *)
(***************************************************************************)
ScopesClose ==
  ~astray => /\ \A v \in DOMAIN closed : closed[v] <= 1 \/ v \in swept
             /\ ~Running => \A v \in DOMAIN closed : closed[v] >= 1

(***************************************************************************)
(* close_values and the scopes agree on every way out of a scope: what is  *)
(* listed is what is open, and in the end each value was closed once.      *)
(***************************************************************************)
ClosingSound == CloseListMatchesScopes /\ ScopesClose

(***************************************************************************)
(* Values are closed when their scope ends and not before.                 *)
(***************************************************************************)
ClosedOnlyWhenLeft == swept = {}

(***************************************************************************)
(* The outcome of a protected call is that of its own target, and the      *)
(* function that made the call gets it.                                    *)
(***************************************************************************)
OutcomeIsTheTargets ==
  delivered # None => delivered.receiver = delivered.caller /\ delivered.result.to = delivered.call

OutcomesReachCallers == ~astray => OutcomeIsTheTargets

(***************************************************************************)
(* The counters that bound protected calls, and the scheduler flag, agree  *)
(* with the Rust activations there are, whichever way those are left.      *)
(***************************************************************************)
Activations(kind) == {i \in DOMAIN stack : stack[i].kind = kind}

CountersMatchStack ==
  LET fallbacks == {i \in Activations("fallback") : stack[i].entered}
      guests == {i \in fallbacks : ~stack[i].native}
      targets == {i \in Activations("loop") : stack[i].by = "target"}
      bypassed == {i \in Activations("fallback") : stack[i].restore}
      finishing == {i \in Activations("loop") : stack[i].by = "main" /\ stack[i].status = "unwind"} IN
  /\ activations = Cardinality(fallbacks)
  /\ handlerDepth = Cardinality(Activations("handler"))
  /\ targetDepth = Cardinality(guests) + Cardinality(targets)
  /\ Running => (scheduler <=> bypassed \cup finishing = {})

(***************************************************************************)
(* Protected calls that nest without end are refused, as guest calls are.  *)
(***************************************************************************)
FramesBounded == Len(frames) <= 1 + Max({0, CallLimit - BaseDepth})
LoopsBounded == Cardinality(Activations("loop")) <= CallLimit + 1

(***************************************************************************)
(* The same with two exceptions.  A message handler always gets a level to *)
(* run on, also where its caller has used up the last one.  A protected    *)
(* call made by a close handler, while an error unwinds a target, is       *)
(* charged a depth below the target's own.                                 *)
(***************************************************************************)
NestingBounded ==
  /\ ~astray => FramesBounded
  /\ Cardinality(Activations("loop")) <= CallLimit + 1 + handlerDepth
  /\ activations <= MaxActivations

(***************************************************************************)
(* The counters are right and they bound.                                  *)
(***************************************************************************)
NestingAccounted == CountersMatchStack /\ NestingBounded

(***************************************************************************)
(* The execution ends, also when errors meet errors.                       *)
(***************************************************************************)
ExecutionEnds == <>(outcome # "running")
=============================================================================
