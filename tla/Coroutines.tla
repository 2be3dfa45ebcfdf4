----------------------------- MODULE Coroutines -----------------------------
(***************************************************************************)
(* Coroutine scheduling in the VM (crates/blu-runtime/src/vm.rs):          *)
(* coroutine.create/wrap/resume/yield/close/status, the nested host calls  *)
(* of resume_thread, and the activation trampoline drive_blu_coroutine,    *)
(* which runs a wrapped coroutine that an owned frame of another coroutine *)
(* calls without re-entering the host stack.                               *)
(*                                                                         *)
(* Guest code is nondeterministic: whichever thread runs may take any of   *)
(* the operations of the program.  The values of a call are a member of    *)
(* Args; those a thread yields or returns are named by the thread itself.  *)
(*                                                                         *)
(* Left out: Lua 5.5's close of the running thread, close handlers,        *)
(* suspended native operations and the continuations of legacy frames.     *)
(***************************************************************************)
EXTENDS Integers, Sequences, FiniteSets, SequencesExt

CONSTANTS
    Threads,            \* the coroutines a program creates
    Main,               \* running_thread = None
    Args,               \* what a resume or a call of a wrapped coroutine passes
    NoValues,           \* an empty list of values
    None,               \* coroutine_delivery = None
    Programs,           \* the guest programs, by the sets of operations they use
    ResumeLimit,        \* call_limit.min(MAX_NESTED_COROUTINE_RESUMES)
    ActivationLimit     \* call_limit.min(MAX_BLU_COROUTINE_ACTIVATIONS)

AllOps == {"nested resume", "bad resume", "wrap call", "yield", "return", "fail", "close"}

ASSUME CoroutineAssumption ==
    /\ IsFiniteSet(Threads) /\ Main \notin Threads
    /\ NoValues \notin Args \cup Threads /\ None \notin Args \cup Threads
    /\ NoValues # None
    /\ Programs \subseteq SUBSET AllOps
    /\ ResumeLimit \in Nat /\ ActivationLimit \in Nat

VARIABLES
    threads,                \* the state of every thread
    running_thread,
    coroutine_delivery,     \* results on their way to an awaiting parent
    coroutine_resume_depth,
    frames,                 \* the resume_thread calls on the host stack
    ops,                    \* the operations of the program that runs
    intact                  \* history: every thread got the values sent to it

vars == <<threads, running_thread, coroutine_delivery, coroutine_resume_depth,
          frames, ops, intact>>

-----------------------------------------------------------------------------
(* ThreadState: "awaiting" is SuspendedBlu with BluResume::Coroutine, a    *)
(* thread that called the wrapped coroutine `child`; "suspended" is every  *)
(* other suspension; "lost" is a thread that is no longer in the map.      *)
States == {"absent", "new", "running", "suspended", "awaiting", "dead", "lost"}

In(state) == [state |-> state, child |-> Main, arguments |-> NoValues]
Awaiting(child, arguments) ==
    [state |-> "awaiting", child |-> child, arguments |-> arguments]

(* A call of resume_thread: the thread it was asked to resume with which   *)
(* arguments, the thread the trampoline is at, the parents and children it *)
(* has activated, the outcome of the last resume_thread_inner ("none"      *)
(* while the thread runs), and who called.                                 *)
NewFrame(thread, arguments) ==
    [root |-> thread, external |-> arguments, current |-> thread,
     activations |-> <<>>, result |-> "none", caller |-> running_thread]

Top == Last(frames)
GuestRuns == frames # <<>> => Top.result = "none"
IsAwaiting(t) == threads[t].state = "awaiting"

(* coroutine_is_normal: climb from the running thread to a thread that     *)
(* awaits it, and so on, until t is met.  Which one is found when several  *)
(* threads await the same child depends on the order of the map.           *)
ParentsOf(t) == {p \in Threads : IsAwaiting(p) /\ threads[p].child = t}
MapOrders ==
    {pick \in [Threads -> Threads \cup {Main}] :
        \A c \in Threads : IF ParentsOf(c) = {} THEN pick[c] = Main
                                                ELSE pick[c] \in ParentsOf(c)}
IsNormal(t, pick) ==
    LET climb[n \in 0 .. Cardinality(Threads)] ==
            IF n = 0 THEN running_thread
            ELSE LET c == climb[n - 1] IN IF c = Main THEN Main ELSE pick[c]
    IN  /\ running_thread \notin {Main, t}
        /\ \E n \in 1 .. Cardinality(Threads) : climb[n] = t

(* Mutant: the threads that await a child are forgotten. *)
StatusAwaitingSuspended(t, pick) ==
    CASE threads[t].state = "running" -> IF running_thread = t THEN "running" ELSE "normal"
      [] threads[t].state \in {"new", "suspended", "awaiting"} -> "suspended"
      [] OTHER -> threads[t].state
(* coroutine.status *)
Status(t, pick) ==
    CASE IsAwaiting(t) -> IF IsNormal(t, pick) THEN "normal" ELSE "suspended"
      [] threads[t].state = "running" -> IF running_thread = t THEN "running" ELSE "normal"
      [] threads[t].state \in {"new", "suspended"} -> "suspended"
      [] threads[t].state = "dead" -> "dead"
      [] OTHER -> "error"

Init ==
    /\ threads = [t \in Threads |-> In("absent")]
    /\ running_thread = Main
    /\ coroutine_delivery = None
    /\ coroutine_resume_depth = 0
    /\ frames = <<>>
    /\ ops \in Programs
    /\ intact = TRUE

-----------------------------------------------------------------------------
(* resume_thread_inner for thread t, with `delivery` in coroutine_delivery *)
(* and the arguments `passed`; `meant` is what the resumer sent.  A thread *)
(* that cannot be resumed fails before the delivery is taken; one that     *)
(* awaits a child and has no delivery is left alone; a delivery to one     *)
(* that awaits nothing is an error that loses the thread.                  *)
Outcome(t, delivery) ==
    CASE threads[t].state \in {"running", "dead"} -> "failed"
      [] threads[t].state \in {"absent", "lost"}  -> "error"
      [] IsAwaiting(t) /\ delivery = None         -> "empty"
      [] threads[t].state = "suspended" /\ delivery # None -> "error"
      [] OTHER -> "none"

TakesDeliveryNever(t) == FALSE  \* mutant: the delivery is cloned, not taken
TakesDelivery(t) == threads[t].state \notin {"running", "dead", "absent", "lost"}

Enter(t, delivery, passed, meant, frame, below) ==
    LET outcome == Outcome(t, delivery)
        runs == outcome = "none"
        got == IF delivery = None THEN passed ELSE delivery
    IN  /\ frames' = Append(below, [frame EXCEPT !.current = t, !.result = outcome])
        /\ threads' = [threads EXCEPT ![t] =
                IF runs THEN In("running")
                ELSE IF outcome = "error" /\ TakesDelivery(t) THEN In("lost") ELSE @]
        /\ running_thread' = IF runs THEN t ELSE running_thread
        /\ coroutine_delivery' = IF TakesDelivery(t) THEN None ELSE delivery
        /\ intact' = (intact /\ (runs => got = meant))
        /\ UNCHANGED ops

(* The running thread stops: its state is set, resume_thread_inner returns *)
(* to the trampoline, and the thread that called resume_thread runs again. *)
Leave(state, result) ==
    /\ threads' = [threads EXCEPT ![running_thread] = state]
    /\ running_thread' = Top.caller
    /\ frames' = [frames EXCEPT ![Len(frames)].result = result]
    /\ UNCHANGED <<coroutine_delivery, coroutine_resume_depth, ops, intact>>

-----------------------------------------------------------------------------
(* What guest code does.                                                   *)

(* coroutine.create and coroutine.wrap *)
Create(t) ==
    /\ GuestRuns
    /\ threads[t].state = "absent"
    /\ threads' = [threads EXCEPT ![t] = In("new")]
    /\ UNCHANGED <<running_thread, coroutine_delivery, coroutine_resume_depth, frames, ops, intact>>

(* coroutine.resume, or a wrapped coroutine called where the frame cannot  *)
(* suspend: resume_thread                                                  *)
Resume(t, arguments) ==
    /\ GuestRuns
    /\ threads[t].state # "absent"
    /\ running_thread = Main \/ "nested resume" \in ops
    /\ coroutine_resume_depth < ResumeLimit
    /\ coroutine_resume_depth' = coroutine_resume_depth + 1
    /\ Enter(t, coroutine_delivery, arguments, arguments, NewFrame(t, arguments), frames)

(* coroutine.resume of something that is not a thread: the depth has been  *)
(* counted when the argument is refused                                    *)
ResumeNonThread ==
    /\ GuestRuns
    /\ "bad resume" \in ops
    /\ coroutine_resume_depth < ResumeLimit
    /\ coroutine_resume_depth' = coroutine_resume_depth + 1
    /\ UNCHANGED <<threads, running_thread, coroutine_delivery, frames, ops, intact>>

(* The guard on nested resumes: CStackOverflow, raised in the caller       *)
ResumeTooDeep ==
    /\ GuestRuns
    /\ coroutine_resume_depth >= ResumeLimit
    /\ UNCHANGED vars

(* suspend_blu_coroutine_call: an owned frame of a coroutine calls a       *)
(* wrapped coroutine                                                       *)
CallWrapped(t, arguments) ==
    /\ GuestRuns /\ running_thread # Main
    /\ "wrap call" \in ops
    /\ threads[t].state # "absent"
    /\ Leave(Awaiting(t, arguments), "ok")

(* coroutine.yield: suspend_blu_v1 *)
Yield ==
    /\ GuestRuns /\ running_thread # Main
    /\ "yield" \in ops
    /\ Leave(In("suspended"), "ok")

Return ==
    /\ GuestRuns /\ running_thread # Main
    /\ "return" \in ops
    /\ Leave(In("dead"), "ok")

Fail ==
    /\ GuestRuns /\ running_thread # Main
    /\ "fail" \in ops
    /\ Leave(In("dead"), "failed")

(* coroutine.close of a thread that is not running or normal; its close    *)
(* handlers are not modelled                                               *)
CloseAny(t) ==  \* mutant: a running thread is closed too
    /\ GuestRuns /\ "close" \in ops
    /\ threads[t].state \in {"new", "suspended", "awaiting", "running"}
    /\ threads' = [threads EXCEPT ![t] = In("dead")]
    /\ UNCHANGED <<running_thread, coroutine_delivery, coroutine_resume_depth, frames, ops, intact>>
Close(t) ==
    /\ GuestRuns /\ "close" \in ops
    /\ threads[t].state \in {"new", "suspended", "awaiting"}
    /\ IsAwaiting(t) => \E pick \in MapOrders : ~IsNormal(t, pick)
    /\ threads' = [threads EXCEPT ![t] = In("dead")]
    /\ UNCHANGED <<running_thread, coroutine_delivery, coroutine_resume_depth, frames, ops, intact>>

-----------------------------------------------------------------------------
(* The trampoline, drive_blu_coroutine: it runs when a thread has stopped. *)

(* resume_thread returns to the code that called it.                       *)
ReturnToCaller ==
    /\ frames' = Front(frames)
    /\ coroutine_resume_depth' = coroutine_resume_depth - 1
    /\ UNCHANGED <<running_thread, coroutine_delivery, ops, intact>>

(* finish_blu_coroutine_failure *)
FinishFailure(activations) ==
    threads' = [t \in Threads |->
        IF t = Top.root \/ \E a \in ToSet(activations) : t = a[1]
        THEN In("dead") ELSE threads[t]]

(* The current thread awaits a child: resume the child.  A new child gets  *)
(* the arguments of the call; another one gets those that the root was     *)
(* resumed with, or none.                                                  *)
ChildArguments(child) ==
    IF threads[child].state = "new" THEN threads[Top.current].arguments
    ELSE IF Top.current = Top.root THEN Top.external ELSE NoValues

AtActivationLimit == Len(Top.activations) >= ActivationLimit

ActivateUncounted ==  \* mutant: the activation is not pushed
    /\ ~GuestRuns
    /\ IsAwaiting(Top.current) /\ ~AtActivationLimit
    /\ LET parent == Top.current
           child == threads[parent].child
       IN  Enter(child, coroutine_delivery, ChildArguments(child),
                 threads[parent].arguments, Top, Front(frames))
    /\ UNCHANGED coroutine_resume_depth
Activate ==
    /\ ~GuestRuns
    /\ IsAwaiting(Top.current) /\ ~AtActivationLimit
    /\ LET parent == Top.current
           child == threads[parent].child
       IN  Enter(child, coroutine_delivery, ChildArguments(child),
                 threads[parent].arguments,
                 [Top EXCEPT !.activations = Append(@, <<parent, child>>)], Front(frames))
    /\ UNCHANGED coroutine_resume_depth

RefuseActivation ==
    /\ ~GuestRuns
    /\ IsAwaiting(Top.current) /\ AtActivationLimit
    /\ FinishFailure(Top.activations)
    /\ ReturnToCaller

(* The current thread has stopped with values: deliver them to the parent. *)
Deliver ==
    /\ ~GuestRuns
    /\ ~IsAwaiting(Top.current) /\ Top.activations # <<>> /\ Top.result = "ok"
    /\ LET parent == Last(Top.activations)[1]
       IN  Enter(parent, Top.current, NoValues, Top.current,
                 [Top EXCEPT !.activations = Front(@)], Front(frames))
    /\ UNCHANGED coroutine_resume_depth

(* The current thread has failed: so do the root and the parents that are  *)
(* still on the list.                                                      *)
Propagate ==
    /\ ~GuestRuns
    /\ ~IsAwaiting(Top.current) /\ Top.activations # <<>> /\ Top.result = "failed"
    /\ FinishFailure(Front(Top.activations))
    /\ ReturnToCaller

(* A host error goes straight out, and so does the result of a thread that *)
(* was not activated by another.                                           *)
Finish ==
    /\ ~GuestRuns
    /\ ~IsAwaiting(Top.current)
    /\ Top.activations = <<>> \/ Top.result = "error"
    /\ ReturnToCaller
    /\ UNCHANGED threads

Drive == Activate \/ RefuseActivation \/ Deliver \/ Propagate \/ Finish

-----------------------------------------------------------------------------
Guest ==
    \/ \E t \in Threads : Create(t)
    \/ \E t \in Threads, arguments \in Args : Resume(t, arguments)
    \/ ResumeNonThread
    \/ ResumeTooDeep
    \/ \E t \in Threads, arguments \in Args : CallWrapped(t, arguments)
    \/ Yield
    \/ Return
    \/ Fail
    \/ \E t \in Threads : Close(t)

Next == Guest \/ Drive

(* The trampoline is a loop of the host: it goes on until it returns.      *)
Spec == Init /\ [][Next]_vars /\ WF_vars(Drive)

-----------------------------------------------------------------------------
(* The state keeps its shape.                                              *)
TypeOK ==
    /\ \A t \in Threads :
         /\ threads[t].state \in States
         /\ IsAwaiting(t) => threads[t].child \in Threads /\ threads[t].arguments \in Args
    /\ running_thread \in Threads \cup {Main}
    /\ coroutine_delivery \in Threads \cup {None}
    /\ coroutine_resume_depth \in 0 .. ResumeLimit
    /\ \A i \in 1 .. Len(frames) :
         /\ frames[i].root \in Threads /\ frames[i].current \in Threads
         /\ Len(frames[i].activations) <= ActivationLimit
         /\ i < Len(frames) => frames[i].result = "none"

(* The threads in state Running are the ones on the host stack, each once, *)
(* and running_thread is the innermost: no thread runs twice at a time and *)
(* none is left behind as running when its resume is over.                 *)
RunningMatchesStack ==
    LET onStack == {i \in 1 .. Len(frames) : frames[i].result = "none"}
    IN  /\ {t \in Threads : threads[t].state = "running"} = {frames[i].current : i \in onStack}
        /\ \A i, j \in onStack : frames[i].current = frames[j].current => i = j
        /\ running_thread = IF onStack = {} THEN Main
                            ELSE frames[Cardinality(onStack)].current

(* The guard on nested resumes counts the resumes that are nested.         *)
DepthMatchesStack == coroutine_resume_depth = Len(frames)

(* The same for programs that resume nothing but threads.                  *)
DepthMatchesThreads == "bad resume" \notin ops => DepthMatchesStack

(* What the VM keeps beside the host stack agrees with it: the states, the *)
(* running thread and the depth guard.                                     *)
StackSound == RunningMatchesStack /\ DepthMatchesThreads

(* A program that reaches coroutines from coroutines by resume or by calls *)
(* of wrapped ones, but not by both.                                       *)
Unmixed == ~({"nested resume", "wrap call"} \subseteq ops)

(* What a child hands to its parent is taken before guest code runs again: *)
(* nothing is left over for another thread to receive.                     *)
DeliveryConsumed == GuestRuns => coroutine_delivery = None

(* The same for programs that do not mix the two ways.                     *)
DeliveryConsumedUnmixed == Unmixed => DeliveryConsumed

(* A thread that is resumed receives what its resumer passed: the          *)
(* arguments of the call, or the results of the child it called.           *)
ValuesArrive == intact

(* When the main program runs, every coroutine is new, at a yield of its   *)
(* own, or dead: none still waits for a child that nobody drives.          *)
NoneStranded == frames = <<>> => \A t \in Threads : ~IsAwaiting(t)

(* coroutine.status calls a thread "normal" exactly when it is active      *)
(* below the running one: it resumed it, or called it, through others or   *)
(* directly.                                                               *)
Active ==
    {f.current : f \in ToSet(frames)}
      \cup UNION {{a[1] : a \in ToSet(f.activations)} : f \in ToSet(frames)}
StatusTruthful ==
    GuestRuns => \A t \in Threads, pick \in MapOrders :
        Status(t, pick) = "normal" <=> t \in Active \ {running_thread}

(* The same for programs that do not mix the two ways.                     *)
StatusTruthfulUnmixed == Unmixed => StatusTruthful

(* In programs that do not mix the two ways of nesting, a child's results  *)
(* go to the thread that waits for them and everyone's status tells who    *)
(* waits for whom.                                                         *)
UnmixedSound == DeliveryConsumedUnmixed /\ StatusTruthfulUnmixed

(* Whatever threads wait for each other, in a circle too, the trampoline   *)
(* hands control back to guest code.                                       *)
TrampolineReturns == ~GuestRuns ~> GuestRuns
=============================================================================
