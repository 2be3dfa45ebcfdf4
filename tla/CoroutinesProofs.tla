-------------------------- MODULE CoroutinesProofs --------------------------
(***************************************************************************)
(* The bookkeeping of the coroutine scheduler, for every number of         *)
(* threads, every program and every limit, and where the results of a      *)
(* coroutine go in programs that nest coroutines one way only.             *)
(***************************************************************************)
EXTENDS Coroutines, SelectionLemmas

(* The shape of the state, with what TypeOK says of the frames in full.    *)
ThreadStates == [state : States, child : Threads \cup {Main}, arguments : Args \cup {NoValues}]
Outcomes == {"none", "ok", "failed", "error", "empty"}
ResumeFrames ==
    [root : Threads, external : Args, current : Threads, activations : Seq(Threads \X Threads),
     result : Outcomes, caller : Threads \cup {Main}]

Shape ==
    /\ threads \in [Threads -> ThreadStates]
    /\ \A t \in Threads : IsAwaiting(t) => threads[t].child \in Threads /\ threads[t].arguments \in Args
    /\ running_thread \in Threads \cup {Main}
    /\ coroutine_delivery \in Threads \cup {None}
    /\ frames \in Seq(ResumeFrames)
    /\ \A i \in 1 .. Len(frames) : Len(frames[i].activations) <= ActivationLimit

(* The depth guard counts the frames, and more only after a refused resume. *)
Counted ==
    /\ coroutine_resume_depth \in 0 .. ResumeLimit
    /\ Len(frames) <= coroutine_resume_depth
    /\ DepthMatchesThreads

(* No parent of the resume f, and not its root either, is a thread that    *)
(* the resumes s below it run: a resume never ends a thread of another.    *)
Apart(f, s) ==
    \A i \in 1 .. Len(s) :
        /\ f.root # s[i].current
        /\ \A k \in 1 .. Len(f.activations) : f.activations[k][1] # s[i].current

(* The resumes s are those in progress, innermost last: each runs a thread *)
(* of its own, was called by the thread that the one below runs, and no    *)
(* other thread is running.                                                *)
Nested(s, states, running) ==
    /\ \A i \in 1 .. Len(s) :
         /\ s[i].result = "none"
         /\ states[s[i].current].state = "running"
         /\ s[i].caller = IF i = 1 THEN Main ELSE s[i - 1].current
    /\ \A t \in Threads : states[t].state = "running" => \E i \in 1 .. Len(s) : s[i].current = t
    /\ \A i, j \in 1 .. Len(s) : i < j =>
         /\ s[i].current # s[j].current /\ s[i].current # s[j].root
         /\ \A k \in 1 .. Len(s[j].activations) : s[j].activations[k][1] # s[i].current
    /\ running = IF s = <<>> THEN Main ELSE s[Len(s)].current

(* A resume that has stopped on top of s: what it may still end are its    *)
(* own threads, unless it was refused because its root runs already.       *)
Stopped(f, s, running) ==
    /\ f.caller = running
    /\ \/ Apart(f, s)
       \/ f.activations = <<>> /\ f.current = f.root /\ f.result = "failed"

Inv ==
    /\ Shape /\ Counted
    /\ GuestRuns => Nested(frames, threads, running_thread)
    /\ ~GuestRuns => /\ Nested(Front(frames), threads, running_thread)
                     /\ Stopped(Top, Front(frames), running_thread)

-----------------------------------------------------------------------------
(* The last element of a sequence, and the others.                         *)
LEMMA FrontAndLast ==
    ASSUME NEW S, NEW s \in Seq(S), s # <<>>
    PROVE  /\ Len(s) \in Nat \ {0} /\ Last(s) = s[Len(s)] /\ Last(s) \in S
           /\ Front(s) \in Seq(S) /\ Len(Front(s)) = Len(s) - 1
           /\ \A i \in 1 .. Len(s) - 1 : Front(s)[i] = s[i]
<1>1. Len(s) \in Nat \ {0} /\ \A i \in 1 .. Len(s) : s[i] \in S
  BY EmptySeq, ElementOfSeq
<1> DEFINE n == Len(s)
           u == SubSeq(s, 1, n - 1)
<1>2. /\ u \in Seq(S) /\ Len(u) = IF 1 <= n - 1 THEN n - 1 - 1 + 1 ELSE 0
      /\ \A i \in 1 .. n - 1 - 1 + 1 : u[i] = s[1 + i - 1]
  BY <1>1, SubSeqProperties
<1>3. Front(s) = u /\ Last(s) = s[n]
  BY DEF Front, Last
<1> HIDE DEF u, n
<1>4. n \in Nat \ {0}
  BY <1>1 DEF n
<1>5. Len(u) = n - 1 /\ \A i \in 1 .. n - 1 : u[i] = s[i]
  BY <1>2, <1>4
<1> QED BY <1>1, <1>2, <1>3, <1>4, <1>5 DEF n

(* A sequence with its last element replaced.                              *)
LEMMA LastReplaced ==
    ASSUME NEW S, NEW s \in Seq(S), NEW x \in S
    PROVE  /\ Append(s, x) \in Seq(S) /\ Len(Append(s, x)) = Len(s) + 1
           /\ Append(s, x) # <<>> /\ Last(Append(s, x)) = x
           /\ Front(Append(s, x)) = s
           /\ \A i \in 1 .. Len(s) : Append(s, x)[i] = s[i]
  BY DEF Front, Last

(* The fields of a resume in a stack of them.                              *)
LEMMA FramesTyped ==
    ASSUME NEW s \in Seq(ResumeFrames), NEW i \in 1 .. Len(s)
    PROVE  /\ s[i].root \in Threads /\ s[i].current \in Threads
           /\ s[i].activations \in Seq(Threads \X Threads)
<1>1. s[i] \in ResumeFrames
  BY ElementOfSeq
<1> QED BY <1>1 DEF ResumeFrames

(* Threads other than the running ones may change their states.            *)
LEMMA NestedSame ==
    ASSUME NEW s \in Seq(ResumeFrames), NEW states, NEW later, NEW running,
           Nested(s, states, running),
           \A t \in Threads : later[t].state = "running" <=> states[t].state = "running"
    PROVE  Nested(s, later, running)
<1>1. \A i \in 1 .. Len(s) : s[i].current \in Threads
  BY FramesTyped DEF ResumeFrames
<1> QED BY <1>1 DEF Nested

(* A thread that did not run starts on top of the others.                  *)
LEMMA NestedPush ==
    ASSUME NEW s \in Seq(ResumeFrames), NEW states, NEW later, NEW running,
           Nested(s, states, running),
           NEW f \in ResumeFrames, f.result = "none", f.caller = running, Apart(f, s),
           states[f.current].state # "running",
           \A t \in Threads : later[t].state = "running" <=>
               t = f.current \/ states[t].state = "running"
    PROVE  Nested(Append(s, f), later, f.current)
<1> DEFINE u == Append(s, f)
<1>1. /\ Len(s) \in Nat /\ Len(u) = Len(s) + 1
      /\ u[Len(s) + 1] = f /\ \A i \in 1 .. Len(s) : u[i] = s[i]
      /\ u # <<>>
  BY AppendProperties, LenProperties
<1>2. f.current \in Threads /\ \A i \in 1 .. Len(s) : s[i].current \in Threads
  BY FramesTyped DEF ResumeFrames
<1>3. s = <<>> <=> Len(s) = 0
  BY EmptySeq
<1> HIDE DEF u
<1>4. ASSUME NEW i \in 1 .. Len(u)
      PROVE  /\ u[i].result = "none"
             /\ later[u[i].current].state = "running"
             /\ u[i].caller = IF i = 1 THEN Main ELSE u[i - 1].current
  <2>1. CASE i = Len(s) + 1
    <3>1. running = IF Len(s) = 0 THEN Main ELSE s[Len(s)].current
      BY <1>3 DEF Nested
    <3>2. u[i] = f /\ (Len(s) # 0 => u[i - 1] = s[Len(s)])
      BY <1>1, <2>1
    <3> QED BY <1>1, <1>2, <2>1, <3>1, <3>2
  <2>2. CASE i # Len(s) + 1
    <3>1. i \in 1 .. Len(s) /\ u[i] = s[i] /\ (i # 1 => u[i - 1] = s[i - 1])
      BY <1>1, <2>2
    <3> QED BY <1>2, <3>1 DEF Nested
  <2> QED BY <2>1, <2>2
<1>5. \A t \in Threads : later[t].state = "running" => \E i \in 1 .. Len(u) : u[i].current = t
  BY <1>1, <1>2 DEF Nested
<1>6. ASSUME NEW i \in 1 .. Len(u), NEW j \in 1 .. Len(u), i < j
      PROVE  /\ u[i].current # u[j].current /\ u[i].current # u[j].root
             /\ \A k \in 1 .. Len(u[j].activations) : u[j].activations[k][1] # u[i].current
  <2>1. i \in 1 .. Len(s) /\ u[i] = s[i]
    BY <1>1, <1>6
  <2>2. CASE j = Len(s) + 1
    BY <1>1, <2>1, <2>2 DEF Nested, Apart
  <2>3. CASE j # Len(s) + 1
    <3>1. j \in 1 .. Len(s) /\ u[j] = s[j]
      BY <1>1, <2>3
    <3> QED BY <1>6, <2>1, <3>1 DEF Nested
  <2> QED BY <2>2, <2>3
<1> QED BY <1>1, <1>4, <1>5, <1>6 DEF Nested, u

(* The innermost thread stops.                                             *)
LEMMA NestedPop ==
    ASSUME NEW s \in Seq(ResumeFrames), s # <<>>, NEW states, NEW later, NEW running,
           Nested(s, states, running),
           \A t \in Threads : later[t].state = "running" <=>
               t # Last(s).current /\ states[t].state = "running"
    PROVE  /\ Nested(Front(s), later, Last(s).caller)
           /\ Apart(Last(s), Front(s))
<1> DEFINE u == Front(s)
           n == Len(s)
<1>1. /\ n \in Nat \ {0} /\ Len(u) = n - 1 /\ Last(s) = s[n]
      /\ \A i \in 1 .. n - 1 : u[i] = s[i]
  BY FrontAndLast
<1>2. \A i \in 1 .. n : s[i].current \in Threads
  BY FramesTyped DEF ResumeFrames
<1>3. u = <<>> <=> n = 1
  BY <1>1, FrontAndLast, EmptySeq
<1> HIDE DEF u
<1>4. \A i \in 1 .. Len(u) :
         /\ u[i].result = "none"
         /\ later[u[i].current].state = "running"
         /\ u[i].caller = IF i = 1 THEN Main ELSE u[i - 1].current
  <2> SUFFICES ASSUME NEW i \in 1 .. Len(u)
               PROVE  /\ u[i].result = "none"
                      /\ later[u[i].current].state = "running"
                      /\ u[i].caller = IF i = 1 THEN Main ELSE u[i - 1].current
    OBVIOUS
  <2>1. /\ i \in 1 .. n /\ n \in 1 .. n /\ i < n /\ u[i] = s[i]
        /\ i # 1 => u[i - 1] = s[i - 1]
    BY <1>1
  <2>2. /\ s[i].result = "none" /\ states[s[i].current].state = "running"
        /\ s[i].current # s[n].current
        /\ s[i].caller = IF i = 1 THEN Main ELSE s[i - 1].current
    BY <2>1, Zenon DEF Nested
  <2> HIDE DEF n
  <2> QED BY <1>1, <1>2, <2>1, <2>2
<1>5. ASSUME NEW t \in Threads, later[t].state = "running"
      PROVE  \E i \in 1 .. Len(u) : u[i].current = t
  <2>1. PICK i \in 1 .. n : s[i].current = t
    BY <1>5 DEF Nested
  <2>2. i # n
    BY <1>1, <1>5, <2>1
  <2> QED BY <1>1, <2>1, <2>2
<1>6. ASSUME NEW i \in 1 .. Len(u), NEW j \in 1 .. Len(u), i < j
      PROVE  /\ u[i].current # u[j].current /\ u[i].current # u[j].root
             /\ \A k \in 1 .. Len(u[j].activations) : u[j].activations[k][1] # u[i].current
  <2>1. i \in 1 .. n /\ u[i] = s[i] /\ j \in 1 .. n /\ u[j] = s[j]
    BY <1>1
  <2> QED BY <1>6, <2>1 DEF Nested
<1>7. Last(s).caller = IF u = <<>> THEN Main ELSE u[Len(u)].current
  BY <1>1, <1>3 DEF Nested
<1>8. Apart(Last(s), u)
  <2>1. \A i \in 1 .. n - 1 :
           /\ s[i].current # s[n].current /\ s[i].current # s[n].root
           /\ \A k \in 1 .. Len(s[n].activations) : s[n].activations[k][1] # s[i].current
    <3>1. n \in 1 .. n /\ \A i \in 1 .. n - 1 : i \in 1 .. n /\ i < n
      BY <1>1
    <3> QED BY <3>1, Zenon DEF Nested
  <2>2. Len(u) = n - 1 /\ \A i \in 1 .. n - 1 : u[i] = s[i]
    BY <1>1, Zenon
  <2> HIDE DEF n
  <2> QED BY <1>1, <2>1, <2>2, Zenon DEF Apart
<1> QED BY <1>4, <1>5, <1>6, <1>7, <1>8 DEF Nested, u

-----------------------------------------------------------------------------
(* Everything holds at the start.                                          *)
LEMMA InitInv == Init => Inv
<1> SUFFICES ASSUME Init PROVE Inv
  OBVIOUS
<1> USE CoroutineAssumption
<1>1. Shape
  BY EmptySeq DEF Init, Shape, In, ThreadStates, States, IsAwaiting
<1>2. Counted
  BY EmptySeq DEF Init, Counted, DepthMatchesThreads, DepthMatchesStack
<1>3. GuestRuns /\ Nested(frames, threads, running_thread)
  BY EmptySeq DEF Init, GuestRuns, Nested, In
<1> QED BY <1>1, <1>2, <1>3 DEF Inv

(* When a resume has stopped, it is the last of a non-empty stack.         *)
LEMMA WhenStopped ==
    ASSUME Inv, ~GuestRuns
    PROVE  /\ frames # <<>> /\ Len(frames) \in Nat \ {0} /\ Front(frames) \in Seq(ResumeFrames)
           /\ Len(Front(frames)) = Len(frames) - 1 /\ Top \in ResumeFrames /\ Top.result # "none"
           /\ \A i \in 1 .. Len(Front(frames)) : Len(Front(frames)[i].activations) <= ActivationLimit
           /\ Len(Top.activations) <= ActivationLimit
<1>1. frames # <<>> /\ Top.result # "none" /\ frames \in Seq(ResumeFrames)
  BY DEF GuestRuns, Inv, Shape
<1>2. /\ Len(frames) \in Nat \ {0} /\ Top = frames[Len(frames)] /\ Top \in ResumeFrames
      /\ Front(frames) \in Seq(ResumeFrames) /\ Len(Front(frames)) = Len(frames) - 1
      /\ \A i \in 1 .. Len(frames) - 1 : Front(frames)[i] = frames[i]
  BY <1>1, FrontAndLast DEF Top
<1>3. \A i \in 1 .. Len(frames) : Len(frames[i].activations) <= ActivationLimit
  BY DEF Inv, Shape
<1>4. Len(Top.activations) <= ActivationLimit
  BY <1>2, <1>3
<1>5. \A i \in 1 .. Len(Front(frames)) : Len(Front(frames)[i].activations) <= ActivationLimit
  <2> SUFFICES ASSUME NEW i \in 1 .. Len(Front(frames))
               PROVE  Len(Front(frames)[i].activations) <= ActivationLimit
    OBVIOUS
  <2>1. i \in 1 .. Len(frames) - 1 /\ i \in 1 .. Len(frames)
    BY <1>2
  <2> QED BY <1>2, <1>3, <2>1
<1> QED BY <1>1, <1>2, <1>4, <1>5

(* coroutine.create, coroutine.close: a thread that does not run changes.  *)
LEMMA ChangeInv ==
    ASSUME Inv, GuestRuns, NEW t \in Threads, threads[t].state # "running",
           NEW state \in {"new", "dead"}, threads' = [threads EXCEPT ![t] = In(state)],
           UNCHANGED <<running_thread, coroutine_delivery, coroutine_resume_depth, frames, ops>>
    PROVE  Inv'
<1> USE CoroutineAssumption
<1>1. Shape'
  BY DEF Inv, Shape, In, ThreadStates, States, IsAwaiting
<1>2. Counted'
  BY DEF Inv, Counted, DepthMatchesThreads, DepthMatchesStack
<1>3. \A u \in Threads : threads'[u].state = "running" <=> threads[u].state = "running"
  BY DEF Inv, Shape, In
<1>4. Nested(frames, threads', running_thread)
  BY <1>3, NestedSame DEF Inv, Shape
<1>5. GuestRuns' /\ Nested(frames', threads', running_thread')
  BY <1>4 DEF GuestRuns, Top
<1> QED BY <1>1, <1>2, <1>5 DEF Inv

(* coroutine.yield, a return, an error, a call of a wrapped coroutine.     *)
LEMMA LeaveInv ==
    ASSUME Inv, GuestRuns, running_thread # Main,
           NEW state \in ThreadStates, state.state # "running",
           state.state = "awaiting" => state.child \in Threads /\ state.arguments \in Args,
           NEW result \in Outcomes \ {"none"}, Leave(state, result)
    PROVE  Inv'
<1> DEFINE n == Len(frames)
           s == Front(frames)
<1>1. frames \in Seq(ResumeFrames) /\ Nested(frames, threads, running_thread)
  BY DEF Inv, Shape
<1>2. frames # <<>>
  BY <1>1 DEF Nested
<1>3. /\ n \in Nat \ {0} /\ Top = frames[n] /\ Top \in ResumeFrames /\ s \in Seq(ResumeFrames)
      /\ running_thread = Top.current /\ running_thread \in Threads /\ Top.caller \in Threads \cup {Main}
  <2>1. n \in Nat \ {0} /\ Top = frames[n] /\ Top \in ResumeFrames /\ s \in Seq(ResumeFrames)
    BY <1>1, <1>2, FrontAndLast DEF Top
  <2>2. running_thread = frames[n].current
    BY <1>1, <1>2 DEF Nested
  <2> QED BY <2>1, <2>2 DEF ResumeFrames
<1>4. /\ threads' = [threads EXCEPT ![running_thread] = state]
      /\ running_thread' = Top.caller
      /\ frames' = [frames EXCEPT ![n].result = result]
      /\ UNCHANGED <<coroutine_delivery, coroutine_resume_depth, ops>>
  BY DEF Leave
<1> HIDE DEF s
<1>5. [Top EXCEPT !.result = result] \in ResumeFrames
  BY <1>3 DEF ResumeFrames
<1>6. /\ frames' \in Seq(ResumeFrames) /\ Len(frames') = n /\ frames' # <<>>
      /\ \A i \in 1 .. n : frames'[i] = IF i = n THEN [Top EXCEPT !.result = result] ELSE frames[i]
  <2>1. frames' = [frames EXCEPT ![n] = [Top EXCEPT !.result = result]]
    BY <1>3, <1>4
  <2>2. n \in 1 .. n
    BY <1>3
  <2>3. /\ frames' \in Seq(ResumeFrames) /\ Len(frames') = n
        /\ \A i \in 1 .. n : frames'[i] = IF i = n THEN [Top EXCEPT !.result = result] ELSE frames[i]
    BY <1>1, <1>5, <2>1, <2>2, ExceptSeq
  <2> QED BY <1>3, <2>3, EmptySeq
<1>7. Top' = [Top EXCEPT !.result = result] /\ ~GuestRuns'
  <2>1. Top' = frames'[n]
    BY <1>6 DEF Top, Last
  <2>2. Top' = [Top EXCEPT !.result = result]
    BY <1>3, <1>6, <2>1
  <2>3. Top'.result = result /\ result # "none"
    BY <1>3, <2>2 DEF ResumeFrames
  <2> QED BY <1>6, <2>2, <2>3 DEF GuestRuns
<1>8. Front(frames') = s
  BY <1>2, <1>3, <1>6 DEF s, Front
<1>9. \A t \in Threads : threads'[t].state = "running" <=>
         t # Last(frames).current /\ threads[t].state = "running"
  BY <1>3, <1>4 DEF Inv, Shape, Top
<1>10. Nested(s, threads', Top.caller) /\ Apart(Top, s)
  BY <1>1, <1>2, <1>9, NestedPop DEF s, Top
<1>11. Stopped(Top', s, running_thread')
  BY <1>3, <1>4, <1>7, <1>10 DEF Stopped, Apart, ResumeFrames
<1>12. Shape'
  <2>1. threads' \in [Threads -> ThreadStates]
    BY <1>3, <1>4 DEF Inv, Shape
  <2>2. \A t \in Threads : IsAwaiting(t)' =>
           threads'[t].child \in Threads /\ threads'[t].arguments \in Args
    BY <1>3, <1>4 DEF Inv, Shape, IsAwaiting
  <2>3. \A i \in 1 .. n : Len(frames'[i].activations) <= ActivationLimit
    BY <1>3, <1>6 DEF Inv, Shape, ResumeFrames
  <2> QED BY <1>3, <1>4, <1>6, <2>1, <2>2, <2>3 DEF Inv, Shape
<1>13. Counted'
  BY <1>4, <1>6 DEF Inv, Counted, DepthMatchesThreads, DepthMatchesStack
<1> QED BY <1>4, <1>7, <1>8, <1>10, <1>11, <1>12, <1>13 DEF Inv

(* resume_thread_inner: a thread is entered on top of the resumes s, which *)
(* are those whose thread runs; what the resume f may end is apart from    *)
(* them, or is the thread itself.                                          *)
LEMMA EnterInv ==
    ASSUME Shape, NEW s \in Seq(ResumeFrames), Nested(s, threads, running_thread),
           \A i \in 1 .. Len(s) : Len(s[i].activations) <= ActivationLimit,
           NEW f \in ResumeFrames, f.caller = running_thread,
           Len(f.activations) <= ActivationLimit,
           NEW t \in Threads,
           \/ Apart(f, s)
           \/ f.activations = <<>> /\ f.root = t /\ (threads[t].state # "running" => Apart(f, s)),
           NEW delivery \in Threads \cup {None}, NEW passed, NEW meant,
           Enter(t, delivery, passed, meant, f, s)
    PROVE  /\ Shape' /\ Len(frames') = Len(s) + 1
           /\ GuestRuns' => Nested(frames', threads', running_thread')
           /\ ~GuestRuns' => /\ Nested(Front(frames'), threads', running_thread')
                             /\ Stopped(Top', Front(frames'), running_thread')
<1> USE CoroutineAssumption
<1> DEFINE outcome == Outcome(t, delivery)
           g == [f EXCEPT !.current = t, !.result = outcome]
<1>1. /\ frames' = Append(s, g)
      /\ threads' = [threads EXCEPT ![t] =
              IF outcome = "none" THEN In("running")
              ELSE IF outcome = "error" /\ TakesDelivery(t) THEN In("lost") ELSE @]
      /\ running_thread' = IF outcome = "none" THEN t ELSE running_thread
      /\ coroutine_delivery' = IF TakesDelivery(t) THEN None ELSE delivery
  BY DEF Enter
<1>2. /\ outcome \in Outcomes
      /\ threads[t].state = "running" => outcome = "failed"
  BY DEF Outcome, Outcomes, IsAwaiting
<1>3. /\ g \in ResumeFrames /\ g.current = t /\ g.result = outcome /\ g.root = f.root
      /\ g.activations = f.activations /\ g.caller = f.caller
  BY <1>2 DEF ResumeFrames
<1> HIDE DEF g, outcome
<1>4. /\ frames' \in Seq(ResumeFrames) /\ Len(frames') = Len(s) + 1 /\ frames' # <<>>
      /\ Last(frames') = g /\ Front(frames') = s
      /\ \A i \in 1 .. Len(s) : frames'[i] = s[i]
      /\ frames'[Len(s) + 1] = g
  BY <1>1, <1>3, LastReplaced, AppendProperties
<1>5. Top' = g
  BY <1>4 DEF Top
<1>6. threads' \in [Threads -> ThreadStates] /\ \A u \in Threads : u # t => threads'[u] = threads[u]
  BY <1>1 DEF Shape, ThreadStates, In, States
<1>7. Shape'
  <2>1. threads'[t] = In("running") \/ threads'[t] = In("lost") \/ threads'[t] = threads[t]
    BY <1>1 DEF Shape
  <2>2. \A u \in Threads : IsAwaiting(u)' =>
           threads'[u].child \in Threads /\ threads'[u].arguments \in Args
    <3> SUFFICES ASSUME NEW u \in Threads, IsAwaiting(u)'
                 PROVE  threads'[u].child \in Threads /\ threads'[u].arguments \in Args
      OBVIOUS
    <3>1. threads'[u] # In("running") /\ threads'[u] # In("lost")
      BY DEF IsAwaiting, In
    <3>2. threads'[u] = threads[u]
      BY <1>6, <2>1, <3>1
    <3>3. IsAwaiting(u)
      BY <3>2 DEF IsAwaiting
    <3> QED BY <3>2, <3>3 DEF Shape
  <2>3. \A i \in 1 .. Len(s) + 1 : Len(frames'[i].activations) <= ActivationLimit
    <3> SUFFICES ASSUME NEW i \in 1 .. Len(s) + 1
                 PROVE  Len(frames'[i].activations) <= ActivationLimit
      OBVIOUS
    <3>1. CASE i \in 1 .. Len(s)
      BY <1>4, <3>1
    <3>2. CASE i = Len(s) + 1
      BY <1>3, <1>4, <3>2
    <3> QED BY <3>1, <3>2
  <2> QED BY <1>1, <1>4, <1>6, <2>2, <2>3 DEF Shape
<1>8. CASE outcome = "none"
  <2>1. threads[t].state # "running" /\ threads'[t].state = "running"
    BY <1>1, <1>2, <1>8 DEF Shape, In
  <2>2. \A u \in Threads : threads'[u].state = "running" <=>
           u = g.current \/ threads[u].state = "running"
    BY <1>3, <1>6, <2>1
  <2>3. Apart(g, s)
    BY <1>3, <2>1 DEF Apart
  <2>4. Nested(Append(s, g), threads', g.current)
    BY <1>3, <1>8, <2>1, <2>2, <2>3, NestedPush
  <2> QED BY <1>1, <1>3, <1>4, <1>5, <1>7, <1>8, <2>4 DEF GuestRuns
<1>9. CASE outcome # "none"
  <2>1. threads[t].state = "running" => threads'[t] = threads[t]
    BY <1>1, <1>2, <1>9 DEF Shape
  <2>2. threads'[t].state = "running" => threads[t].state = "running"
    BY <1>1, <1>9 DEF Shape, In
  <2>3. Nested(s, threads', running_thread')
    <3>1. \A u \in Threads : threads'[u].state = "running" <=> threads[u].state = "running"
      BY <1>6, <2>1, <2>2
    <3>2. running_thread' = running_thread /\ Nested(s, threads, running_thread)
      BY <1>1, <1>9
    <3>3. Nested(s, threads', running_thread)
      BY <3>1, <3>2, NestedSame, Zenon
    <3> QED BY <3>2, <3>3
  <2>4. Stopped(g, s, running_thread')
    BY <1>1, <1>2, <1>3, <1>9 DEF Stopped, Apart
  <2> QED BY <1>3, <1>4, <1>5, <1>7, <1>9, <2>3, <2>4 DEF GuestRuns
<1> QED BY <1>8, <1>9

(* coroutine.resume, and of something that is not a thread                 *)
LEMMA ResumeInv ==
    ASSUME Inv, NEW t \in Threads, NEW arguments \in Args, Resume(t, arguments)
    PROVE  Inv'
<1> USE CoroutineAssumption
<1> DEFINE f == NewFrame(t, arguments)
<1>1. /\ GuestRuns /\ Nested(frames, threads, running_thread)
      /\ coroutine_resume_depth < ResumeLimit /\ coroutine_resume_depth' = coroutine_resume_depth + 1
      /\ Enter(t, coroutine_delivery, arguments, arguments, f, frames)
      /\ Shape /\ frames \in Seq(ResumeFrames) /\ coroutine_delivery \in Threads \cup {None}
      /\ \A i \in 1 .. Len(frames) : Len(frames[i].activations) <= ActivationLimit
      /\ ops' = ops
  BY DEF Resume, Inv, Shape, Enter
<1>2. /\ f \in ResumeFrames /\ f.caller = running_thread /\ f.activations = <<>> /\ f.root = t
      /\ Len(f.activations) <= ActivationLimit
  BY <1>1, EmptySeq DEF NewFrame, ResumeFrames, Outcomes, Shape
<1>3. threads[t].state # "running" => Apart(f, frames)
  BY <1>1, <1>2, EmptySeq DEF Apart, Nested
<1> HIDE DEF f
<1>4. /\ Shape' /\ Len(frames') = Len(frames) + 1
      /\ GuestRuns' => Nested(frames', threads', running_thread')
      /\ ~GuestRuns' => /\ Nested(Front(frames'), threads', running_thread')
                        /\ Stopped(Top', Front(frames'), running_thread')
  BY <1>1, <1>2, <1>3, EnterInv
<1>5. Len(frames) \in Nat
  BY <1>1, LenProperties
<1>6. /\ coroutine_resume_depth' \in 0 .. ResumeLimit
      /\ Len(frames') <= coroutine_resume_depth'
  BY <1>1, <1>4, <1>5 DEF Inv, Counted
<1>7. DepthMatchesThreads'
  BY <1>1, <1>4 DEF Inv, Counted, DepthMatchesThreads, DepthMatchesStack
<1> QED BY <1>4, <1>6, <1>7 DEF Inv, Counted

LEMMA ResumeNonThreadInv == Inv /\ ResumeNonThread => Inv'
<1> SUFFICES ASSUME Inv, ResumeNonThread PROVE Inv'
  OBVIOUS
<1>0. Len(frames) \in Nat
  BY LenProperties DEF Inv, Shape
<1>1. Counted'
  <2>1. /\ coroutine_resume_depth' \in 0 .. ResumeLimit
        /\ Len(frames') <= coroutine_resume_depth'
    <3>1. /\ frames' = frames /\ coroutine_resume_depth < ResumeLimit
          /\ coroutine_resume_depth' = coroutine_resume_depth + 1
      BY DEF ResumeNonThread
    <3>2. coroutine_resume_depth \in 0 .. ResumeLimit /\ Len(frames) <= coroutine_resume_depth
      BY DEF Inv, Counted
    <3> QED BY <1>0, <3>1, <3>2, CoroutineAssumption
  <2>2. DepthMatchesThreads'
    BY DEF ResumeNonThread, DepthMatchesThreads
  <2> QED BY <2>1, <2>2 DEF Counted
<1>2. Shape'
  BY DEF ResumeNonThread, Inv, Shape, IsAwaiting
<1> QED BY <1>1, <1>2 DEF ResumeNonThread, Inv, GuestRuns, Top

(* resume_thread returns, with threads that do not run ended or none.      *)
LEMMA ReturnInv ==
    ASSUME Inv, ~GuestRuns, ReturnToCaller,
           threads' \in [Threads -> ThreadStates],
           \A t \in Threads : \/ threads'[t] = threads[t]
                              \/ threads'[t] = In("dead") /\ threads[t].state # "running"
    PROVE  Inv'
<1> DEFINE s == Front(frames)
<1>1. /\ frames' = s /\ coroutine_resume_depth' = coroutine_resume_depth - 1
      /\ UNCHANGED <<running_thread, coroutine_delivery, ops>>
  BY DEF ReturnToCaller
<1>2. /\ Len(frames) \in Nat \ {0} /\ s \in Seq(ResumeFrames) /\ Len(s) = Len(frames) - 1
      /\ \A i \in 1 .. Len(s) : Len(s[i].activations) <= ActivationLimit
  BY WhenStopped
<1> HIDE DEF s
<1>3. Nested(s, threads, running_thread)
  BY DEF Inv, s
<1>4. Nested(s, threads', running_thread')
  BY <1>1, <1>2, <1>3, NestedSame DEF In
<1>5. GuestRuns'
  <2> SUFFICES ASSUME s # <<>> PROVE Last(s).result = "none"
    BY <1>1 DEF GuestRuns, Top
  <2>1. Last(s) = s[Len(s)] /\ Len(s) \in Nat \ {0}
    BY <1>2, FrontAndLast
  <2> QED BY <1>3, <2>1 DEF Nested
<1>6. Shape'
  BY <1>1, <1>2 DEF Inv, Shape, IsAwaiting, In
<1>7. Counted'
  <2>1. Len(frames') = Len(frames) - 1
    BY <1>1, <1>2
  <2>2. /\ coroutine_resume_depth' \in 0 .. ResumeLimit /\ Len(frames') <= coroutine_resume_depth'
    BY <1>1, <1>2, <2>1, CoroutineAssumption DEF Inv, Counted
  <2>3. DepthMatchesThreads'
    BY <1>1, <1>2, <2>1 DEF Inv, Counted, DepthMatchesThreads, DepthMatchesStack
  <2> QED BY <2>2, <2>3 DEF Counted
<1> QED BY <1>1, <1>4, <1>5, <1>6, <1>7 DEF Inv

(* finish_blu_coroutine_failure ends no running thread.                    *)
LEMMA FailureEndsItsOwn ==
    ASSUME Inv, ~GuestRuns, Apart(Top, Front(frames)),
           NEW activations, FinishFailure(activations),
           \A a \in ToSet(activations) :
               \E k \in 1 .. Len(Top.activations) : a[1] = Top.activations[k][1]
    PROVE  /\ threads' \in [Threads -> ThreadStates]
           /\ \A t \in Threads : \/ threads'[t] = threads[t]
                                 \/ threads'[t] = In("dead") /\ threads[t].state # "running"
<1> USE CoroutineAssumption
<1>1. Nested(Front(frames), threads, running_thread)
  BY DEF Inv
<1>2. ASSUME NEW t \in Threads, threads[t].state = "running"
      PROVE  t # Top.root /\ \A a \in ToSet(activations) : t # a[1]
  BY <1>1, <1>2 DEF Nested, Apart
<1>3. threads' = [t \in Threads |->
          IF t = Top.root \/ \E a \in ToSet(activations) : t = a[1] THEN In("dead") ELSE threads[t]]
  BY DEF FinishFailure
<1>4. In("dead") \in ThreadStates
  BY DEF In, ThreadStates, States
<1> QED BY <1>2, <1>3, <1>4 DEF Inv, Shape

(* The trampoline activates the child that the current thread awaits.      *)
LEMMA ActivateInv == Inv /\ Activate => Inv'
<1> SUFFICES ASSUME Inv, Activate PROVE Inv'
  OBVIOUS
<1> USE CoroutineAssumption
<1> DEFINE s == Front(frames)
           parent == Top.current
           child == threads[parent].child
           f == [Top EXCEPT !.activations = Append(@, <<parent, child>>)]
<1>1. /\ ~GuestRuns /\ IsAwaiting(parent) /\ ~AtActivationLimit
      /\ Enter(child, coroutine_delivery, ChildArguments(child), threads[parent].arguments, f, s)
      /\ coroutine_resume_depth' = coroutine_resume_depth
  BY DEF Activate
<1>2. /\ Len(frames) \in Nat \ {0} /\ s \in Seq(ResumeFrames) /\ Len(s) = Len(frames) - 1
      /\ Top \in ResumeFrames /\ Len(Top.activations) <= ActivationLimit
      /\ \A i \in 1 .. Len(s) : Len(s[i].activations) <= ActivationLimit
  BY <1>1, WhenStopped
<1>3. /\ Shape /\ Nested(s, threads, running_thread) /\ Stopped(Top, s, running_thread)
      /\ coroutine_delivery \in Threads \cup {None}
  BY <1>1 DEF Inv, Shape
<1>4. parent \in Threads /\ child \in Threads /\ Top.activations \in Seq(Threads \X Threads)
  BY <1>1, <1>2, <1>3 DEF ResumeFrames, Shape
<1>5. /\ f.activations \in Seq(Threads \X Threads)
      /\ Len(f.activations) = Len(Top.activations) + 1
      /\ f.activations[Len(Top.activations) + 1] = <<parent, child>>
      /\ \A k \in 1 .. Len(Top.activations) : f.activations[k] = Top.activations[k]
      /\ f.root = Top.root /\ f.caller = Top.caller
      /\ Len(Top.activations) \in Nat
  <2>1. f.activations = Append(Top.activations, <<parent, child>>) /\ f.root = Top.root /\ f.caller = Top.caller
    BY <1>2 DEF ResumeFrames
  <2> QED BY <1>4, <2>1, AppendProperties, LenProperties
<1>6. f \in ResumeFrames
  BY <1>2, <1>5 DEF ResumeFrames
<1>7. Len(f.activations) <= ActivationLimit
  BY <1>1, <1>2, <1>5 DEF AtActivationLimit
<1>8. \A i \in 1 .. Len(s) : s[i].current # parent /\ Apart(Top, s)
  BY <1>1, <1>3 DEF Nested, Stopped, Apart, IsAwaiting
<1>9. Apart(f, s)
  BY <1>5, <1>8 DEF Apart
<1>10. f.caller = running_thread
  BY <1>3, <1>5 DEF Stopped
<1> HIDE DEF f, s, child
<1>11. /\ Shape' /\ Len(frames') = Len(s) + 1
       /\ GuestRuns' => Nested(frames', threads', running_thread')
       /\ ~GuestRuns' => /\ Nested(Front(frames'), threads', running_thread')
                         /\ Stopped(Top', Front(frames'), running_thread')
  BY <1>1, <1>2, <1>3, <1>4, <1>6, <1>7, <1>9, <1>10, EnterInv
<1>12. Len(frames') = Len(frames) /\ ops' = ops
  BY <1>1, <1>2, <1>11 DEF Enter
<1>13. Counted'
  BY <1>1, <1>12 DEF Inv, Counted, DepthMatchesThreads, DepthMatchesStack
<1> QED BY <1>11, <1>13 DEF Inv

(* The values of a child go to the parent that was activated last.         *)
LEMMA DeliverInv == Inv /\ Deliver => Inv'
<1> SUFFICES ASSUME Inv, Deliver PROVE Inv'
  OBVIOUS
<1> USE CoroutineAssumption
<1> DEFINE s == Front(frames)
           n == Len(Top.activations)
           parent == Last(Top.activations)[1]
           f == [Top EXCEPT !.activations = Front(@)]
<1>1. /\ ~GuestRuns /\ Top.activations # <<>> /\ Top.result = "ok"
      /\ Enter(parent, Top.current, NoValues, Top.current, f, s)
      /\ coroutine_resume_depth' = coroutine_resume_depth
  BY DEF Deliver
<1>2. /\ Len(frames) \in Nat \ {0} /\ s \in Seq(ResumeFrames) /\ Len(s) = Len(frames) - 1
      /\ Top \in ResumeFrames /\ n <= ActivationLimit
      /\ \A i \in 1 .. Len(s) : Len(s[i].activations) <= ActivationLimit
  BY <1>1, WhenStopped
<1>3. Shape /\ Nested(s, threads, running_thread) /\ Stopped(Top, s, running_thread)
  BY <1>1 DEF Inv
<1>4. Top.activations \in Seq(Threads \X Threads) /\ Top.current \in Threads
  BY <1>2 DEF ResumeFrames
<1>5. /\ n \in Nat \ {0} /\ Last(Top.activations) \in Threads \X Threads
      /\ Front(Top.activations) \in Seq(Threads \X Threads) /\ Len(Front(Top.activations)) = n - 1
      /\ \A k \in 1 .. n - 1 : Front(Top.activations)[k] = Top.activations[k]
  BY <1>1, <1>4, FrontAndLast
<1>6. f.activations = Front(Top.activations) /\ f.root = Top.root /\ f.caller = Top.caller /\ f \in ResumeFrames
  BY <1>2, <1>5 DEF ResumeFrames
<1>7. parent \in Threads /\ Len(f.activations) <= ActivationLimit
  BY <1>2, <1>5, <1>6
<1>8. Apart(f, s)
  <2>1. Apart(Top, s)
    BY <1>1, <1>3 DEF Stopped
  <2>2. Len(f.activations) = n - 1 /\ \A k \in 1 .. n - 1 : f.activations[k] = Top.activations[k]
    BY <1>5, <1>6
  <2> QED BY <1>5, <1>6, <2>1, <2>2 DEF Apart
<1>9. f.caller = running_thread
  BY <1>3, <1>6 DEF Stopped
<1> HIDE DEF f, s, parent
<1>10. /\ Shape' /\ Len(frames') = Len(s) + 1
       /\ GuestRuns' => Nested(frames', threads', running_thread')
       /\ ~GuestRuns' => /\ Nested(Front(frames'), threads', running_thread')
                         /\ Stopped(Top', Front(frames'), running_thread')
  BY <1>1, <1>2, <1>3, <1>4, <1>6, <1>7, <1>8, <1>9, EnterInv
<1>11. Len(frames') = Len(frames) /\ ops' = ops
  BY <1>1, <1>2, <1>10 DEF Enter
<1>12. Counted'
  BY <1>1, <1>11 DEF Inv, Counted, DepthMatchesThreads, DepthMatchesStack
<1> QED BY <1>10, <1>12 DEF Inv

(* The other ways out of the trampoline return to the caller.              *)
LEMMA RefuseInv == Inv /\ RefuseActivation => Inv'
<1> SUFFICES ASSUME Inv, RefuseActivation PROVE Inv'
  OBVIOUS
<1>1. /\ ~GuestRuns /\ IsAwaiting(Top.current) /\ FinishFailure(Top.activations) /\ ReturnToCaller
      /\ Stopped(Top, Front(frames), running_thread) /\ Nested(Front(frames), threads, running_thread)
      /\ Top \in ResumeFrames
  BY WhenStopped DEF RefuseActivation, Inv
<1>2. Apart(Top, Front(frames))
  BY <1>1, EmptySeq DEF Stopped, Nested, Apart, IsAwaiting
<1>3. Top.activations \in Seq(Threads \X Threads)
  BY <1>1 DEF ResumeFrames
<1>4. \A a \in ToSet(Top.activations) :
         \E k \in 1 .. Len(Top.activations) : a[1] = Top.activations[k][1]
  BY <1>3, LenProperties DEF ToSet
<1> QED BY <1>1, <1>2, <1>4, FailureEndsItsOwn, ReturnInv

LEMMA PropagateInv == Inv /\ Propagate => Inv'
<1> SUFFICES ASSUME Inv, Propagate PROVE Inv'
  OBVIOUS
<1>1. /\ ~GuestRuns /\ Top.activations # <<>> /\ FinishFailure(Front(Top.activations)) /\ ReturnToCaller
      /\ Stopped(Top, Front(frames), running_thread) /\ Top \in ResumeFrames
  BY WhenStopped DEF Propagate, Inv
<1>2. Apart(Top, Front(frames))
  BY <1>1 DEF Stopped
<1>3. Top.activations \in Seq(Threads \X Threads)
  BY <1>1 DEF ResumeFrames
<1>4. \A a \in ToSet(Front(Top.activations)) :
         \E k \in 1 .. Len(Top.activations) : a[1] = Top.activations[k][1]
  <2>1. /\ Front(Top.activations) \in Seq(Threads \X Threads) /\ Len(Top.activations) \in Nat
        /\ Len(Front(Top.activations)) = Len(Top.activations) - 1
        /\ \A k \in 1 .. Len(Top.activations) - 1 : Front(Top.activations)[k] = Top.activations[k]
    BY <1>1, <1>3, FrontAndLast
  <2>2. DOMAIN Front(Top.activations) = 1 .. Len(Top.activations) - 1
    BY <2>1, LenProperties
  <2> QED BY <2>1, <2>2 DEF ToSet
<1> QED BY <1>1, <1>2, <1>4, FailureEndsItsOwn, ReturnInv

LEMMA FinishInv == Inv /\ Finish => Inv'
  BY ReturnInv DEF Finish, Inv, Shape

(* Every step keeps the invariant.                                         *)
LEMMA NextInv == Inv /\ [Next]_vars => Inv'
<1> SUFFICES ASSUME Inv, [Next]_vars PROVE Inv'
  OBVIOUS
<1> USE CoroutineAssumption
<1>1. ASSUME NEW t \in Threads, Create(t) PROVE Inv'
  BY <1>1, ChangeInv DEF Create
<1>2. ASSUME NEW t \in Threads, NEW arguments \in Args, Resume(t, arguments) PROVE Inv'
  BY <1>2, ResumeInv
<1>3. CASE ResumeNonThread
  BY <1>3, ResumeNonThreadInv
<1>4. CASE ResumeTooDeep \/ UNCHANGED vars
  <2>1. UNCHANGED vars
    BY <1>4 DEF ResumeTooDeep
  <2> QED BY <2>1 DEF vars, Inv, Shape, Counted, DepthMatchesThreads, DepthMatchesStack, GuestRuns, Top, IsAwaiting
<1>5. ASSUME NEW t \in Threads, NEW arguments \in Args, CallWrapped(t, arguments) PROVE Inv'
  <2>1. /\ GuestRuns /\ running_thread # Main /\ Leave(Awaiting(t, arguments), "ok")
    BY <1>5 DEF CallWrapped
  <2>2. /\ Awaiting(t, arguments) \in ThreadStates /\ Awaiting(t, arguments).state = "awaiting"
        /\ Awaiting(t, arguments).child \in Threads /\ Awaiting(t, arguments).arguments \in Args
    BY DEF Awaiting, ThreadStates, States
  <2> QED BY <2>1, <2>2, LeaveInv DEF Outcomes
<1>6. CASE Yield \/ Return \/ Fail
  <2>1. /\ GuestRuns /\ running_thread # Main
        /\ \E state \in {"suspended", "dead"}, result \in {"ok", "failed"} : Leave(In(state), result)
    BY <1>6 DEF Yield, Return, Fail
  <2>2. \A state \in {"suspended", "dead"} :
           In(state) \in ThreadStates /\ In(state).state = state
    BY DEF In, ThreadStates, States
  <2> QED BY <2>1, <2>2, LeaveInv DEF Outcomes
<1>7. ASSUME NEW t \in Threads, Close(t) PROVE Inv'
  BY <1>7, ChangeInv DEF Close
<1>8. CASE Drive
  BY <1>8, ActivateInv, RefuseInv, DeliverInv, PropagateInv, FinishInv DEF Drive
<1> QED BY <1>1, <1>2, <1>3, <1>4, <1>5, <1>6, <1>7, <1>8 DEF Next, Guest

(* How many of the resumes have not stopped, by the parts of Inv.          *)
LEMMA StackOfInv ==
    ASSUME Inv
    PROVE  \E n \in 0 .. Len(frames), s \in Seq(ResumeFrames) :
             /\ Len(s) = n /\ \A i \in 1 .. n : s[i] = frames[i]
             /\ Nested(s, threads, running_thread)
             /\ IF GuestRuns THEN n = Len(frames)
                ELSE n = Len(frames) - 1 /\ frames[Len(frames)].result # "none"
<1>1. frames \in Seq(ResumeFrames) /\ Len(frames) \in Nat
  BY LenProperties DEF Inv, Shape
<1>2. CASE GuestRuns
  BY <1>1, <1>2 DEF Inv
<1>3. CASE ~GuestRuns
  <2>1. frames # <<>> /\ Top.result # "none" /\ Nested(Front(frames), threads, running_thread)
    BY <1>3 DEF Inv, GuestRuns
  <2>2. /\ Len(frames) \in Nat \ {0} /\ Last(frames) = frames[Len(frames)]
        /\ Front(frames) \in Seq(ResumeFrames) /\ Len(Front(frames)) = Len(frames) - 1
        /\ \A i \in 1 .. Len(frames) - 1 : Front(frames)[i] = frames[i]
    BY <1>1, <2>1, FrontAndLast
  <2> QED BY <1>3, <2>1, <2>2 DEF Top
<1> QED BY <1>2, <1>3

LEMMA InvImpliesType == Inv => TypeOK
<1> SUFFICES ASSUME Inv PROVE TypeOK
  OBVIOUS
<1>1. \A t \in Threads :
         /\ threads[t].state \in States
         /\ IsAwaiting(t) => threads[t].child \in Threads /\ threads[t].arguments \in Args
  BY DEF Inv, Shape, ThreadStates
<1>2. \A i \in 1 .. Len(frames) : frames[i].root \in Threads /\ frames[i].current \in Threads
  BY FramesTyped DEF Inv, Shape
<1>3. \A i \in 1 .. Len(frames) : i < Len(frames) => frames[i].result = "none"
  <2> PICK n \in 0 .. Len(frames), s \in Seq(ResumeFrames) :
             /\ Len(s) = n /\ \A i \in 1 .. n : s[i] = frames[i]
             /\ Nested(s, threads, running_thread)
             /\ n = Len(frames) \/ n = Len(frames) - 1
    BY StackOfInv
  <2>1. \A i \in 1 .. n : frames[i].result = "none"
    BY DEF Nested
  <2>2. Len(frames) \in Nat
    BY LenProperties DEF Inv, Shape
  <2> QED BY <2>1, <2>2
<1>4. /\ running_thread \in Threads \cup {Main} /\ coroutine_delivery \in Threads \cup {None}
      /\ \A i \in 1 .. Len(frames) : Len(frames[i].activations) <= ActivationLimit
  BY DEF Inv, Shape
<1>5. coroutine_resume_depth \in 0 .. ResumeLimit
  BY DEF Inv, Counted
<1>6. \A i \in 1 .. Len(frames) :
         /\ frames[i].root \in Threads /\ frames[i].current \in Threads
         /\ Len(frames[i].activations) <= ActivationLimit
         /\ i < Len(frames) => frames[i].result = "none"
  BY <1>2, <1>3, <1>4
<1> QED BY <1>1, <1>4, <1>5, <1>6 DEF TypeOK

LEMMA InvImpliesSound == Inv => StackSound
<1> SUFFICES ASSUME Inv PROVE RunningMatchesStack
  BY DEF Inv, Counted, StackSound
<1> PICK n \in 0 .. Len(frames), s \in Seq(ResumeFrames) :
             /\ Len(s) = n /\ \A i \in 1 .. n : s[i] = frames[i]
             /\ Nested(s, threads, running_thread)
             /\ IF GuestRuns THEN n = Len(frames)
                ELSE n = Len(frames) - 1 /\ frames[Len(frames)].result # "none"
  BY StackOfInv
<1>1. Len(frames) \in Nat
  BY LenProperties DEF Inv, Shape
<1>2. \A i \in 1 .. n :
         /\ frames[i].result = "none" /\ threads[frames[i].current].state = "running"
         /\ frames[i].current \in Threads
  BY FramesTyped DEF Nested
<1>3. \A t \in Threads : threads[t].state = "running" => \E i \in 1 .. n : frames[i].current = t
  BY DEF Nested
<1>4. \A i, j \in 1 .. n : frames[i].current = frames[j].current => i = j
  <2>1. \A i, j \in 1 .. n : i < j => frames[i].current # frames[j].current
    BY DEF Nested
  <2> QED BY <2>1
<1>5. running_thread = IF n = 0 THEN Main ELSE frames[n].current
  <2>1. n = 0 <=> s = <<>>
    BY EmptySeq
  <2> QED BY <2>1 DEF Nested
<1> DEFINE onStack == {i \in 1 .. Len(frames) : frames[i].result = "none"}
<1>6. onStack = 1 .. n
  BY <1>1, <1>2
<1> HIDE DEF onStack
<1>7. Cardinality(onStack) = n
  <2>1. n \in Int /\ 1 \in Int /\ n >= 0
    BY <1>1
  <2>2. Cardinality(1 .. n) = IF 1 > n THEN 0 ELSE n - 1 + 1
    BY <2>1, FS_Interval
  <2>3. Cardinality(1 .. n) = n
    BY <2>1, <2>2
  <2> QED BY <1>6, <2>3
<1>8. onStack = {} <=> n = 0
  BY <1>6
<1>9. {t \in Threads : threads[t].state = "running"} = {frames[i].current : i \in onStack}
  BY <1>2, <1>3, <1>6
<1>10. \A i, j \in onStack : frames[i].current = frames[j].current => i = j
  BY <1>4, <1>6
<1>11. running_thread = IF onStack = {} THEN Main ELSE frames[Cardinality(onStack)].current
  BY <1>5, <1>7, <1>8
<1> QED BY <1>9, <1>10, <1>11 DEF onStack, RunningMatchesStack

(* The states, the resumes and the depth keep their types: no resume has   *)
(* more activations than the limit, and only the innermost can have        *)
(* stopped (drive_blu_coroutine, resume_thread).                           *)
THEOREM CoroutinesTypeCorrect == Spec => []TypeOK
<1>1. Inv /\ [Next]_vars => Inv'
  BY NextInv
<1> QED BY <1>1, InitInv, InvImpliesType, PTL DEF Spec

(* Whatever programs do, the running threads are those of the resumes in   *)
(* progress, each once, running_thread is the innermost, and the depth     *)
(* guard of resume_thread counts them as long as only threads are resumed. *)
THEOREM StackStaysSound == Spec => []StackSound
<1>1. Inv /\ [Next]_vars => Inv'
  BY NextInv
<1> QED BY <1>1, InitInv, InvImpliesSound, PTL DEF Spec

-----------------------------------------------------------------------------
(***************************************************************************)
(* Who waits for whom, in programs that nest coroutines one way only.      *)
(***************************************************************************)

(* Thread t awaits another; the one it awaits is dead already.             *)
Awaits(states, t) == states[t].state = "awaiting"
Vain(states, t) == states[states[t].child].state = "dead"

(* The threads that a resume has left awaiting, outermost first: each      *)
(* awaits the next, the last one the thread the resume is at, and the      *)
(* first is the one it was asked for.                                      *)
Parents(f) == {f.activations[i][1] : i \in 1 .. Len(f.activations)}
Chained(states, f) ==
    /\ \A i \in 1 .. Len(f.activations) :
         /\ Awaits(states, f.activations[i][1])
         /\ states[f.activations[i][1]].child =
              IF i = Len(f.activations) THEN f.current ELSE f.activations[i + 1][1]
    /\ f.root = IF f.activations = <<>> THEN f.current ELSE f.activations[1][1]

(* What the last outcome of a resume says of the thread it is at.          *)
Fits(state, result) ==
    \/ result = "none" /\ state = "running"
    \/ result = "ok" /\ state \in {"awaiting", "suspended", "dead"}
    \/ result = "failed" /\ state = "dead"
    \/ result = "empty" /\ state = "awaiting"

(* No thread is lost, and what a thread awaits was created.                *)
Kept(states) ==
    \A t \in Threads :
        /\ states[t].state # "lost"
        /\ Awaits(states, t) => states[t].child \in Threads /\ states[states[t].child].state # "absent"

(* Beside the chain of the resume in progress, threads await dead ones.    *)
OthersVain(states, chain) ==
    \A t \in Threads : Awaits(states, t) => Vain(states, t) \/ t \in chain

Driven(states, f) ==
    /\ Chained(states, f)
    /\ Fits(states[f.current].state, f.result)
    /\ OthersVain(states, Parents(f) \cup {f.current})

(* What a program uses to go from coroutine to coroutine.                  *)
ResumesNested == "nested resume" \in ops
CallsWrapped == "wrap call" \in ops

(* Programs that do not resume from coroutines: there is one resume at a   *)
(* time, and its chain is all that is active.                              *)
Called ==
    /\ Kept(threads)
    /\ Len(frames) <= 1
    /\ frames = <<>> => OthersVain(threads, {})
    /\ frames # <<>> => Driven(threads, Top)

(* Programs that call no wrapped coroutines: nobody awaits anybody.        *)
Resumed ==
    /\ \A t \in Threads : ~Awaits(threads, t)
    /\ \A i \in 1 .. Len(frames) : frames[i].activations = <<>>

OneWay ==
    /\ ~(ResumesNested /\ CallsWrapped) => coroutine_delivery = None
    /\ ~CallsWrapped => Resumed
    /\ ~ResumesNested => Called

(* The thread the resume is at is one of those that await in its chain:    *)
(* threads wait for each other in a circle.  A chain that the limit cuts   *)
(* is a circle.                                                            *)
Circle == Top.current \in Parents(Top)
RefusesCircles == RefuseActivation /\ Unmixed => Circle

-----------------------------------------------------------------------------
(* The parents of a resume, by their places.                               *)
LEMMA ParentsTyped ==
    ASSUME NEW f \in ResumeFrames
    PROVE  /\ Len(f.activations) \in Nat
           /\ f.activations = <<>> <=> Len(f.activations) = 0
           /\ \A i \in 1 .. Len(f.activations) : f.activations[i][1] \in Threads
           /\ Parents(f) \subseteq Threads
           /\ f.current \in Threads /\ f.root \in Threads
<1>1. f.activations \in Seq(Threads \X Threads) /\ f.current \in Threads /\ f.root \in Threads
  BY DEF ResumeFrames
<1>2. \A i \in 1 .. Len(f.activations) : f.activations[i] \in Threads \X Threads
  BY <1>1, ElementOfSeq
<1>3. Len(f.activations) \in Nat /\ (f.activations = <<>> <=> Len(f.activations) = 0)
  BY <1>1, EmptySeq, LenProperties
<1>4. \A i \in 1 .. Len(f.activations) : f.activations[i][1] \in Threads
  BY <1>2
<1> QED BY <1>1, <1>3, <1>4 DEF Parents

(* In a chain that ends at a thread that is not in it no thread occurs     *)
(* twice.                                                                  *)
LEMMA ChainDistinct ==
    ASSUME NEW f \in ResumeFrames, NEW states, Chained(states, f), f.current \notin Parents(f)
    PROVE  \A i, j \in 1 .. Len(f.activations) :
               f.activations[i][1] = f.activations[j][1] => i = j
<1> DEFINE n == Len(f.activations)
           p == [i \in 1 .. n |-> f.activations[i][1]]
<1>1. n \in Nat
  BY ParentsTyped
<1>2. \A i \in 1 .. n : states[p[i]].child = IF i = n THEN f.current ELSE p[i + 1]
  BY <1>1 DEF Chained
<1>3. \A i \in 1 .. n : p[i] # f.current
  BY DEF Parents
<1> SUFFICES ASSUME NEW i \in 1 .. n, NEW j \in 1 .. n, i < j, p[i] = p[j] PROVE FALSE
  <2>1. \A i, j \in 1 .. n : i < j => p[i] # p[j]
    OBVIOUS
  <2>2. \A i \in 1 .. n : p[i] = f.activations[i][1]
    OBVIOUS
  <2> HIDE DEF n, p
  <2>3. ASSUME NEW a \in 1 .. n, NEW b \in 1 .. n, f.activations[a][1] = f.activations[b][1]
        PROVE  a = b
    BY <1>1, <2>1, <2>2, <2>3
  <2> QED BY <2>3 DEF n
<1> HIDE DEF n, p
<1> DEFINE I == {k \in j .. n : p[i + (k - j)] = p[k]}
<1>4. j \in I /\ j \in Nat
  BY <1>1
<1>5. ASSUME NEW k \in j + 1 .. n, k - 1 \in I PROVE k \in I
  <2>1. /\ p[i + (k - 1 - j)] = p[k - 1] /\ k - 1 \in 1 .. n /\ k - 1 # n
        /\ i + (k - 1 - j) \in 1 .. n /\ i + (k - 1 - j) # n
        /\ k - 1 + 1 = k /\ i + (k - 1 - j) + 1 = i + (k - j)
    BY <1>1, <1>5
  <2>2. states[p[k - 1]].child = p[k] /\ states[p[i + (k - 1 - j)]].child = p[i + (k - j)]
    BY <1>2, <2>1
  <2> QED BY <1>1, <1>5, <2>1, <2>2
<1>6. n \in I
  <2> HIDE DEF I
  <2>1. \A k \in j .. n : k \in I
    BY <1>1, <1>4, <1>5, Upward
  <2> QED BY <1>1, <2>1
<1>7. /\ i + (n - j) \in 1 .. n /\ i + (n - j) # n /\ n \in 1 .. n
      /\ i + (n - j) + 1 \in 1 .. n
  BY <1>1
<1>8. states[p[n]].child = f.current /\ states[p[i + (n - j)]].child = p[i + (n - j) + 1]
  BY <1>2, <1>7
<1> QED BY <1>3, <1>6, <1>7, <1>8

(* A stack of at most one resume.                                          *)
LEMMA AtMostOne ==
    ASSUME Inv, Len(frames) <= 1, frames # <<>>
    PROVE  /\ Len(frames) = 1 /\ Top = frames[1] /\ Top \in ResumeFrames /\ Front(frames) = <<>>
<1>1. /\ frames \in Seq(ResumeFrames) /\ Len(frames) \in Nat \ {0} /\ Last(frames) = frames[Len(frames)]
      /\ Last(frames) \in ResumeFrames
      /\ Front(frames) \in Seq(ResumeFrames) /\ Len(Front(frames)) = Len(frames) - 1
  BY FrontAndLast DEF Inv, Shape
<1>2. Len(frames) = 1 /\ Len(Front(frames)) = 0
  BY <1>1
<1> QED BY <1>1, <1>2, EmptySeq DEF Top

(* coroutine.create, coroutine.close: a thread outside the chain changes.  *)
LEMMA ChangeCalled ==
    ASSUME Inv, Called, GuestRuns, NEW t \in Threads,
           threads[t].state # "running",
           frames # <<>> => t \notin Parents(Top),
           NEW state \in {"new", "dead"}, state = "new" => threads[t].state = "absent",
           threads' = [threads EXCEPT ![t] = In(state)], frames' = frames
    PROVE  Called'
<1>1. /\ threads \in [Threads -> ThreadStates]
      /\ \A u \in Threads : Awaits(threads, u) => threads[u].child \in Threads
  BY DEF Inv, Shape, IsAwaiting, Awaits
<1>2. /\ \A u \in Threads : u # t => threads'[u] = threads[u]
      /\ threads'[t].state = state
  BY <1>1 DEF In
<1>3. Kept(threads')
  BY <1>1, <1>2 DEF Kept, Called, Awaits
<1>4. ASSUME NEW chain, OthersVain(threads, chain) PROVE OthersVain(threads', chain)
  BY <1>1, <1>2, <1>4 DEF OthersVain, Vain, Awaits
<1>5. CASE frames = <<>>
  BY <1>3, <1>4, <1>5 DEF Called
<1>6. CASE frames # <<>>
  <2>1. Driven(threads, Top) /\ Top \in ResumeFrames /\ Top.result = "none" /\ Len(frames) <= 1
    BY <1>6, AtMostOne DEF Called, GuestRuns
  <2>2. Top.current # t /\ Top.current \in Threads
    BY <2>1, ParentsTyped DEF Driven, Fits
  <2>3. \A i \in 1 .. Len(Top.activations) : Top.activations[i][1] \in Threads /\ Top.activations[i][1] # t
    BY <1>6, <2>1, ParentsTyped DEF Parents
  <2>4. Chained(threads', Top)
    BY <1>2, <2>1, <2>3 DEF Driven, Chained, Awaits
  <2>5. Driven(threads', Top)
    BY <1>2, <1>4, <2>1, <2>2, <2>4 DEF Driven
  <2>6. Top' = Top
    BY DEF Top
  <2> QED BY <1>3, <1>6, <2>1, <2>5, <2>6 DEF Called
<1> QED BY <1>5, <1>6

(* The running thread stops.                                               *)
LEMMA LeaveCalled ==
    ASSUME Inv, Called, GuestRuns, running_thread # Main, NEW state, NEW result,
           Leave(state, result), Fits(state.state, result), result # "none", result # "empty",
           state.state = "awaiting" => state.child \in Threads /\ threads[state.child].state # "absent"
    PROVE  Called'
<1> USE CoroutineAssumption
<1>1. /\ Nested(frames, threads, running_thread) /\ frames \in Seq(ResumeFrames)
      /\ threads \in [Threads -> ThreadStates]
      /\ \A u \in Threads : Awaits(threads, u) => threads[u].child \in Threads
  BY DEF Inv, Shape, IsAwaiting, Awaits
<1>2. frames # <<>>
  BY <1>1 DEF Nested
<1>3. Len(frames) = 1 /\ Top = frames[1] /\ Top \in ResumeFrames /\ Driven(threads, Top)
  BY <1>2, AtMostOne DEF Called
<1>4. running_thread = Top.current /\ threads[Top.current].state = "running"
  BY <1>1, <1>2, <1>3 DEF Nested
<1>5. Top.current \in Threads /\ \A i \in 1 .. Len(Top.activations) : Top.activations[i][1] \in Threads
  BY <1>3, ParentsTyped
<1>6. /\ \A u \in Threads : u # Top.current => threads'[u] = threads[u]
      /\ threads'[Top.current] = state
      /\ frames' = [frames EXCEPT ![1].result = result]
  BY <1>1, <1>3, <1>4, <1>5 DEF Leave
<1>7. Len(frames') = 1 /\ frames' # <<>> /\ Top' = [Top EXCEPT !.result = result]
  <2>1. frames' = [frames EXCEPT ![1] = [Top EXCEPT !.result = result]]
    BY <1>3, <1>6
  <2>2. Len(frames') = 1 /\ frames'[1] = [Top EXCEPT !.result = result]
    BY <1>1, <1>3, <2>1
  <2> QED BY <2>2 DEF Top, Last
<1>8. /\ Top'.current = Top.current /\ Top'.root = Top.root
      /\ Top'.activations = Top.activations /\ Top'.result = result
  BY <1>3, <1>7 DEF ResumeFrames
<1>9. Kept(threads')
  <2>1. state.state # "lost" /\ state.state # "absent"
    BY DEF Fits
  <2>2. Awaits(threads', Top.current) => state.child \in Threads /\ threads[state.child].state # "absent"
    BY <1>6 DEF Awaits
  <2> QED BY <1>1, <1>4, <1>6, <2>1, <2>2 DEF Kept, Called, Awaits
<1>10. \A i \in 1 .. Len(Top.activations) : Top.activations[i][1] # Top.current
  BY <1>3, <1>4 DEF Driven, Chained, Awaits
<1>11. Chained(threads', Top')
  BY <1>3, <1>5, <1>6, <1>8, <1>10 DEF Driven, Chained, Awaits
<1>12. OthersVain(threads', Parents(Top') \cup {Top'.current})
  <2>1. Parents(Top') = Parents(Top)
    BY <1>8 DEF Parents
  <2>2. OthersVain(threads, Parents(Top) \cup {Top.current})
    BY <1>3 DEF Driven
  <2> HIDE DEF Parents
  <2> QED BY <1>1, <1>4, <1>6, <1>8, <2>1, <2>2 DEF OthersVain, Vain, Awaits
<1> QED BY <1>6, <1>7, <1>8, <1>9, <1>11, <1>12 DEF Called, Driven

(* resume_thread_inner, with nothing below the resume f.                   *)
LEMMA EnterCalled ==
    ASSUME Inv, Called, NEW t \in Threads, threads[t].state \notin {"absent", "running"},
           NEW f \in ResumeFrames, NEW delivery, NEW passed, NEW meant,
           Enter(t, delivery, passed, meant, f, <<>>),
           delivery = None \/ (Awaits(threads, t) /\ t \notin Parents(f)),
           Chained(threads, [f EXCEPT !.current = t]),
           OthersVain(threads, Parents(f) \cup {t})
    PROVE  Called' /\ coroutine_delivery' = None
<1> DEFINE outcome == Outcome(t, delivery)
           g == [f EXCEPT !.current = t, !.result = outcome]
<1>1. /\ threads \in [Threads -> ThreadStates] /\ Kept(threads)
      /\ \A u \in Threads : Awaits(threads, u) => threads[u].child \in Threads
      /\ \A u \in Threads : threads[u].state \in States
  BY DEF Inv, Shape, IsAwaiting, Awaits, Called, ThreadStates
<1>2. threads[t].state \in {"new", "suspended", "awaiting", "dead"}
  BY <1>1 DEF Kept, States
<1>3. /\ threads[t].state = "dead" => outcome = "failed"
      /\ Awaits(threads, t) => outcome = IF delivery = None THEN "empty" ELSE "none"
      /\ threads[t].state \in {"new", "suspended"} => outcome = "none"
  BY <1>2 DEF Outcome, IsAwaiting, Awaits
<1>4. /\ frames' = Append(<<>>, g)
      /\ threads' = [threads EXCEPT ![t] = IF outcome = "none" THEN In("running") ELSE @]
  BY <1>2, <1>3 DEF Enter, Awaits
<1>5. coroutine_delivery' = None
  BY <1>2 DEF Enter, TakesDelivery, Awaits
<1>6. /\ g.root = f.root /\ g.activations = f.activations /\ g.current = t /\ g.result = outcome
  BY DEF ResumeFrames
<1> HIDE DEF outcome, g
<1>7. Len(frames') = 1 /\ frames' # <<>> /\ Top' = g
  <2>1. frames' = <<g>>
    BY <1>4
  <2> QED BY <2>1 DEF Top, Last
<1>8. /\ \A u \in Threads : u # t => threads'[u] = threads[u]
      /\ outcome = "none" => threads'[t].state = "running"
      /\ outcome # "none" => threads'[t] = threads[t]
  BY <1>1, <1>4 DEF In
<1>9. Kept(threads')
  BY <1>1, <1>8 DEF Kept, Awaits
<1>10. outcome = "none" => \A i \in 1 .. Len(f.activations) : f.activations[i][1] # t
  <2>1. CASE Awaits(threads, t)
    BY <1>3, <2>1 DEF Parents
  <2>2. CASE ~Awaits(threads, t)
    BY <2>2 DEF Chained, ResumeFrames
  <2> QED BY <2>1, <2>2
<1>11. Chained(threads', g)
  <2>1. /\ \A i \in 1 .. Len(f.activations) :
           /\ Awaits(threads, f.activations[i][1])
           /\ threads[f.activations[i][1]].child =
                IF i = Len(f.activations) THEN t ELSE f.activations[i + 1][1]
        /\ f.root = IF f.activations = <<>> THEN t ELSE f.activations[1][1]
    BY DEF Chained, ResumeFrames
  <2>2. \A i \in 1 .. Len(f.activations) :
           f.activations[i][1] \in Threads /\ threads'[f.activations[i][1]] = threads[f.activations[i][1]]
    BY <1>8, <1>10, ParentsTyped
  <2> QED BY <1>6, <2>1, <2>2 DEF Chained, Awaits
<1>12. OthersVain(threads', Parents(g) \cup {t})
  <2>1. Parents(g) = Parents(f)
    BY <1>6 DEF Parents
  <2>2. outcome = "none" => threads[t].state # "dead"
    BY <1>3
  <2> HIDE DEF Parents
  <2> QED BY <1>1, <1>8, <2>1, <2>2 DEF OthersVain, Vain, Awaits
<1>13. Fits(threads'[t].state, outcome)
  <2>1. \/ outcome = "none"
        \/ outcome = "failed" /\ threads[t].state = "dead"
        \/ outcome = "empty" /\ threads[t].state = "awaiting"
    BY <1>2, <1>3 DEF Awaits
  <2> QED BY <1>8, <2>1 DEF Fits
<1>14. Driven(threads', g)
  BY <1>6, <1>11, <1>12, <1>13 DEF Driven
<1> QED BY <1>5, <1>7, <1>9, <1>14 DEF Called

(* A thread is resumed from the main program.                              *)
LEMMA ResumeCalled ==
    ASSUME Inv, Called, NEW t \in Threads, NEW arguments \in Args, Resume(t, arguments),
           ~ResumesNested, coroutine_delivery = None
    PROVE  Called' /\ coroutine_delivery' = None
<1> USE CoroutineAssumption
<1> DEFINE f == NewFrame(t, arguments)
<1>1. /\ Nested(frames, threads, running_thread) /\ running_thread = Main /\ threads[t].state # "absent"
      /\ frames \in Seq(ResumeFrames)
  BY Zenon DEF Resume, Inv, Shape, ResumesNested
<1>0. Enter(t, coroutine_delivery, arguments, arguments, f, frames)
  BY Zenon DEF Resume
<1>2. frames = <<>>
  <2> SUFFICES ASSUME frames # <<>> PROVE FALSE
    OBVIOUS
  <2>1. frames[Len(frames)] \in ResumeFrames
    BY <1>1, FrontAndLast
  <2>2. running_thread = frames[Len(frames)].current
    BY <1>1, Zenon DEF Nested
  <2> QED BY <1>1, <2>1, <2>2 DEF ResumeFrames
<1>3. threads[t].state # "running"
  <2>1. Len(frames) = 0
    BY <1>2
  <2> QED BY <1>1, <2>1 DEF Nested
<1>4. /\ f \in ResumeFrames /\ f.root = t /\ f.activations = <<>>
      /\ Parents(f) = {}
  <2>1. f \in ResumeFrames /\ f.root = t /\ f.activations = <<>>
    BY EmptySeq DEF NewFrame, ResumeFrames, Outcomes, Inv, Shape
  <2>2. Len(f.activations) = 0
    BY <2>1
  <2> HIDE DEF f
  <2> QED BY <2>1, <2>2 DEF Parents
<1> HIDE DEF f
<1>5. Chained(threads, [f EXCEPT !.current = t])
  <2> DEFINE g == [f EXCEPT !.current = t]
  <2>1. g.current = t /\ g.root = t /\ g.activations = <<>> /\ Len(g.activations) = 0
    BY <1>4 DEF ResumeFrames
  <2> HIDE DEF g
  <2>2. Chained(threads, g)
    BY <2>1 DEF Chained
  <2> QED BY <2>2 DEF g
<1>6. OthersVain(threads, Parents(f) \cup {t})
  BY <1>2, <1>4 DEF Called, OthersVain
<1>7. Enter(t, coroutine_delivery, arguments, arguments, f, <<>>)
  BY <1>0, <1>2
<1> QED BY <1>1, <1>3, <1>4, <1>5, <1>6, <1>7, EnterCalled

(* The trampoline.  What holds when it runs, below.                        *)
LEMMA WhenDriven ==
    ASSUME Inv, Called, ~GuestRuns
    PROVE  /\ frames # <<>> /\ Len(frames) = 1 /\ Front(frames) = <<>>
           /\ Top \in ResumeFrames /\ Driven(threads, Top) /\ Top.result # "none"
           /\ \A t \in Threads : threads[t].state # "running"
<1>1. frames # <<>> /\ Top.result # "none" /\ Nested(Front(frames), threads, running_thread)
  BY DEF GuestRuns, Inv
<1>2. Len(frames) = 1 /\ Front(frames) = <<>> /\ Top \in ResumeFrames /\ Driven(threads, Top)
  BY <1>1, AtMostOne DEF Called
<1>3. \A t \in Threads : threads[t].state # "running"
  BY <1>1, <1>2, EmptySeq DEF Nested
<1> QED BY <1>1, <1>2, <1>3

LEMMA ActivateCalled ==
    ASSUME Inv, Called, Activate, coroutine_delivery = None
    PROVE  Called' /\ coroutine_delivery' = None
<1> DEFINE parent == Top.current
           child == threads[parent].child
           n == Len(Top.activations)
           f == [Top EXCEPT !.activations = Append(@, <<parent, child>>)]
           g == [f EXCEPT !.current = child]
<1>1. /\ ~GuestRuns /\ Awaits(threads, parent)
      /\ Enter(child, coroutine_delivery, ChildArguments(child), threads[parent].arguments, f, Front(frames))
  BY DEF Activate, IsAwaiting, Awaits
<1>2. /\ Top \in ResumeFrames /\ Driven(threads, Top) /\ Front(frames) = <<>>
      /\ \A t \in Threads : threads[t].state # "running"
  BY <1>1, WhenDriven
<1>3. parent \in Threads /\ Top.activations \in Seq(Threads \X Threads)
  BY <1>2 DEF ResumeFrames
<1>4. child \in Threads /\ threads[child].state # "absent"
  BY <1>1, <1>3 DEF Called, Kept
<1>5. /\ f.activations \in Seq(Threads \X Threads) /\ f.root = Top.root
      /\ n \in Nat /\ Len(f.activations) = n + 1
      /\ f.activations[n + 1] = <<parent, child>>
      /\ \A k \in 1 .. n : f.activations[k] = Top.activations[k]
      /\ f \in ResumeFrames
  <2>1. f.activations = Append(Top.activations, <<parent, child>>) /\ f.root = Top.root
    BY <1>2 DEF ResumeFrames
  <2>2. f.activations \in Seq(Threads \X Threads)
    BY <1>3, <1>4, <2>1, AppendProperties
  <2>3. f \in ResumeFrames
    BY <1>2, <2>1, <2>2 DEF ResumeFrames
  <2>4. /\ n \in Nat /\ Len(f.activations) = n + 1
        /\ f.activations[n + 1] = <<parent, child>>
        /\ \A k \in 1 .. n : f.activations[k] = Top.activations[k]
    <3> HIDE DEF f, child
    <3> QED BY <1>3, <1>4, <2>1, AppendProperties, LenProperties
  <2> QED BY <2>1, <2>2, <2>3, <2>4
<1>6. g.activations = f.activations /\ g.root = f.root /\ g.current = child
  BY <1>5 DEF ResumeFrames
<1>7. /\ \A i \in 1 .. n :
            /\ Awaits(threads, Top.activations[i][1])
            /\ threads[Top.activations[i][1]].child = IF i = n THEN parent ELSE Top.activations[i + 1][1]
      /\ Top.root = IF n = 0 THEN parent ELSE Top.activations[1][1]
  BY <1>2, ParentsTyped DEF Driven, Chained
<1> DEFINE q(i) == f.activations[i][1]
<1>8. q(n + 1) = parent /\ \A i \in 1 .. n : q(i) = Top.activations[i][1]
  BY <1>5
<1>9. Parents(f) = Parents(Top) \cup {parent}
  BY <1>5, <1>8 DEF Parents
<1> HIDE DEF n, f, g, child, parent
<1>10. Chained(threads, g)
  <2>1. f.activations # <<>> /\ f.root = q(1)
    BY <1>5, <1>7, <1>8, EmptySeq
  <2>2. \A i \in 1 .. n + 1 :
           /\ Awaits(threads, q(i))
           /\ threads[q(i)].child = IF i = n + 1 THEN child ELSE q(i + 1)
    <3>1. threads[q(n + 1)].child = child
      BY <1>8 DEF child
    <3>2. ASSUME NEW i \in 1 .. n
          PROVE  Awaits(threads, q(i)) /\ threads[q(i)].child = q(i + 1)
      BY <1>5, <1>7, <1>8
    <3>3. ASSUME NEW i \in 1 .. n + 1
          PROVE  /\ Awaits(threads, q(i))
                 /\ threads[q(i)].child = IF i = n + 1 THEN child ELSE q(i + 1)
      <4>1. CASE i = n + 1
        BY <1>1, <1>8, <3>1, <4>1
      <4>2. CASE i # n + 1
        BY <1>5, <3>2, <4>2
      <4> QED BY <4>1, <4>2
    <3> QED BY <3>3
  <2> QED BY <1>5, <1>6, <2>1, <2>2 DEF Chained
<1>11. OthersVain(threads, Parents(f) \cup {child})
  BY <1>2, <1>9 DEF Driven, OthersVain, parent
<1>12. Enter(child, coroutine_delivery, ChildArguments(child), threads[parent].arguments, f, <<>>)
  BY <1>1, <1>2
<1>13. threads[child].state # "running"
  BY <1>2, <1>4
<1> QED BY <1>4, <1>5, <1>10, <1>11, <1>12, <1>13, EnterCalled DEF g

LEMMA DeliverCalled ==
    ASSUME Inv, Called, Deliver
    PROVE  Called' /\ coroutine_delivery' = None
<1> USE CoroutineAssumption
<1> DEFINE n == Len(Top.activations)
           parent == Last(Top.activations)[1]
           f == [Top EXCEPT !.activations = Front(@)]
           g == [f EXCEPT !.current = parent]
<1>1. /\ ~GuestRuns /\ ~Awaits(threads, Top.current) /\ Top.activations # <<>>
      /\ Enter(parent, Top.current, NoValues, Top.current, f, Front(frames))
  BY DEF Deliver, IsAwaiting, Awaits
<1>2. /\ Top \in ResumeFrames /\ Driven(threads, Top) /\ Front(frames) = <<>>
  BY <1>1, WhenDriven
<1>3. Top.activations \in Seq(Threads \X Threads) /\ Top.current \in Threads
  BY <1>2 DEF ResumeFrames
<1>4. /\ n \in Nat \ {0} /\ Last(Top.activations) = Top.activations[n]
      /\ Front(Top.activations) \in Seq(Threads \X Threads) /\ Len(Front(Top.activations)) = n - 1
      /\ \A k \in 1 .. n - 1 : Front(Top.activations)[k] = Top.activations[k]
  BY <1>1, <1>3, FrontAndLast
<1>5. /\ f.activations = Front(Top.activations) /\ f.root = Top.root /\ f \in ResumeFrames
      /\ g.activations = f.activations /\ g.root = f.root /\ g.current = parent
  BY <1>2, <1>4 DEF ResumeFrames
<1> HIDE DEF f, g
<1> DEFINE q(i) == Top.activations[i][1]
<1>6. /\ \A i \in 1 .. n :
            /\ Awaits(threads, q(i))
            /\ threads[q(i)].child = IF i = n THEN Top.current ELSE q(i + 1)
      /\ Top.root = q(1)
  BY <1>1, <1>2 DEF Driven, Chained
<1>7. Top.current \notin Parents(Top)
  BY <1>1, <1>6 DEF Parents
<1>8. \A i, j \in 1 .. n : q(i) = q(j) => i = j
  BY <1>2, <1>7, ChainDistinct DEF Driven
<1>9. parent = q(n) /\ n \in 1 .. n /\ \A k \in 1 .. n - 1 : f.activations[k][1] = q(k) /\ k \in 1 .. n /\ k # n
  BY <1>4, <1>5
<1>10. Parents(f) = {q(k) : k \in 1 .. n - 1} /\ parent \notin Parents(f)
  <2>1. Parents(f) = {q(k) : k \in 1 .. n - 1}
    <3>1. Len(f.activations) = n - 1 /\ \A k \in 1 .. n - 1 : f.activations[k][1] = q(k)
      BY <1>4, <1>5, <1>9
    <3> HIDE DEF q, n
    <3> QED BY <3>1 DEF Parents
  <2> HIDE DEF q, n, parent
  <2> QED BY <1>8, <1>9, <2>1
<1>11. parent \in Threads /\ Awaits(threads, parent)
  BY <1>2, <1>6, <1>9, ParentsTyped
<1>12. Chained(threads, g)
  <2>1. g.root = IF g.activations = <<>> THEN parent ELSE g.activations[1][1]
    <3>1. n = 1 => g.activations = <<>>
      BY <1>4, <1>5, EmptySeq
    <3>2. n # 1 => g.activations # <<>> /\ g.activations[1][1] = q(1)
      <4>1. n - 1 \in Nat /\ Len(g.activations) = n - 1
        BY <1>4, <1>5
      <4>2. g.activations[1][1] = q(1) \/ n = 1
        <5>0. n \in Nat \ {0}
          BY <1>4
        <5> HIDE DEF n, q
        <5>1. n = 1 \/ 1 \in 1 .. n - 1
          BY <5>0
        <5> QED BY <1>5, <1>9, <5>1
      <4>3. g.activations = <<>> => n - 1 = 0
        BY <4>1, EmptySeq
      <4> HIDE DEF n, q
      <4> QED BY <1>4, <4>2, <4>3
    <3> HIDE DEF n, parent, q
    <3> QED BY <1>5, <1>6, <1>9, <3>1, <3>2
  <2>2. ASSUME NEW i \in 1 .. n - 1
        PROVE  /\ Awaits(threads, g.activations[i][1])
               /\ threads[g.activations[i][1]].child = IF i = n - 1 THEN parent ELSE g.activations[i + 1][1]
    <3>1. g.activations[i][1] = q(i) /\ Awaits(threads, q(i)) /\ threads[q(i)].child = q(i + 1)
      BY <1>5, <1>6, <1>9
    <3>2. CASE i = n - 1
      BY <1>4, <1>9, <3>1, <3>2
    <3>3. CASE i # n - 1
      <4>1. i + 1 \in 1 .. n - 1
        BY <1>4, <3>3
      <4> QED BY <1>5, <1>9, <3>1, <3>3, <4>1
    <3> QED BY <3>2, <3>3
  <2>3. Len(g.activations) = n - 1
    BY <1>4, <1>5
  <2> HIDE DEF n, parent, q
  <2> QED BY <1>5, <2>1, <2>2, <2>3 DEF Chained
<1>13. OthersVain(threads, Parents(f) \cup {parent})
  <2>1. \A t \in Parents(Top) : t \in Parents(f) \cup {parent}
    <3>1. \A k \in 1 .. n : k = n \/ k \in 1 .. n - 1
      BY <1>4
    <3>2. \A k \in 1 .. n : q(k) \in Parents(f) \cup {parent}
      BY <1>9, <1>10, <3>1
    <3> QED BY <3>2 DEF Parents
  <2>2. OthersVain(threads, Parents(Top) \cup {Top.current})
    BY <1>2 DEF Driven
  <2> HIDE DEF parent
  <2> QED BY <1>1, <2>1, <2>2 DEF OthersVain
<1>14. Enter(parent, Top.current, NoValues, Top.current, f, <<>>)
  BY <1>1, <1>2
<1>15. threads[parent].state \notin {"absent", "running"}
  BY <1>11 DEF Awaits
<1> HIDE DEF parent
<1> QED BY <1>5, <1>10, <1>11, <1>12, <1>13, <1>14, <1>15, EnterCalled DEF g

(* The trampoline returns and the threads that still awaited somebody      *)
(* alive are dead.                                                         *)
LEMMA ReturnCalled ==
    ASSUME Inv, Called, ~GuestRuns, ReturnToCaller,
           NEW D, threads' = [t \in Threads |-> IF t \in D THEN In("dead") ELSE threads[t]],
           \A t \in (Parents(Top) \cup {Top.current}) \ D :
               Awaits(threads, t) => threads[threads[t].child].state = "dead" \/ threads[t].child \in D
    PROVE  Called'
<1>1. /\ threads \in [Threads -> ThreadStates] /\ Kept(threads)
      /\ \A u \in Threads : Awaits(threads, u) => threads[u].child \in Threads
  BY DEF Inv, Shape, IsAwaiting, Awaits, Called
<1>2. frames' = <<>> /\ Driven(threads, Top)
  BY WhenDriven DEF ReturnToCaller
<1>3. \A t \in Threads : IF t \in D THEN threads'[t].state = "dead" ELSE threads'[t] = threads[t]
  BY DEF In
<1>4. OthersVain(threads', {})
  <2> SUFFICES ASSUME NEW t \in Threads, Awaits(threads', t) PROVE Vain(threads', t)
    BY DEF OthersVain
  <2>1. t \notin D /\ threads'[t] = threads[t] /\ Awaits(threads, t)
    BY <1>3 DEF Awaits
  <2>2. Vain(threads, t) \/ t \in Parents(Top) \cup {Top.current}
    BY <1>2, <2>1 DEF Driven, OthersVain
  <2>3. threads[threads[t].child].state = "dead" \/ threads[t].child \in D
    BY <2>1, <2>2 DEF Vain
  <2> QED BY <1>1, <1>3, <2>1, <2>3 DEF Vain
<1>5. Kept(threads')
  BY <1>1, <1>3 DEF Kept, Awaits
<1> QED BY <1>2, <1>4, <1>5, EmptySeq DEF Called

LEMMA RefuseCalled ==
    ASSUME Inv, Called, RefuseActivation, Circle
    PROVE  Called'
<1> DEFINE D == {t \in Threads : t = Top.root \/ \E a \in ToSet(Top.activations) : t = a[1]}
<1>1. /\ ~GuestRuns /\ ReturnToCaller
      /\ threads' = [t \in Threads |-> IF t \in D THEN In("dead") ELSE threads[t]]
  BY DEF RefuseActivation, FinishFailure
<1>2. Top \in ResumeFrames
  BY <1>1, WhenDriven
<1>3. Parents(Top) \subseteq D
  <2>1. Top.activations \in Seq(Threads \X Threads)
    BY <1>2 DEF ResumeFrames
  <2>2. \A i \in 1 .. Len(Top.activations) :
           Top.activations[i] \in ToSet(Top.activations) /\ Top.activations[i][1] \in Threads
    BY <1>2, <2>1, LenProperties, ParentsTyped DEF ToSet
  <2> QED BY <2>2 DEF Parents
<1> HIDE DEF D
<1> QED BY <1>1, <1>3, ReturnCalled DEF Circle

LEMMA PropagateCalled ==
    ASSUME Inv, Called, Propagate
    PROVE  Called'
<1> DEFINE n == Len(Top.activations)
           D == {t \in Threads : t = Top.root \/ \E a \in ToSet(Front(Top.activations)) : t = a[1]}
<1>1. /\ ~GuestRuns /\ ReturnToCaller /\ ~Awaits(threads, Top.current)
      /\ Top.activations # <<>> /\ Top.result = "failed"
      /\ threads' = [t \in Threads |-> IF t \in D THEN In("dead") ELSE threads[t]]
  BY DEF Propagate, FinishFailure, IsAwaiting, Awaits
<1>2. Top \in ResumeFrames /\ Driven(threads, Top)
  BY <1>1, WhenDriven
<1>3. Top.activations \in Seq(Threads \X Threads)
  BY <1>2 DEF ResumeFrames
<1>4. /\ n \in Nat \ {0}
      /\ Front(Top.activations) \in Seq(Threads \X Threads) /\ Len(Front(Top.activations)) = n - 1
      /\ \A k \in 1 .. n - 1 : Front(Top.activations)[k] = Top.activations[k]
  BY <1>1, <1>3, FrontAndLast
<1>5. \A k \in 1 .. n - 1 : Top.activations[k][1] \in D
  <2>1. DOMAIN Front(Top.activations) = 1 .. n - 1
    BY <1>4, LenProperties
  <2>2. \A k \in 1 .. n - 1 : Top.activations[k] \in ToSet(Front(Top.activations))
    <3> DEFINE u == Front(Top.activations)
    <3>1. DOMAIN u = 1 .. n - 1 /\ \A k \in 1 .. n - 1 : u[k] = Top.activations[k]
      BY <1>4, <2>1
    <3> HIDE DEF u, n
    <3>2. \A k \in 1 .. n - 1 : u[k] \in ToSet(u)
      BY <3>1 DEF ToSet
    <3> QED BY <3>1, <3>2 DEF u
  <2>3. \A k \in 1 .. n - 1 : k \in 1 .. n
    BY <1>4
  <2> QED BY <1>2, <2>2, <2>3, ParentsTyped
<1>6. threads[Top.current].state = "dead"
  BY <1>1, <1>2 DEF Driven, Fits
<1>7. \A t \in (Parents(Top) \cup {Top.current}) \ D :
         Awaits(threads, t) => threads[threads[t].child].state = "dead" \/ threads[t].child \in D
  <2> SUFFICES ASSUME NEW i \in 1 .. n, Top.activations[i][1] \notin D
               PROVE  threads[threads[Top.activations[i][1]].child].state = "dead"
    BY <1>1 DEF Parents
  <2>1. i = n
    BY <1>4, <1>5
  <2> QED BY <1>2, <1>6, <2>1 DEF Driven, Chained
<1> HIDE DEF D
<1> QED BY <1>1, <1>7, ReturnCalled

LEMMA FinishCalled ==
    ASSUME Inv, Called, Finish
    PROVE  Called'
<1>1. /\ ~GuestRuns /\ ReturnToCaller /\ ~Awaits(threads, Top.current)
      /\ Top.activations = <<>> \/ Top.result = "error"
      /\ threads' = threads
  BY DEF Finish, IsAwaiting, Awaits
<1>2. Top \in ResumeFrames /\ Driven(threads, Top)
  BY <1>1, WhenDriven
<1>3. Len(Top.activations) = 0
  BY <1>1, <1>2, ParentsTyped DEF Driven, Fits
<1>4. Parents(Top) = {}
  BY <1>3 DEF Parents
<1>5. threads' = [t \in Threads |-> IF t \in {} THEN In("dead") ELSE threads[t]]
  BY <1>1 DEF Inv, Shape
<1> QED BY <1>1, <1>4, <1>5, ReturnCalled

(* Programs that call no wrapped coroutine.                                *)
LEMMA ResumedStep ==
    ASSUME Inv, Resumed, coroutine_delivery = None, ~CallsWrapped, [Next]_vars
    PROVE  Resumed' /\ coroutine_delivery' = None
<1> USE CoroutineAssumption
<1>1. /\ threads \in [Threads -> ThreadStates] /\ frames \in Seq(ResumeFrames) /\ Len(frames) \in Nat
      /\ \A t \in Threads : ~Awaits(threads, t)
      /\ \A i \in 1 .. Len(frames) : frames[i].activations = <<>>
  BY LenProperties DEF Inv, Shape, Resumed
<1>2. ASSUME ~GuestRuns
      PROVE  ~Awaits(threads, Top.current) /\ Top.activations = <<>>
             /\ \A i \in 1 .. Len(Front(frames)) : Front(frames)[i].activations = <<>>
  <2>1. /\ frames # <<>> /\ Len(frames) \in Nat \ {0} /\ Last(frames) = frames[Len(frames)]
        /\ Top \in ResumeFrames /\ Len(Front(frames)) = Len(frames) - 1
        /\ \A i \in 1 .. Len(frames) - 1 : Front(frames)[i] = frames[i]
    BY <1>1, <1>2, WhenStopped, FrontAndLast
  <2>2. Top.activations = <<>> /\ \A i \in 1 .. Len(Front(frames)) : Front(frames)[i].activations = <<>>
    BY <1>1, <2>1 DEF Top
  <2> QED BY <1>1, <2>1, <2>2 DEF ResumeFrames
<1>3. ASSUME frames' = frames, coroutine_delivery' = None,
             NEW t \in Threads, NEW state, threads' = [threads EXCEPT ![t] = In(state)], state # "awaiting"
      PROVE  Resumed' /\ coroutine_delivery' = None
  BY <1>1, <1>3 DEF Resumed, Awaits, In
<1>4. ASSUME NEW t \in Threads, Create(t) \/ Close(t) PROVE Resumed' /\ coroutine_delivery' = None
  BY <1>3, <1>4 DEF Create, Close
<1>5. ASSUME NEW t \in Threads, NEW arguments \in Args, Resume(t, arguments)
      PROVE  Resumed' /\ coroutine_delivery' = None
  <2> DEFINE f == NewFrame(t, arguments)
             outcome == Outcome(t, None)
             g == [f EXCEPT !.current = t, !.result = outcome]
  <2>1. Enter(t, None, arguments, arguments, f, frames)
    BY <1>5, Zenon DEF Resume
  <2>2. g.activations = <<>>
    BY DEF NewFrame
  <2> HIDE DEF f, g, outcome
  <2>3. /\ frames' = Append(frames, g)
        /\ threads' = [threads EXCEPT ![t] =
                IF outcome = "none" THEN In("running")
                ELSE IF outcome = "error" /\ TakesDelivery(t) THEN In("lost") ELSE @]
        /\ coroutine_delivery' = None
    BY <2>1 DEF Enter, g, outcome
  <2>4. \A i \in 1 .. Len(frames') : frames'[i].activations = <<>>
    BY <1>1, <2>2, <2>3
  <2>5. \A u \in Threads : ~Awaits(threads', u)
    BY <1>1, <2>3 DEF Awaits, In
  <2> QED BY <2>3, <2>4, <2>5 DEF Resumed
<1>6. CASE ResumeNonThread \/ ResumeTooDeep \/ UNCHANGED vars
  <2>1. frames' = frames /\ threads' = threads /\ coroutine_delivery' = coroutine_delivery
    BY <1>6, Zenon DEF ResumeNonThread, ResumeTooDeep, vars
  <2> QED BY <1>1, <2>1 DEF Resumed
<1>7. CASE Yield \/ Return \/ Fail
  <2>1. PICK state \in {"suspended", "dead"}, result \in {"ok", "failed"} : Leave(In(state), result)
    BY <1>7 DEF Yield, Return, Fail
  <2>2. /\ threads' = [threads EXCEPT ![running_thread] = In(state)]
        /\ frames' = [frames EXCEPT ![Len(frames)].result = result]
        /\ coroutine_delivery' = None
    BY <2>1 DEF Leave
  <2>3. \A i \in 1 .. Len(frames') : frames'[i].activations = <<>>
    <3>1. Len(frames') = Len(frames) /\ DOMAIN frames = 1 .. Len(frames)
      BY <1>1, <2>2
    <3>2. ASSUME NEW i \in 1 .. Len(frames) PROVE frames'[i].activations = frames[i].activations
      <4>1. frames[i] \in ResumeFrames
        BY <1>1, ElementOfSeq
      <4> QED BY <2>2, <3>1, <4>1 DEF ResumeFrames
    <3> QED BY <1>1, <3>1, <3>2
  <2>4. \A u \in Threads : ~Awaits(threads', u)
    BY <1>1, <2>2 DEF Awaits, In
  <2> QED BY <2>2, <2>3, <2>4 DEF Resumed
<1>8. CASE Drive
  <2>1. ~GuestRuns
    BY <1>8 DEF Drive, Activate, RefuseActivation, Deliver, Propagate, Finish
  <2>2. Finish
    BY <1>2, <1>8, <2>1 DEF Drive, Activate, RefuseActivation, Deliver, Propagate, IsAwaiting, Awaits
  <2>3. frames' = Front(frames) /\ threads' = threads /\ coroutine_delivery' = None
    BY <2>2 DEF Finish, ReturnToCaller
  <2> QED BY <1>1, <1>2, <2>1, <2>3 DEF Resumed
<1>9. ASSUME NEW t \in Threads, NEW arguments \in Args, CallWrapped(t, arguments) PROVE FALSE
  BY <1>9, Zenon DEF CallWrapped, CallsWrapped
<1> QED BY <1>4, <1>5, <1>6, <1>7, <1>8, <1>9, Zenon DEF Next, Guest

(* In a resume in progress the threads that await the current one or one   *)
(* of its parents are the next outer parents, so the climb from the        *)
(* running thread goes through the parents, the innermost first.           *)
LEMMA PickedParents ==
    ASSUME Inv, Called, GuestRuns, frames # <<>>, NEW pick \in MapOrders
    PROVE  /\ Top \in ResumeFrames /\ running_thread = Top.current
           /\ Top.current \in Threads /\ Top.current \notin Parents(Top)
           /\ \A i, j \in 1 .. Len(Top.activations) :
                 Top.activations[i][1] = Top.activations[j][1] => i = j
           /\ pick[Top.current] = IF Len(Top.activations) = 0 THEN Main
                                  ELSE Top.activations[Len(Top.activations)][1]
           /\ \A j \in 1 .. Len(Top.activations) :
                 pick[Top.activations[j][1]] = IF j = 1 THEN Main ELSE Top.activations[j - 1][1]
<1> DEFINE n == Len(Top.activations)
           q(i) == Top.activations[i][1]
           r == Top.current
<1>1. /\ Len(frames) = 1 /\ Top = frames[1] /\ Top \in ResumeFrames /\ Driven(threads, Top)
      /\ Top.result = "none" /\ Nested(frames, threads, running_thread)
  BY AtMostOne DEF Called, GuestRuns, Inv
<1>2. /\ n \in Nat /\ r \in Threads /\ \A i \in 1 .. n : q(i) \in Threads
  BY <1>1, ParentsTyped
<1>3. running_thread = r
  BY <1>1 DEF Nested
<1>4. /\ threads[r].state = "running"
      /\ \A i \in 1 .. n : /\ threads[q(i)].state = "awaiting"
                           /\ threads[q(i)].child = IF i = n THEN r ELSE q(i + 1)
      /\ \A u \in Threads : threads[u].state = "awaiting" =>
             \/ threads[threads[u].child].state = "dead"
             \/ u = r \/ \E i \in 1 .. n : u = q(i)
  BY <1>1 DEF Driven, Fits, Chained, OthersVain, Vain, Awaits, Parents
<1>5. \A i \in 1 .. n : q(i) # r
  BY <1>4
<1>6. r \notin Parents(Top)
  BY <1>5 DEF Parents
<1>7. \A i, j \in 1 .. n : q(i) = q(j) => i = j
  BY <1>1, <1>6, ChainDistinct DEF Driven
<1>8. \A c \in Threads : /\ ParentsOf(c) = {} => pick[c] = Main
                         /\ ParentsOf(c) # {} => pick[c] \in ParentsOf(c)
  BY DEF MapOrders
<1> HIDE DEF n, q, r
<1>9. ASSUME NEW c \in Threads, threads[c].state # "dead", NEW u \in ParentsOf(c)
      PROVE  \E i \in 1 .. n : u = q(i) /\ c = IF i = n THEN r ELSE q(i + 1)
  <2>1. u \in Threads /\ threads[u].state = "awaiting" /\ threads[u].child = c
    BY DEF ParentsOf, IsAwaiting
  <2>2. PICK i \in 1 .. n : u = q(i)
    BY <1>4, <1>9, <2>1
  <2> QED BY <1>4, <2>1, <2>2
<1>10. ASSUME NEW i \in 1 .. n PROVE q(i) \in ParentsOf(IF i = n THEN r ELSE q(i + 1))
  BY <1>2, <1>4 DEF ParentsOf, IsAwaiting
<1>11. pick[r] = IF n = 0 THEN Main ELSE q(n)
  <2>1. CASE n = 0
    <3>1. ParentsOf(r) = {}
      BY <1>2, <1>4, <1>9, <2>1
    <3> QED BY <1>2, <1>8, <2>1, <3>1
  <2>2. CASE n # 0
    <3>1. n \in 1 .. n
      BY <1>2, <2>2
    <3>2. q(n) \in ParentsOf(r)
      BY <1>10, <3>1
    <3>3. ASSUME NEW u \in ParentsOf(r) PROVE u = q(n)
      <4>1. PICK i \in 1 .. n : u = q(i) /\ r = IF i = n THEN r ELSE q(i + 1)
        BY <1>2, <1>4, <1>9
      <4>2. i = n \/ i + 1 \in 1 .. n
        BY <1>2
      <4> QED BY <1>5, <4>1, <4>2
    <3> QED BY <1>2, <1>8, <2>2, <3>2, <3>3
  <2> QED BY <2>1, <2>2
<1>12. ASSUME NEW j \in 1 .. n PROVE pick[q(j)] = IF j = 1 THEN Main ELSE q(j - 1)
  <2>1. q(j) \in Threads /\ threads[q(j)].state # "dead"
    BY <1>2, <1>4
  <2>2. ASSUME NEW u \in ParentsOf(q(j)) PROVE j # 1 /\ u = q(j - 1)
    <3>1. PICK i \in 1 .. n : u = q(i) /\ q(j) = IF i = n THEN r ELSE q(i + 1)
      BY <1>9, <2>1
    <3>2. i # n /\ q(j) = q(i + 1)
      BY <1>5, <3>1
    <3>3. i + 1 \in 1 .. n
      BY <1>2, <3>2
    <3>4. j = i + 1
      BY <1>7, <3>2, <3>3
    <3> QED BY <1>2, <3>1, <3>4
  <2>3. CASE j = 1
    <3>1. ParentsOf(q(j)) = {}
      BY <2>2, <2>3
    <3> QED BY <1>8, <2>1, <2>3, <3>1
  <2>4. CASE j # 1
    <3>1. j - 1 \in 1 .. n /\ j - 1 # n /\ j - 1 + 1 = j
      BY <1>2, <2>4
    <3>2. q(j - 1) \in ParentsOf(q(j))
      BY <1>10, <3>1
    <3> QED BY <1>8, <2>1, <2>2, <2>4, <3>2
  <2> QED BY <2>3, <2>4
<1> USE DEF n, q, r
<1> QED BY <1>1, <1>2, <1>3, <1>6, <1>7, <1>11, <1>12

(* coroutine_is_normal finds the parents of the resume in progress and no  *)
(* other thread, in whichever order the map lists its threads.             *)
LEMMA NormalIsParent ==
    ASSUME Inv, Called, GuestRuns, NEW t \in Threads, NEW pick \in MapOrders
    PROVE  IsNormal(t, pick) <=> frames # <<>> /\ t \in Parents(Top)
<1> USE CoroutineAssumption
<1> DEFINE n == Len(Top.activations)
           q(i) == Top.activations[i][1]
           N == Cardinality(Threads)
           Recursive(f) == f = [k \in 0 .. N |-> IF k = 0 THEN running_thread
                                                ELSE LET c == f[k - 1] IN IF c = Main THEN Main ELSE pick[c]]
           climb == CHOOSE f : Recursive(f)
<1>1. IsNormal(t, pick) <=> running_thread \notin {Main, t} /\ \E k \in 1 .. N : climb[k] = t
  BY Zenon DEF IsNormal
<1>2. CASE frames = <<>>
  <2>1. running_thread = Main
    BY <1>2 DEF Inv, Nested
  <2> HIDE DEF climb, N
  <2> QED BY <1>1, <1>2, <2>1
<1>3. CASE frames # <<>>
  <2>1. /\ Top \in ResumeFrames /\ running_thread = Top.current
        /\ Top.current \in Threads /\ Top.current \notin Parents(Top)
        /\ \A i, j \in 1 .. n : q(i) = q(j) => i = j
        /\ pick[Top.current] = IF n = 0 THEN Main ELSE q(n)
        /\ \A j \in 1 .. n : pick[q(j)] = IF j = 1 THEN Main ELSE q(j - 1)
    BY <1>3, PickedParents
  <2>2. n \in Nat /\ N \in Nat /\ \A i \in 1 .. n : q(i) \in Threads
    BY <2>1, ParentsTyped, FS_CardinalityType
  <2>3. n <= N
    <3> DEFINE g == [i \in 1 .. n |-> q(i)]
    <3>1. g \in Injection(1 .. n, Threads)
      BY <2>1, <2>2 DEF Injection, IsInjective
    <3> HIDE DEF g
    <3>2. Cardinality(1 .. n) <= N
      BY <3>1, FS_Injection
    <3> HIDE DEF N, n
    <3>3. Cardinality(1 .. n) = IF 1 > n THEN 0 ELSE n - 1 + 1
      BY <2>2, FS_Interval
    <3> QED BY <2>2, <3>2, <3>3
  <2> DEFINE above(k) == IF k = 0 THEN running_thread ELSE IF k <= n THEN q(n + 1 - k) ELSE Main
  <2> HIDE DEF n, q, N, climb, Recursive
  <2>4. ASSUME NEW k \in 1 .. N
        PROVE  above(k) = IF above(k - 1) = Main THEN Main ELSE pick[above(k - 1)]
    <3>1. CASE k = 1
      <4>1. above(k - 1) = Top.current /\ above(k) = IF n = 0 THEN Main ELSE q(n)
        BY <2>1, <2>2, <3>1
      <4> QED BY <2>1, <4>1
    <3>2. CASE k # 1 /\ k - 1 <= n
      <4> DEFINE j == n + 1 - (k - 1)
      <4>1. j \in 1 .. n /\ above(k - 1) = q(j) /\ above(k) = IF j = 1 THEN Main ELSE q(j - 1)
        <5>1. n + 1 - k = j - 1 /\ (k <= n <=> j # 1) /\ j \in 1 .. n
          BY <2>2, <3>2
        <5> QED BY <2>2, <3>2, <5>1
      <4> HIDE DEF j, above
      <4> QED BY <2>1, <2>2, <4>1
    <3>3. CASE ~(k - 1 <= n)
      BY <2>2, <3>3
    <3> QED BY <3>1, <3>2, <3>3
  <2> DEFINE F == [k \in 0 .. N |-> above(k)]
  <2>5. Recursive(F)
    <3>1. \A k \in 0 .. N : F[k] = IF k = 0 THEN running_thread
                                   ELSE IF F[k - 1] = Main THEN Main ELSE pick[F[k - 1]]
      <4> SUFFICES ASSUME NEW k \in 0 .. N
                   PROVE  F[k] = IF k = 0 THEN running_thread
                                   ELSE IF F[k - 1] = Main THEN Main ELSE pick[F[k - 1]]
        OBVIOUS
      <4>1. CASE k = 0
        BY <2>2, <4>1
      <4>2. CASE k # 0
        <5>1. k \in 1 .. N /\ F[k] = above(k) /\ F[k - 1] = above(k - 1)
          BY <2>2, <4>2
        <5> HIDE DEF F, above
        <5> QED BY <2>2, <2>4, <4>2, <5>1
      <4> QED BY <4>1, <4>2
    <3> HIDE DEF above
    <3> QED BY <3>1 DEF Recursive
  <2>6. Recursive(climb)
    <3> HIDE DEF F
    <3> QED BY <2>5, Zenon DEF climb
  <2>7. \A k \in 0 .. N : climb[k] = above(k)
    <3>1. \A k \in 0 .. N : climb[k] = IF k = 0 THEN running_thread
                                   ELSE IF climb[k - 1] = Main THEN Main ELSE pick[climb[k - 1]]
      <4>1. \A g : g = [k \in 0 .. N |-> IF k = 0 THEN running_thread
                                   ELSE IF climb[k - 1] = Main THEN Main ELSE pick[climb[k - 1]]]
               => \A k \in 0 .. N : g[k] = IF k = 0 THEN running_thread
                                   ELSE IF climb[k - 1] = Main THEN Main ELSE pick[climb[k - 1]]
        OBVIOUS
      <4> QED BY <2>6, <4>1 DEF Recursive
    <3> DEFINE I == {k \in 0 .. N : climb[k] = above(k)}
    <3>2. 0 \in I
      BY <2>2, <3>1
    <3>3. ASSUME NEW k \in 0 + 1 .. N, k - 1 \in I PROVE k \in I
      <4>1. k \in 1 .. N /\ k \in 0 .. N /\ k # 0
        BY <2>2
      <4> HIDE DEF above
      <4> QED BY <2>4, <3>1, <3>3, <4>1
    <3>4. \A k \in 0 .. N : k \in I
      <4> HIDE DEF I
      <4> QED BY <2>2, <3>2, <3>3, Upward
    <3> QED BY <3>4
  <2>8. Parents(Top) = {q(i) : i \in 1 .. n}
    BY DEF Parents, q, n
  <2>9. (\E k \in 1 .. N : climb[k] = t) => t \in Parents(Top)
    <3> SUFFICES ASSUME NEW k \in 1 .. N, climb[k] = t PROVE t \in Parents(Top)
      OBVIOUS
    <3>1. k \in 0 .. N /\ k # 0 /\ t # Main
      BY <2>2
    <3>2. above(k) = t
      BY <2>7, <3>1
    <3>3. k <= n /\ t = q(n + 1 - k)
      BY <3>1, <3>2
    <3>4. n + 1 - k \in 1 .. n
      BY <2>2, <3>3
    <3> QED BY <2>8, <3>3, <3>4
  <2>10. t \in Parents(Top) => \E k \in 1 .. N : climb[k] = t
    <3> SUFFICES ASSUME NEW i \in 1 .. n, t = q(i) PROVE \E k \in 1 .. N : climb[k] = t
      BY <2>8
    <3> DEFINE k == n + 1 - i
    <3>1. k \in 1 .. N /\ k \in 0 .. N /\ k # 0 /\ k <= n /\ n + 1 - k = i
      BY <2>2, <2>3
    <3> HIDE DEF k
    <3>2. climb[k] = t
      BY <2>7, <3>1
    <3> QED BY <3>1, <3>2
  <2> QED BY <1>1, <1>3, <2>1, <2>9, <2>10
<1> QED BY <1>2, <1>3

(* A step of a program that nests one way, unless the limit cuts a chain   *)
(* that is not a circle.                                                   *)
LEMMA CalledStep ==
    ASSUME Inv, Called, coroutine_delivery = None, ~ResumesNested, [Next]_vars,
           (RefuseActivation => Circle) \/ UNCHANGED vars
    PROVE  Called' /\ coroutine_delivery' = None
<1> USE CoroutineAssumption
<1>1. ASSUME NEW t \in Threads, GuestRuns, frames # <<>>, t \in Parents(Top)
      PROVE  Awaits(threads, t)
  BY <1>1 DEF Called, Driven, Chained, Parents
<1>2. ASSUME NEW t \in Threads, Create(t) PROVE Called' /\ coroutine_delivery' = None
  <2>1. /\ GuestRuns /\ threads[t].state = "absent" /\ threads' = [threads EXCEPT ![t] = In("new")]
        /\ frames' = frames /\ coroutine_delivery' = coroutine_delivery
    BY <1>2 DEF Create
  <2>2. frames # <<>> => t \notin Parents(Top)
    BY <1>1, <2>1 DEF Awaits
  <2> QED BY <2>1, <2>2, ChangeCalled
<1>3. ASSUME NEW t \in Threads, Close(t) PROVE Called' /\ coroutine_delivery' = None
  <2>1. /\ GuestRuns /\ threads[t].state \in {"new", "suspended", "awaiting"}
        /\ threads' = [threads EXCEPT ![t] = In("dead")]
        /\ frames' = frames /\ coroutine_delivery' = coroutine_delivery
        /\ IsAwaiting(t) => \E pick \in MapOrders : ~IsNormal(t, pick)
    BY <1>3 DEF Close
  <2>2. frames # <<>> => t \notin Parents(Top)
    BY <1>1, <2>1, NormalIsParent DEF Awaits, IsAwaiting
  <2> QED BY <2>1, <2>2, ChangeCalled
<1>4. ASSUME NEW t \in Threads, NEW arguments \in Args, Resume(t, arguments)
      PROVE  Called' /\ coroutine_delivery' = None
  BY <1>4, ResumeCalled
<1>5. CASE ResumeNonThread \/ ResumeTooDeep \/ UNCHANGED vars
  <2>1. frames' = frames /\ threads' = threads /\ coroutine_delivery' = coroutine_delivery
    BY <1>5, Zenon DEF ResumeNonThread, ResumeTooDeep, vars
  <2>2. Top' = Top
    BY <2>1 DEF Top
  <2> QED BY <2>1, <2>2 DEF Called
<1>6. ASSUME NEW t \in Threads, NEW arguments \in Args, CallWrapped(t, arguments)
      PROVE  Called' /\ coroutine_delivery' = None
  <2>1. /\ GuestRuns /\ running_thread # Main /\ threads[t].state # "absent"
        /\ Leave(Awaiting(t, arguments), "ok")
    BY <1>6, Zenon DEF CallWrapped
  <2>2. /\ Awaiting(t, arguments).state = "awaiting" /\ Awaiting(t, arguments).child = t
        /\ Fits("awaiting", "ok")
    BY DEF Awaiting, Fits
  <2>3. coroutine_delivery' = None
    BY <2>1 DEF Leave
  <2> QED BY <2>1, <2>2, <2>3, LeaveCalled
<1>7. CASE Yield \/ Return \/ Fail
  <2>1. PICK state \in {"suspended", "dead"}, result \in {"ok", "failed"} :
           /\ GuestRuns /\ running_thread # Main
           /\ Leave(In(state), result) /\ Fits(state, result)
    BY <1>7 DEF Yield, Return, Fail, Fits
  <2>2. In(state).state = state /\ state # "awaiting"
    BY DEF In
  <2>3. coroutine_delivery' = None
    BY <2>1 DEF Leave
  <2> QED BY <2>1, <2>2, <2>3, LeaveCalled
<1>8. CASE Drive /\ ~(UNCHANGED vars)
  <2>1. ASSUME ReturnToCaller PROVE coroutine_delivery' = None
    BY <2>1 DEF ReturnToCaller
  <2>2. CASE Activate
    BY <2>2, ActivateCalled
  <2>3. CASE RefuseActivation
    BY <1>8, <2>1, <2>3, RefuseCalled DEF RefuseActivation
  <2>4. CASE Deliver
    BY <2>4, DeliverCalled
  <2>5. CASE Propagate
    BY <2>1, <2>5, PropagateCalled DEF Propagate
  <2>6. CASE Finish
    BY <2>1, <2>6, FinishCalled DEF Finish
  <2> QED BY <1>8, <2>2, <2>3, <2>4, <2>5, <2>6 DEF Drive
<1> QED BY <1>2, <1>3, <1>4, <1>5, <1>6, <1>7, <1>8, Zenon DEF Next, Guest

(* The two ways together.                                                  *)
LEMMA OneWayInit == Init => OneWay
<1> SUFFICES ASSUME Init PROVE OneWay
  OBVIOUS
<1>1. /\ threads = [t \in Threads |-> In("absent")] /\ coroutine_delivery = None /\ frames = <<>>
      /\ Len(frames) = 0
  BY DEF Init
<1>2. Resumed
  BY <1>1 DEF Resumed, Awaits, In
<1>3. Called
  BY <1>1 DEF Called, Kept, OthersVain, Awaits, In
<1> QED BY <1>1, <1>2, <1>3 DEF OneWay

LEMMA OneWayNext ==
    ASSUME Inv, OneWay, [Next]_vars, [RefusesCircles]_vars
    PROVE  OneWay'
<1>0. ~(ResumesNested /\ CallsWrapped) => (RefuseActivation => Circle) \/ UNCHANGED vars
  <2>1. ~(ResumesNested /\ CallsWrapped) => Unmixed
    BY Zenon DEF Unmixed, ResumesNested, CallsWrapped
  <2> QED BY <2>1 DEF RefusesCircles
<1>1. ops' = ops
  BY Zenon DEF Next, Guest, Drive, Create, Resume, Enter, ResumeNonThread, ResumeTooDeep, CallWrapped, Leave,
     Yield, Return, Fail, Close, Activate, RefuseActivation, Deliver, Propagate, Finish, ReturnToCaller, vars
<1>2. (CallsWrapped <=> CallsWrapped') /\ (ResumesNested <=> ResumesNested')
  BY <1>1, Zenon DEF CallsWrapped, ResumesNested
<1>3. CASE ~CallsWrapped
  <2>1. Resumed' /\ coroutine_delivery' = None
    BY <1>3, ResumedStep DEF OneWay
  <2>2. CASE ResumesNested
    BY <1>2, <1>3, <2>1, <2>2 DEF OneWay
  <2>3. CASE ~ResumesNested
    <3>1. Called'
      BY <1>0, <2>3, CalledStep DEF OneWay
    <3> QED BY <2>1, <3>1 DEF OneWay
  <2> QED BY <2>2, <2>3
<1>4. CASE CallsWrapped /\ ~ResumesNested
  <2>1. Called' /\ coroutine_delivery' = None
    BY <1>0, <1>4, CalledStep DEF OneWay
  <2> QED BY <1>2, <1>4, <2>1 DEF OneWay
<1>5. CASE CallsWrapped /\ ResumesNested
  BY <1>2, <1>5 DEF OneWay
<1> QED BY <1>3, <1>4, <1>5

(* With as many activations as there are threads, only circles are cut.    *)
LEMMA LimitCutsCircles ==
    ASSUME Inv, OneWay, Cardinality(Threads) <= ActivationLimit
    PROVE  RefusesCircles
<1> USE CoroutineAssumption
<1> SUFFICES ASSUME RefuseActivation, Unmixed PROVE Circle
  BY DEF RefusesCircles
<1>1. /\ ~GuestRuns /\ Awaits(threads, Top.current) /\ Len(Top.activations) >= ActivationLimit
  BY DEF RefuseActivation, IsAwaiting, Awaits, AtActivationLimit
<1>2. Top \in ResumeFrames
  BY <1>1, WhenStopped
<1>3. ~ResumesNested
  <2>1. ~Resumed
    BY <1>1, <1>2, ParentsTyped DEF Resumed
  <2>2. CallsWrapped
    BY <2>1 DEF OneWay
  <2> QED BY <2>2, Zenon DEF Unmixed, ResumesNested, CallsWrapped
<1>4. Driven(threads, Top)
  BY <1>1, <1>3, WhenDriven DEF OneWay
<1> SUFFICES ASSUME Top.current \notin Parents(Top) PROVE FALSE
  BY DEF Circle
<1> DEFINE n == Len(Top.activations)
           g == [i \in 1 .. n + 1 |-> IF i = n + 1 THEN Top.current ELSE Top.activations[i][1]]
<1>5. /\ n \in Nat /\ Top.current \in Threads
      /\ \A i \in 1 .. n : Top.activations[i][1] \in Threads /\ Top.activations[i][1] # Top.current
      /\ \A i, j \in 1 .. n : Top.activations[i][1] = Top.activations[j][1] => i = j
  <2>1. \A i \in 1 .. n : Top.activations[i][1] # Top.current
    BY DEF Parents
  <2> QED BY <1>2, <1>4, <2>1, ParentsTyped, ChainDistinct DEF Driven
<1>6. g \in Injection(1 .. n + 1, Threads)
  <2> HIDE DEF n
  <2>1. \A i \in 1 .. n + 1 : i = n + 1 \/ i \in 1 .. n
    BY <1>5
  <2> QED BY <1>5, <2>1 DEF Injection, IsInjective
<1> HIDE DEF g, n
<1>7. Cardinality(1 .. n + 1) <= Cardinality(Threads) /\ Cardinality(Threads) \in Nat
  BY <1>6, FS_Injection, FS_CardinalityType
<1>8. Cardinality(1 .. n + 1) = n + 1
  <2> DEFINE m == n + 1
  <2>1. m \in Int /\ m >= 1
    BY <1>5
  <2> HIDE DEF m
  <2>2. Cardinality(1 .. m) = IF 1 > m THEN 0 ELSE m - 1 + 1
    BY <2>1, FS_Interval
  <2>3. Cardinality(1 .. m) = m
    BY <2>1, <2>2
  <2> QED BY <2>3 DEF m
<1> USE DEF n
<1> QED BY <1>1, <1>5, <1>7, <1>8

(* What is active while guest code runs, and how it is told.               *)
LEMMA CalledStatus ==
    ASSUME Inv, Called, GuestRuns PROVE StatusTruthful
<1> SUFFICES ASSUME NEW t \in Threads, NEW pick \in MapOrders
             PROVE  Status(t, pick) = "normal" <=> t \in Active \ {running_thread}
  BY DEF StatusTruthful
<1>1. IsNormal(t, pick) <=> frames # <<>> /\ t \in Parents(Top)
  BY NormalIsParent
<1>2. CASE frames = <<>>
  <2>1. Active = {} /\ threads[t].state # "running"
    <3>1. ToSet(frames) = {} /\ Len(frames) = 0
      BY <1>2 DEF ToSet
    <3>2. threads[t].state # "running"
      BY <3>1 DEF Inv, Nested
    <3> QED BY <3>1, <3>2 DEF Active
  <2> QED BY <1>1, <1>2, <2>1 DEF Status, IsAwaiting
<1>3. CASE frames # <<>>
  <2>1. /\ Len(frames) = 1 /\ Top = frames[1] /\ Top \in ResumeFrames /\ Driven(threads, Top)
        /\ Top.result = "none" /\ Nested(frames, threads, running_thread)
    BY <1>3, AtMostOne DEF Called, GuestRuns, Inv
  <2>2. ToSet(frames) = {Top}
    <3>1. DOMAIN frames = {1}
      BY <2>1, LenProperties DEF Inv, Shape
    <3> QED BY <2>1, <3>1 DEF ToSet
  <2>3. Active = {Top.current} \cup Parents(Top)
    <3>1. DOMAIN Top.activations = 1 .. Len(Top.activations)
      BY <2>1, LenProperties DEF ResumeFrames
    <3>2. {a[1] : a \in ToSet(Top.activations)} = Parents(Top)
      BY <3>1 DEF Parents, ToSet
    <3> QED BY <2>2, <3>2 DEF Active
  <2>4. /\ running_thread = Top.current /\ threads[Top.current].state = "running"
        /\ threads[t].state = "running" => t = Top.current
    BY <2>1 DEF Nested
  <2>5. t \in Parents(Top) => threads[t].state = "awaiting"
    BY <2>1 DEF Driven, Chained, Parents, Awaits
  <2> QED BY <1>1, <1>3, <2>3, <2>4, <2>5 DEF Status, IsAwaiting
<1> QED BY <1>2, <1>3

LEMMA ResumedStatus ==
    ASSUME Inv, Resumed, GuestRuns PROVE StatusTruthful
<1> SUFFICES ASSUME NEW t \in Threads, NEW pick \in MapOrders
             PROVE  Status(t, pick) = "normal" <=> t \in Active \ {running_thread}
  BY DEF StatusTruthful
<1>1. /\ frames \in Seq(ResumeFrames) /\ Nested(frames, threads, running_thread)
      /\ DOMAIN frames = 1 .. Len(frames)
      /\ \A i \in 1 .. Len(frames) : frames[i].activations = <<>>
      /\ threads[t].state # "awaiting"
  BY LenProperties DEF Inv, Shape, Resumed, Awaits
<1>2. t \in Active <=> \E i \in 1 .. Len(frames) : frames[i].current = t
  <2>1. \A f \in ToSet(frames) : ToSet(f.activations) = {}
    BY <1>1 DEF ToSet
  <2>2. ToSet(frames) = {frames[i] : i \in 1 .. Len(frames)}
    BY <1>1 DEF ToSet
  <2> QED BY <2>1, <2>2 DEF Active
<1>3. t \in Active <=> threads[t].state = "running"
  BY <1>1, <1>2 DEF Nested
<1> QED BY <1>1, <1>3 DEF Status, IsAwaiting

LEMMA OneWayImpliesUnmixedSound == Inv /\ OneWay => UnmixedSound
<1> SUFFICES ASSUME Inv, OneWay PROVE UnmixedSound
  OBVIOUS
<1>1. Unmixed <=> ~(ResumesNested /\ CallsWrapped)
  BY Zenon DEF Unmixed, ResumesNested, CallsWrapped
<1>2. ASSUME Unmixed PROVE coroutine_delivery = None /\ StatusTruthful
  <2>1. coroutine_delivery = None /\ (Resumed \/ Called)
    BY <1>1, <1>2 DEF OneWay
  <2>2. GuestRuns => StatusTruthful
    BY <2>1, CalledStatus, ResumedStatus
  <2>3. ~GuestRuns => StatusTruthful
    BY DEF StatusTruthful
  <2> QED BY <2>1, <2>2, <2>3
<1> QED BY <1>2 DEF UnmixedSound, DeliveryConsumedUnmixed, StatusTruthfulUnmixed, DeliveryConsumed

(* A child's results go to the thread that waits for them and              *)
(* coroutine.status tells who waits for whom, in programs that nest        *)
(* coroutines one way: as long as the activation limit refuses no call but *)
(* of a thread that waits for itself through others.                       *)
THEOREM UnmixedUnlessRefused == Spec /\ [][RefusesCircles]_vars => []UnmixedSound
<1>1. Inv /\ [Next]_vars => Inv'
  BY NextInv
<1>2. Inv /\ OneWay /\ [Next]_vars /\ [RefusesCircles]_vars => OneWay'
  BY OneWayNext
<1> QED BY <1>1, <1>2, InitInv, OneWayInit, OneWayImpliesUnmixedSound, PTL DEF Spec

(* The limit refuses nothing else where it is at least the number of       *)
(* threads.                                                                *)
THEOREM UnmixedStaysSound ==
    ASSUME Cardinality(Threads) <= ActivationLimit
    PROVE  Spec => []UnmixedSound
<1>1. Inv /\ [Next]_vars => Inv'
  BY NextInv
<1>2. Inv /\ OneWay /\ [Next]_vars => OneWay'
  BY OneWayNext, LimitCutsCircles
<1> QED BY <1>1, <1>2, InitInv, OneWayInit, OneWayImpliesUnmixedSound, PTL DEF Spec
=============================================================================
