-------------------------- MODULE PromiseQueueProofs --------------------------
(* PromiseQueue keeps its calls apart, never forgets a waiting one, and is a   *)
(* serial first-come first-served executor, for every set of calls and every   *)
(* choice of the calls that throw.                                             *)
EXTENDS PromiseQueue, TLAPS

\* The calls that hold the queue: begun, and not yet released by their finally.
Holders == {c \in Calls : phase[c] \in {"executing", "awaiting", "answered"}}

\* One call at most holds the queue, and while one does the flag is set.
HeldOnce == /\ \A c, d \in Holders : c = d
            /\ Holders # {} => running

\* The flag is only ever left set by a holder or by a method that threw, and
\* a throw leaves no holder behind that could reset it.
FlagHasOwner == /\ running => (Stalled \/ Holders # {})
                /\ Stalled => (running /\ Holders = {})

\* A method is on the stack exactly while a call is executing.
StackMatches ==
    (control = "method") <=> (\E c \in Calls : phase[c] = "executing")

\* The queue holds the queued calls, each once.
QueueMatches ==
    /\ \A c \in Calls : phase[c] = "queued" <=> (\E i \in DOMAIN queue : queue[i] = c)
    /\ \A i, j \in DOMAIN queue : queue[i] = queue[j] => i = j

\* Nobody leaves the thread to the event loop with a free queue and a waiter.
NobodyAsleep == (control = "loop" /\ queue # <<>>) => running

IInv == /\ TypeOK
        /\ HeldOnce
        /\ FlagHasOwner
        /\ StackMatches
        /\ QueueMatches
        /\ NobodyAsleep

-------------------------------------------------------------------------------
(* What the model's two sequence operations do.                                *)

\* Appending a new call keeps the queue a sequence of distinct calls and adds
\* just that call to it.
LEMMA AppendCall ==
    ASSUME NEW q \in Seq(Calls), NEW c \in Calls
    PROVE  /\ Append(q, c) \in Seq(Calls)
           /\ Append(q, c) # <<>>
           /\ DOMAIN Append(q, c) = DOMAIN q \cup {Len(q) + 1}
           /\ \A i \in DOMAIN q : Append(q, c)[i] = q[i]
           /\ Append(q, c)[Len(q) + 1] = c
           /\ Len(q) + 1 \notin DOMAIN q
  OBVIOUS

\* Taking the head off a non-empty queue shifts the others down by one.
LEMMA TailCalls ==
    ASSUME NEW q \in Seq(Calls), q # <<>>
    PROVE  /\ Head(q) \in Calls
           /\ Head(q) = q[1]
           /\ 1 \in DOMAIN q
           /\ Tail(q) \in Seq(Calls)
           /\ \A i \in DOMAIN Tail(q) : /\ i + 1 \in DOMAIN q
                                        /\ i + 1 # 1
                                        /\ Tail(q)[i] = q[i + 1]
           /\ \A j \in DOMAIN q : j # 1 => /\ j - 1 \in DOMAIN Tail(q)
                                           /\ q[j] = Tail(q)[j - 1]
  OBVIOUS

-------------------------------------------------------------------------------
\* Initially nothing is queued and nothing runs.
LEMMA InitIInv == Init => IInv
  <1> SUFFICES ASSUME Init PROVE IInv
    OBVIOUS
  <1> USE CallsAssumption DEF Init
  <1>1. TypeOK
    <2>1. queue \in Seq(Calls)
      OBVIOUS
    <2>2. phase \in [Calls -> Phases]
      BY DEF Phases
    <2> QED
      BY <2>1, <2>2 DEF TypeOK
  <1>2. HeldOnce /\ FlagHasOwner /\ StackMatches /\ NobodyAsleep
    BY DEF HeldOnce, FlagHasOwner, StackMatches, NobodyAsleep, Holders, Stalled
  <1>3. QueueMatches
    BY DEF QueueMatches
  <1> QED
    BY <1>1, <1>2, <1>3 DEF IInv

\* push() in either place: the call joins the queue, and the thread is not with
\* the event loop afterwards.
LEMMA PushKeepsIInv ==
    ASSUME IInv, NEW c \in Calls, Push(c) \/ PushFromMethod(c)
    PROVE  IInv'
  <1> USE CallsAssumption
  <1>1. /\ phase[c] = "new"
        /\ phase' = [phase EXCEPT ![c] = "queued"]
        /\ queue' = Append(queue, c)
        /\ running' = running
        /\ control' # "loop"
        /\ control' = "method" <=> control = "method"
    BY DEF Push, PushFromMethod
  <1>2. queue \in Seq(Calls) /\ phase \in [Calls -> Phases]
    BY DEF IInv, TypeOK
  <1>3. \A d \in Calls : d # c => phase'[d] = phase[d]
    BY <1>1, <1>2
  <1>4. phase'[c] = "queued"
    BY <1>1, <1>2
  <1>5. TypeOK'
    BY <1>1, <1>2 DEF IInv, TypeOK, Phases, Push, PushFromMethod
  <1>6. Holders' = Holders /\ Stalled' = Stalled
    BY <1>1, <1>3, <1>4 DEF Holders, Stalled
  <1>7. (HeldOnce /\ FlagHasOwner /\ StackMatches /\ NobodyAsleep)'
    BY <1>1, <1>3, <1>4, <1>6
    DEF IInv, HeldOnce, FlagHasOwner, StackMatches, NobodyAsleep
  <1>8. QueueMatches'
    <2>1. QueueMatches
      BY DEF IInv
    <2>2. \A i \in DOMAIN queue : queue[i] # c
      BY <1>1, <2>1 DEF QueueMatches
    <2>3. /\ DOMAIN queue' = DOMAIN queue \cup {Len(queue) + 1}
          /\ \A i \in DOMAIN queue : queue'[i] = queue[i]
          /\ queue'[Len(queue) + 1] = c
          /\ Len(queue) + 1 \notin DOMAIN queue
      BY <1>1, <1>2, AppendCall
    <2>4. \A d \in Calls :
              phase'[d] = "queued" <=> \E i \in DOMAIN queue' : queue'[i] = d
      BY <1>3, <1>4, <2>1, <2>3 DEF QueueMatches
    <2>5. \A i, j \in DOMAIN queue' : queue'[i] = queue'[j] => i = j
      BY <2>1, <2>2, <2>3 DEF QueueMatches
    <2> QED
      BY <2>4, <2>5 DEF QueueMatches
  <1> QED
    BY <1>5, <1>7, <1>8 DEF IInv

\* run() finds a running call or an empty queue, and only the thread moves.
LEMMA RunReturnsKeepsIInv == IInv /\ RunReturns => IInv'
  BY CallsAssumption
  DEF IInv, TypeOK, HeldOnce, FlagHasOwner, StackMatches, QueueMatches,
      NobodyAsleep, RunReturns, Holders, Stalled

\* run() begins the oldest call: there was no holder, so it becomes the only
\* one, and it occurs nowhere else in the queue.
LEMMA RunBeginsKeepsIInv ==
    ASSUME IInv, NEW c \in Calls, RunBegins(c)
    PROVE  IInv'
  <1> USE CallsAssumption
  <1>1. /\ control = "run" /\ ~running /\ queue # <<>>
        /\ c = Head(queue)
        /\ running' = TRUE
        /\ queue' = Tail(queue)
        /\ phase' = [phase EXCEPT ![c] = "executing"]
        /\ control' = "method"
        /\ starter' = starter
    BY DEF RunBegins
  <1>2. queue \in Seq(Calls) /\ phase \in [Calls -> Phases]
    BY DEF IInv, TypeOK
  <1>3. /\ c = queue[1]
        /\ 1 \in DOMAIN queue
        /\ queue' \in Seq(Calls)
        /\ \A i \in DOMAIN queue' : /\ i + 1 \in DOMAIN queue
                                     /\ i + 1 # 1
                                     /\ queue'[i] = queue[i + 1]
        /\ \A j \in DOMAIN queue : j # 1 => /\ j - 1 \in DOMAIN queue'
                                            /\ queue[j] = queue'[j - 1]
    BY <1>1, <1>2, TailCalls
  <1>4. /\ phase'[c] = "executing"
        /\ \A d \in Calls : d # c => phase'[d] = phase[d]
    BY <1>1, <1>2
  <1>5. TypeOK'
    BY <1>1, <1>2, <1>3 DEF IInv, TypeOK, Phases
  <1>6. Holders = {} /\ ~Stalled
    BY <1>1 DEF IInv, HeldOnce, FlagHasOwner
  <1>7. Holders' = {c} /\ ~Stalled'
    BY <1>4, <1>6 DEF Holders, Stalled
  <1>8. (HeldOnce /\ FlagHasOwner /\ StackMatches /\ NobodyAsleep)'
    BY <1>1, <1>4, <1>7
    DEF HeldOnce, FlagHasOwner, StackMatches, NobodyAsleep
  <1>9. QueueMatches'
    <2>1. QueueMatches
      BY DEF IInv
    <2>2. \A i \in DOMAIN queue' : queue'[i] # c
      BY <1>3, <2>1 DEF QueueMatches
    <2>3. \A d \in Calls :
              phase'[d] = "queued" => \E i \in DOMAIN queue' : queue'[i] = d
      BY <1>3, <1>4, <2>1 DEF QueueMatches
    <2>4. \A d \in Calls :
              (\E i \in DOMAIN queue' : queue'[i] = d) => phase'[d] = "queued"
      <3> SUFFICES ASSUME NEW d \in Calls, NEW i \in DOMAIN queue',
                          queue'[i] = d
                   PROVE  phase'[d] = "queued"
        OBVIOUS
      <3>1. i + 1 \in DOMAIN queue /\ queue[i + 1] = d
        BY <1>3
      <3>2. phase[d] = "queued" /\ d # c
        BY <3>1, <2>1, <2>2 DEF QueueMatches
      <3> QED
        BY <1>4, <3>2
    <2>5. \A i, j \in DOMAIN queue' : queue'[i] = queue'[j] => i = j
      <3> SUFFICES ASSUME NEW i \in DOMAIN queue', NEW j \in DOMAIN queue',
                          queue'[i] = queue'[j]
                   PROVE  i = j
        OBVIOUS
      <3>1. i + 1 = j + 1
        BY <1>3, <2>1 DEF QueueMatches
      <3>2. i \in Nat /\ j \in Nat
        BY <1>3
      <3> QED
        BY <3>1, <3>2
    <2> QED
      BY <2>3, <2>4, <2>5 DEF QueueMatches
  <1> QED
    BY <1>5, <1>8, <1>9 DEF IInv

\* What the remaining steps of a call do to the queue: nothing.
LEMMA QueueUntouched ==
    ASSUME IInv, NEW c \in Calls, NEW p \in Phases \ {"queued"},
           phase[c] # "queued",
           phase' = [phase EXCEPT ![c] = p], queue' = queue
    PROVE  QueueMatches'
  <1>1. phase \in [Calls -> Phases] /\ QueueMatches
    BY DEF IInv, TypeOK
  <1>2. \A d \in Calls : phase'[d] = "queued" <=> phase[d] = "queued"
    BY <1>1
  <1> QED
    BY <1>1, <1>2 DEF QueueMatches

\* The method returns a value, or the finally runs: the only holder lets go and
\* run() follows at once.
LEMMA ReleaseKeepsIInv ==
    ASSUME IInv, NEW c \in Calls, ReturnsValue(c) \/ Releases(c)
    PROVE  IInv'
  <1> USE CallsAssumption
  <1>1. /\ phase[c] \in {"executing", "answered"}
        /\ phase' = [phase EXCEPT ![c] = "finished"]
        /\ running' = FALSE
        /\ control' = "run"
        /\ queue' = queue /\ starter' = starter
    BY DEF ReturnsValue, Releases
  <1>2. phase \in [Calls -> Phases]
    BY DEF IInv, TypeOK
  <1>3. /\ phase'[c] = "finished"
        /\ \A d \in Calls : d # c => phase'[d] = phase[d]
    BY <1>1, <1>2
  <1>4. TypeOK'
    BY <1>1, <1>2 DEF IInv, TypeOK, Phases
  <1>5. Holders = {c}
    BY <1>1 DEF IInv, HeldOnce, Holders
  <1>6. Holders' = {}
    BY <1>3, <1>5 DEF Holders
  <1>7. ~Stalled'
    BY <1>3, <1>5 DEF IInv, FlagHasOwner, Stalled
  <1>8. \A d \in Calls : phase'[d] # "executing"
    BY <1>6 DEF Holders
  <1>9. (HeldOnce /\ FlagHasOwner /\ StackMatches /\ NobodyAsleep)'
    BY <1>1, <1>6, <1>7, <1>8
    DEF HeldOnce, FlagHasOwner, StackMatches, NobodyAsleep
  <1>10. QueueMatches'
    BY <1>1, QueueUntouched DEF Phases
  <1> QED
    BY <1>4, <1>9, <1>10 DEF IInv

\* The method returns a promise, or that promise settles: the holder goes on
\* holding, off the stack.
LEMMA AwaitKeepsIInv ==
    ASSUME IInv, NEW c \in Calls, ReturnsPromise(c) \/ Settles(c)
    PROVE  IInv'
  <1> USE CallsAssumption
  <1>1. PICK p \in {"awaiting", "answered"} :
               phase' = [phase EXCEPT ![c] = p]
    BY DEF ReturnsPromise, Settles
  <1>2. /\ phase[c] \in {"executing", "awaiting"}
        /\ running' = running
        /\ control' = "loop"
        /\ queue' = queue
        /\ starter' \in {starter, NoCall}
    BY DEF ReturnsPromise, Settles
  <1>3. phase \in [Calls -> Phases]
    BY DEF IInv, TypeOK
  <1>4. /\ phase'[c] = p
        /\ \A d \in Calls : d # c => phase'[d] = phase[d]
    BY <1>1, <1>3
  <1>5. TypeOK'
    BY <1>1, <1>2, <1>3 DEF IInv, TypeOK, Phases
  <1>6. Holders = {c}
    BY <1>2 DEF IInv, HeldOnce, Holders
  <1>7. Holders' = {c}
    BY <1>4, <1>6 DEF Holders
  <1>8. ~Stalled' /\ running
    BY <1>4, <1>6 DEF IInv, HeldOnce, FlagHasOwner, Stalled
  <1>9. \A d \in Calls : phase'[d] # "executing"
    BY <1>4, <1>7 DEF Holders
  <1>10. (HeldOnce /\ FlagHasOwner /\ StackMatches /\ NobodyAsleep)'
    BY <1>2, <1>7, <1>8, <1>9
    DEF HeldOnce, FlagHasOwner, StackMatches, NobodyAsleep
  <1>11. QueueMatches'
    BY <1>1, <1>2, QueueUntouched DEF Phases
  <1> QED
    BY <1>5, <1>10, <1>11 DEF IInv

\* The method throws: the holder is gone and the flag stays set.
LEMMA ThrowsKeepsIInv ==
    ASSUME IInv, NEW c \in Calls, Throws(c)
    PROVE  IInv'
  <1> USE CallsAssumption
  <1>1. PICK p \in {"rejected", "lost"} : phase' = [phase EXCEPT ![c] = p]
    BY DEF Throws
  <1>2. /\ phase[c] = "executing"
        /\ running' = running
        /\ control' = "loop"
        /\ queue' = queue /\ starter' = NoCall
    BY DEF Throws
  <1>3. phase \in [Calls -> Phases]
    BY DEF IInv, TypeOK
  <1>4. /\ phase'[c] = p
        /\ \A d \in Calls : d # c => phase'[d] = phase[d]
    BY <1>1, <1>3
  <1>5. TypeOK'
    BY <1>1, <1>2, <1>3 DEF IInv, TypeOK, Phases
  <1>6. Holders = {c}
    BY <1>2 DEF IInv, HeldOnce, Holders
  <1>7. Holders' = {} /\ Stalled' /\ running
    BY <1>4, <1>6 DEF IInv, HeldOnce, Holders, Stalled
  <1>8. (HeldOnce /\ FlagHasOwner /\ StackMatches /\ NobodyAsleep)'
    BY <1>2, <1>7
    DEF HeldOnce, FlagHasOwner, StackMatches, NobodyAsleep, Holders
  <1>9. QueueMatches'
    BY <1>1, <1>2, QueueUntouched DEF Phases
  <1> QED
    BY <1>5, <1>8, <1>9 DEF IInv

\* IInv mentions every variable and nothing else.
LEMMA StutterKeepsIInv == IInv /\ UNCHANGED vars => IInv'
  BY DEF IInv, TypeOK, HeldOnce, FlagHasOwner, StackMatches, QueueMatches,
      NobodyAsleep, Holders, Stalled, vars

\* IInv is inductive.
LEMMA NextKeepsIInv == IInv /\ [Next]_vars => IInv'
  <1> SUFFICES ASSUME IInv, [Next]_vars PROVE IInv'
    OBVIOUS
  <1>1. CASE UNCHANGED vars
    BY <1>1, StutterKeepsIInv
  <1>2. CASE RunReturns
    BY <1>2, RunReturnsKeepsIInv
  <1>3. ASSUME NEW c \in Calls, Push(c) \/ PushFromMethod(c) \/ Engine(c)
        PROVE  IInv'
    BY <1>3, PushKeepsIInv, RunBeginsKeepsIInv, ReleaseKeepsIInv,
       AwaitKeepsIInv, ThrowsKeepsIInv DEF Engine, Returns
  <1> QED
    BY <1>1, <1>2, <1>3 DEF Next

\* Every reachable state satisfies IInv.
THEOREM Invariant == Spec => []IInv
  BY InitIInv, NextKeepsIInv, PTL DEF Spec

\* The variables keep their types.
THEOREM TypeCorrect == Spec => []TypeOK
  <1>1. IInv => TypeOK
    BY DEF IInv
  <1> QED
    BY <1>1, Invariant, PTL

\* PromiseQueue.ts:16, "prevent concurrent calls": no two methods are ever
\* active together, however many calls are pushed and whichever of them throw.
THEOREM MutualExclusion == Spec => []OneAtATime
  <1>1. IInv => OneAtATime
    BY DEF IInv, HeldOnce, OneAtATime, Holders, Active
  <1> QED
    BY <1>1, Invariant, PTL

\* No lost wakeup: a waiting call always has a holder whose finally will run it,
\* unless a method threw.
THEOREM NoLostWakeup == Spec => []WaitersAreDriven
  <1>1. IInv => WaitersAreDriven
    <2> SUFFICES ASSUME IInv, control = "loop", queue # <<>>, ~Stalled
                 PROVE  \E c \in Calls : phase[c] \in {"awaiting", "answered"}
      BY DEF WaitersAreDriven
    <2>1. Holders # {}
      BY DEF IInv, NobodyAsleep, FlagHasOwner
    <2>2. \A c \in Calls : phase[c] # "executing"
      BY DEF IInv, StackMatches
    <2> QED
      BY <2>1, <2>2 DEF Holders
  <1> QED
    BY <1>1, Invariant, PTL

-------------------------------------------------------------------------------
(* The refinement: each step is a step of SerialExecutor or leaves its three   *)
(* variables alone.                                                            *)

\* Nothing is queued, active or ended at first.
LEMMA InitRefines == Init => Serial!Init
  BY DEF Init, Serial!Init, Active, Ended

\* Every step submits, begins or ends one call, or changes nothing the
\* executor sees.
LEMMA StepRefines ==
    ASSUME IInv, [Next]_vars
    PROVE  [Serial!Next]_(Serial!vars)
  <1> USE CallsAssumption
  <1>1. queue \in Seq(Calls) /\ phase \in [Calls -> Phases]
    BY DEF IInv, TypeOK
  <1>2. ASSUME UNCHANGED <<queue, phase>>
        PROVE  UNCHANGED Serial!vars
    BY <1>2 DEF Serial!vars, Active, Ended
  <1>3. ASSUME NEW c \in Calls, Push(c) \/ PushFromMethod(c)
        PROVE  Serial!Submit(c)
    <2>1. /\ phase[c] = "new"
          /\ phase' = [phase EXCEPT ![c] = "queued"]
          /\ queue' = Append(queue, c)
      BY <1>3 DEF Push, PushFromMethod
    <2>2. c \notin Serial!Waiting \cup Active \cup Ended
      BY <2>1 DEF IInv, QueueMatches, Serial!Waiting, Active, Ended
    <2>3. Active' = Active /\ Ended' = Ended
      BY <1>1, <2>1 DEF Active, Ended
    <2> QED
      BY <2>1, <2>2, <2>3 DEF Serial!Submit
  <1>4. ASSUME NEW c \in Calls, RunBegins(c)
        PROVE  Serial!Begin(c)
    <2>1. /\ ~running /\ queue # <<>> /\ c = Head(queue)
          /\ queue' = Tail(queue)
          /\ phase' = [phase EXCEPT ![c] = "executing"]
      BY <1>4 DEF RunBegins
    <2>2. phase[c] = "queued"
      BY <1>1, <2>1, TailCalls DEF IInv, QueueMatches
    <2>3. Active = {}
      BY <2>1 DEF IInv, HeldOnce, Holders, Active
    <2>4. Active' = {c} /\ Ended' = Ended
      BY <1>1, <2>1, <2>2, <2>3 DEF Active, Ended
    <2> QED
      BY <2>1, <2>3, <2>4 DEF Serial!Begin
  <1>5. ASSUME NEW c \in Calls, ReturnsValue(c) \/ Throws(c) \/ Settles(c)
        PROVE  Serial!End(c)
    <2>1. PICK p \in {"finished", "rejected", "lost", "answered"} :
                 phase' = [phase EXCEPT ![c] = p]
      BY <1>5 DEF ReturnsValue, Throws, Settles
    <2>2. phase[c] \in {"executing", "awaiting"} /\ queue' = queue
      BY <1>5 DEF ReturnsValue, Throws, Settles
    <2>3. Active' = Active \ {c} /\ Ended' = Ended \cup {c} /\ c \in Active
      BY <1>1, <2>1, <2>2 DEF Active, Ended
    <2> QED
      BY <2>2, <2>3 DEF Serial!End
  <1>6. ASSUME NEW c \in Calls, ReturnsPromise(c) \/ Releases(c)
        PROVE  UNCHANGED Serial!vars
    <2>1. \/ /\ phase[c] = "executing"
             /\ phase' = [phase EXCEPT ![c] = "awaiting"]
          \/ /\ phase[c] = "answered"
             /\ phase' = [phase EXCEPT ![c] = "finished"]
      BY <1>6 DEF ReturnsPromise, Releases
    <2>2. queue' = queue
      BY <1>6 DEF ReturnsPromise, Releases
    <2>3. Active' = Active /\ Ended' = Ended
      BY <1>1, <2>1 DEF Active, Ended
    <2> QED
      BY <2>2, <2>3 DEF Serial!vars
  <1>7. CASE UNCHANGED vars
    BY <1>2, <1>7 DEF vars
  <1>8. CASE RunReturns
    BY <1>2, <1>8 DEF RunReturns
  <1>9. ASSUME NEW c \in Calls, Push(c) \/ PushFromMethod(c) \/ Engine(c)
        PROVE  [Serial!Next]_(Serial!vars)
    BY <1>3, <1>4, <1>5, <1>6, <1>9 DEF Engine, Returns, Serial!Next
  <1> QED
    BY <1>7, <1>8, <1>9 DEF Next

\* PromiseQueue.ts:15, "execute sequentially": the queue is a serial executor
\* that begins the calls in the order of their push(), throwing methods or not.
THEOREM SerialOrder == Spec => BeginsInPushOrder
  <1>1. IInv /\ [Next]_vars => [Serial!Next]_(Serial!vars)
    BY StepRefines
  <1> QED
    BY <1>1, InitRefines, Invariant, PTL
    DEF Spec, BeginsInPushOrder, Serial!SafeSpec
===============================================================================
