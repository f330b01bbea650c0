----------------------------- MODULE PromiseQueue -----------------------------
(* lib/util/PromiseQueue.ts: the queue that keeps the methods of `token` (one  *)
(* queue per OktaAuth instance) and the application's transformAuthState from  *)
(* running concurrently.                                                       *)
(*                                                                             *)
(* JavaScript runs one piece of code at a time; `control` says which: the      *)
(* event loop ("loop"), run() at its first line ("run"), or the method that    *)
(* run() has just called ("method").  Everything the application and the       *)
(* browser do happens in "loop"; a method may push again while it runs.        *)
EXTENDS Naturals, Sequences

CONSTANTS Calls,     \* the calls of push(), each made at most once
          Throwing,  \* the calls whose method may throw before it returns
          NoCall     \* stands for no call

ASSUME CallsAssumption == /\ Throwing \subseteq Calls
                          /\ NoCall \notin Calls

VARIABLES queue,    \* this.queue: the items not yet shifted, oldest first
          running,  \* this.running
          phase,    \* how far each call has come, see Phases
          control,  \* which code holds the thread
          starter   \* the call whose push() is on the stack, if any

vars == <<queue, running, phase, control, starter>>

(* new        push() not called yet                                            *)
(* queued     in this.queue                                                    *)
(* executing  its method is on the stack                                       *)
(* awaiting   its method returned a promise that has not settled               *)
(* answered   that promise settled the caller's; the finally has not run       *)
(* finished   the caller's promise is settled and the queue was released       *)
(* rejected   its method threw inside its own push(), which rejects            *)
(* lost       its method threw inside somebody else's run(): never settled     *)
Phases == {"new", "queued", "executing", "awaiting", "answered", "finished",
           "rejected", "lost"}

TypeOK == /\ queue \in Seq(Calls)
          /\ running \in BOOLEAN
          /\ phase \in [Calls -> Phases]
          /\ control \in {"loop", "run", "method"}
          /\ starter \in Calls \cup {NoCall}

Init == /\ queue = <<>>
        /\ running = FALSE
        /\ phase = [c \in Calls |-> "new"]
        /\ control = "loop"
        /\ starter = NoCall

\* Mutant of Push: the parts of the item are appended one by one.
PushParts(c) == /\ control = "loop"
                /\ phase[c] = "new"
                /\ phase' = [phase EXCEPT ![c] = "queued"]
                /\ queue' = queue \o <<c, NoCall>>
                /\ control' = "run"
                /\ starter' = c
                /\ UNCHANGED running

\* push() from the event loop: append the item, then call run().
Push(c) == /\ control = "loop"
           /\ phase[c] = "new"
           /\ phase' = [phase EXCEPT ![c] = "queued"]
           /\ queue' = Append(queue, c)
           /\ control' = "run"
           /\ starter' = c
           /\ UNCHANGED running

\* push() by the method that is running: its run() finds running and returns.
PushFromMethod(c) == /\ control = "method"
                     /\ phase[c] = "new"
                     /\ phase' = [phase EXCEPT ![c] = "queued"]
                     /\ queue' = Append(queue, c)
                     /\ UNCHANGED <<running, control, starter>>

\* run(): another call is running, or there is nothing to run.
RunReturns == /\ control = "run"
              /\ running \/ queue = <<>>
              /\ control' = "loop"
              /\ starter' = NoCall
              /\ UNCHANGED <<queue, running, phase>>

\* Mutant of RunBegins: run() does not look at running.
RunBeginsAnyway(c) == /\ control = "run"
                      /\ queue # <<>>
                      /\ c = Head(queue)
                      /\ running' = TRUE
                      /\ queue' = Tail(queue)
                      /\ phase' = [phase EXCEPT ![c] = "executing"]
                      /\ control' = "method"
                      /\ UNCHANGED starter

\* run(): take the oldest item and call its method.
RunBegins(c) == /\ control = "run"
                /\ ~running
                /\ queue # <<>>
                /\ c = Head(queue)
                /\ running' = TRUE
                /\ queue' = Tail(queue)
                /\ phase' = [phase EXCEPT ![c] = "executing"]
                /\ control' = "method"
                /\ UNCHANGED starter

\* Mutant of ReturnsValue: running is reset for promises only.
ReturnsValueHolding(c) == /\ control = "method"
                          /\ phase[c] = "executing"
                          /\ phase' = [phase EXCEPT ![c] = "finished"]
                          /\ control' = "run"
                          /\ UNCHANGED <<queue, running, starter>>

\* The method returned a plain value: resolve, release, and run() again.
ReturnsValue(c) == /\ control = "method"
                   /\ phase[c] = "executing"
                   /\ phase' = [phase EXCEPT ![c] = "finished"]
                   /\ running' = FALSE
                   /\ control' = "run"
                   /\ UNCHANGED <<queue, starter>>

\* The method returned a promise: run() attaches its callbacks and returns.
ReturnsPromise(c) == /\ control = "method"
                     /\ phase[c] = "executing"
                     /\ phase' = [phase EXCEPT ![c] = "awaiting"]
                     /\ control' = "loop"
                     /\ starter' = NoCall
                     /\ UNCHANGED <<queue, running>>

\* The method threw: nothing in run() catches it, running stays set, and the
\* exception leaves through the push() on the stack, if there is one.
Throws(c) == /\ control = "method"
             /\ phase[c] = "executing"
             /\ c \in Throwing
             /\ phase' = [phase EXCEPT
                            ![c] = IF c = starter THEN "rejected" ELSE "lost"]
             /\ control' = "loop"
             /\ starter' = NoCall
             /\ UNCHANGED <<queue, running>>

\* then(queueItem.resolve, queueItem.reject): the caller's promise settles.
Settles(c) == /\ control = "loop"
              /\ phase[c] = "awaiting"
              /\ phase' = [phase EXCEPT ![c] = "answered"]
              /\ UNCHANGED <<queue, running, control, starter>>

\* Mutant of Releases: the next item is not run.
ReleasesOnly(c) == /\ control = "loop"
                   /\ phase[c] = "answered"
                   /\ phase' = [phase EXCEPT ![c] = "finished"]
                   /\ running' = FALSE
                   /\ UNCHANGED <<queue, control, starter>>

\* finally(): release the queue and run() the next item.
Releases(c) == /\ control = "loop"
               /\ phase[c] = "answered"
               /\ phase' = [phase EXCEPT ![c] = "finished"]
               /\ running' = FALSE
               /\ control' = "run"
               /\ UNCHANGED <<queue, starter>>

Returns(c) == ReturnsValue(c) \/ ReturnsPromise(c) \/ Throws(c)

Engine(c) == RunBegins(c) \/ Returns(c) \/ Settles(c) \/ Releases(c)

Next == \/ \E c \in Calls : Push(c) \/ PushFromMethod(c) \/ Engine(c)
        \/ RunReturns

Spec == Init /\ [][Next]_vars

\* The engine goes on with the code on its stack and with its callbacks, a
\* method returns, and the promise a method returned settles.
Fairness == WF_vars(RunReturns \/ \E c \in Calls : Engine(c))

FairSpec == Spec /\ Fairness

-------------------------------------------------------------------------------
Active == {c \in Calls : phase[c] \in {"executing", "awaiting"}}

Ended == {c \in Calls :
            phase[c] \in {"answered", "finished", "rejected", "lost"}}

\* "This can be used to prevent concurrent calls to a single method or a set
\* of methods" (PromiseQueue.ts:16): two methods never run at the same time,
\* whatever order pushes, settlements and the finally callbacks come in.
OneAtATime == \A c, d \in Active : c = d

\* A throw leaves the queue closed for good: this says that it happened.
Stalled == \E c \in Calls : phase[c] \in {"rejected", "lost"}

\* No lost wakeup: whenever the event loop has the thread and an item waits,
\* some call still holds the queue and its callback will run the item, unless
\* a method threw.
WaitersAreDriven ==
    (control = "loop" /\ queue # <<>>) =>
        (Stalled \/ \E c \in Calls : phase[c] \in {"awaiting", "answered"})

Serial == INSTANCE SerialExecutor
              WITH pending <- queue, active <- Active, ended <- Ended

\* Every behaviour, with or without throwing methods, is one of the serial
\* executor: calls begin in the order of their push(), one at a time.
BeginsInPushOrder == Serial!SafeSpec

\* The queue is a serial executor, and one that makes progress as long as no
\* method throws.
ImplementsSerialExecutor == Serial!SafeSpec /\ (<>Stalled \/ Serial!Fairness)

\* "Returns a promise.  If the method is synchronous, it will resolve when the
\* method completes; if the method returns a promise, it will resolve (or
\* reject)": a pushed call's promise eventually settles.
EveryCallSettles ==
    \A c \in Calls :
        phase[c] = "queued" ~> phase[c] \in {"answered", "finished", "rejected"}
===============================================================================
