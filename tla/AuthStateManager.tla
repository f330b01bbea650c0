--------------------------- MODULE AuthStateManager ---------------------------
(* lib/core/AuthStateManager.ts: every added or removed event of the token     *)
(* manager starts an evaluation of the auth state and cancels the one under    *)
(* way; the last one publishes what it found.                                  *)
(*                                                                             *)
(* The content of the token storage is a version number that grows with every  *)
(* change.  An evaluation asks isAuthenticated(), takes the tokens when the    *)
(* answer comes, passes transformAuthState (one at a time, in order) and then  *)
(* publishes or, when it was canceled, only settles.                           *)
EXTENDS Naturals, Sequences

CONSTANTS MaxEvals,     \* bound on the evaluations started
          MaxTokens,    \* bound on the changes of the token storage
          MaxCanceled,  \* MAX_PROMISE_CANCEL_TIMES
          Callers,      \* callers that await updateAuthState() once
          Reacts,       \* whether a subscriber may update in its handler
          Throws,       \* whether one may throw there
          AutoRemove    \* whether isAuthenticated() removes expired tokens

Evals == 1..MaxEvals
None == 0

ASSUME AuthStateAssumption == /\ MaxEvals \in Nat /\ MaxTokens \in Nat \ {0}
                              /\ MaxCanceled \in Nat
                              /\ Reacts \in BOOLEAN /\ Throws \in BOOLEAN
                              /\ AutoRemove \in BOOLEAN

VARIABLES tokens,     \* the version in the token storage
          made,       \* the number of evaluations started
          stage,      \* how far each evaluation has come
          read,       \* the version isAuthenticated() judged
          snapshot,   \* the version getTokensSync() returned
          line,       \* evaluations in _transformQueue, the running one first
          pending,    \* _pending.updateAuthStatePromise
          times,      \* _pending.canceledTimes
          canceled,   \* the evaluations that were canceled
          authState,  \* _authState
          waits,      \* the evaluation each caller's finalPromise() is on
          since,      \* the version when the caller called
          refused,    \* history: the last update got no evaluation of its own
          orphaned    \* history: one ran on that _pending did not know

evals == <<made, stage, read, snapshot, line, pending, times, canceled,
           refused, orphaned>>
vars == <<tokens, evals, authState, waits, since>>

NoState == [tokens |-> 0, read |-> 0, error |-> FALSE]

TypeOK == /\ tokens \in 1..MaxTokens
          /\ made \in 0..MaxEvals
          /\ stage \in [Evals -> {"new", "checking", "line", "catching", "settled",
                                  "stuck"}]
          /\ read \in [Evals -> 0..MaxTokens]
          /\ snapshot \in [Evals -> 0..MaxTokens]
          /\ line \in Seq(Evals)
          /\ pending \in Evals \cup {None}
          /\ times \in 0..MaxCanceled
          /\ canceled \subseteq Evals
          /\ authState \in [tokens : 0..MaxTokens, read : 0..MaxTokens,
                            error : BOOLEAN]
          /\ waits \in [Callers -> Evals \cup {None}]
          /\ since \in [Callers -> 0..MaxTokens]
          /\ refused \in BOOLEAN /\ orphaned \in BOOLEAN

Init == /\ tokens = 1
        /\ made = 0
        /\ stage = [p \in Evals |-> "new"]
        /\ read = [p \in Evals |-> 0]
        /\ snapshot = [p \in Evals |-> 0]
        /\ line = <<>>
        /\ pending = None
        /\ times = 0
        /\ canceled = {}
        /\ authState = NoState
        /\ waits = [c \in Callers |-> None]
        /\ since = [c \in Callers |-> 0]
        /\ refused = FALSE /\ orphaned = FALSE

-------------------------------------------------------------------------------
(* What updateAuthState() does before it returns, as a function of the part of *)
(* the state it works on.                                                      *)

Here == [made |-> made, stage |-> stage, read |-> read, pending |-> pending,
         times |-> times, canceled |-> canceled, refused |-> refused]

Running(s) == {p \in Evals : s.stage[p] \in {"checking", "line", "catching"}}

\* cancel(): its handler forgets the promise and counts.
Cancel(s) == IF s.pending = None THEN s
             ELSE [s EXCEPT !.canceled = @ \cup {s.pending},
                            !.pending = None,
                            !.times = @ + 1]

\* A new CancelablePromise, whose executor asks isAuthenticated() at once; it
\* judges version v.
NewEval(s, v) == [s EXCEPT !.made = @ + 1,
                           !.stage[s.made + 1] = "checking",
                           !.read[s.made + 1] = v,
                           !.pending = s.made + 1,
                           !.refused = FALSE]

GivesUp(s) == s.pending # None /\ s.times >= MaxCanceled

\* Mutant of Update: an evaluation under way serves the new call too.
UpdateJoining(s, v) == IF s.pending # None THEN s ELSE NewEval(s, v)

Update(s, v) == IF GivesUp(s) THEN [s EXCEPT !.refused = TRUE]
                ELSE NewEval(Cancel(s), v)

\* The same when isAuthenticated() finds an expired token and removes it before
\* it returns: the removed event starts an evaluation within this one, and
\* storing this one's promise afterwards forgets the inner one's.
UpdateRemoving(s, v) == LET outer == NewEval(Cancel(s), v)
                            inner == NewEval([outer EXCEPT !.pending = None], v)
                        IN [inner EXCEPT !.pending = outer.pending]

\* The state after it.
Becomes(s) == /\ s.made <= MaxEvals
              /\ made' = s.made
              /\ stage' = s.stage
              /\ read' = s.read
              /\ pending' = s.pending
              /\ times' = s.times
              /\ canceled' = s.canceled
              /\ refused' = s.refused
              /\ orphaned' = (orphaned \/ \E p \in Running(s) \ s.canceled :
                                              p # s.pending)

Room(n) == made + n <= MaxEvals

-------------------------------------------------------------------------------
\* The token storage changes and n events are emitted, one update for each:
\* add() and remove() emit one, setTokens() one or two per type.
TokensChange(n) == /\ tokens < MaxTokens
                   /\ Room(n)
                   /\ tokens' = tokens + 1
                   /\ LET one == Update(Here, tokens') IN
                         Becomes(IF n = 1 THEN one ELSE Update(one, tokens'))
                   /\ UNCHANGED <<snapshot, line, authState, waits, since>>

\* A caller calls updateAuthState() and awaits it.
Call(c) == /\ waits[c] = None /\ since[c] = 0
           /\ Room(1)
           /\ Becomes(Update(Here, tokens))
           /\ waits' = [waits EXCEPT ![c] = pending']
           /\ since' = [since EXCEPT ![c] = tokens]
           /\ UNCHANGED <<tokens, snapshot, line, authState>>

\* A call whose isAuthenticated() removes an expired token.
CallRemoving(c) == /\ AutoRemove
                   /\ waits[c] = None /\ since[c] = 0
                   /\ ~GivesUp(Here)
                   /\ tokens < MaxTokens
                   /\ Room(2)
                   /\ tokens' = tokens + 1
                   /\ Becomes(UpdateRemoving(Here, tokens'))
                   /\ waits' = [waits EXCEPT ![c] = pending']
                   /\ since' = [since EXCEPT ![c] = tokens]
                   /\ UNCHANGED <<snapshot, line, authState>>

\* isAuthenticated() answers.  A canceled evaluation settles; another one takes
\* the tokens and joins the transform queue.
Checked(p) == /\ stage[p] = "checking"
              /\ IF p \in canceled
                 THEN /\ stage' = [stage EXCEPT ![p] = "settled"]
                      /\ UNCHANGED <<snapshot, line>>
                 ELSE /\ stage' = [stage EXCEPT ![p] = "line"]
                      /\ snapshot' = [snapshot EXCEPT ![p] = tokens]
                      /\ line' = Append(line, p)
              /\ UNCHANGED <<tokens, made, read, pending, times, canceled,
                             refused, orphaned, authState, waits, since>>

\* The evaluation p is over: it settles, and _pending starts afresh, whichever
\* evaluation it was on.
Settled(s, p) == [s EXCEPT !.stage[p] = "settled", !.pending = None, !.times = 0]

\* Mutant of Leaves: transforms run concurrently and end in any order.
LeavesAnyTime(p) == \E i \in DOMAIN line :
                       /\ p = line[i]
                       /\ line' = SelectSeq(line, LAMBDA q : q # p)

Leaves(p) == /\ line # <<>>
             /\ p = Head(line)
             /\ line' = Tail(line)

\* emitAndResolve() is called of p: with what the transform returned, with its
\* error, or with the error of a subscriber that threw.  That catch() is one
\* microtask away, nearer than the end of the next transform.
Emits(p, error) == \/ Leaves(p) /\ \A q \in Evals : stage[q] # "catching"
                   \/ error /\ stage[p] = "catching" /\ UNCHANGED line

\* Mutant of SettlesCanceled: the promise is not resolved.
LeavesCanceled(p) == /\ Leaves(p)
                     /\ p \in canceled
                     /\ UNCHANGED <<tokens, made, stage, read, snapshot,
                                    pending, times, canceled, refused,
                                    orphaned, authState, waits, since>>

\* emitAndResolve() of a canceled evaluation.
SettlesCanceled(p) == /\ Emits(p, TRUE)
                      /\ p \in canceled
                      /\ stage' = [stage EXCEPT ![p] = "settled"]
                      /\ UNCHANGED <<tokens, made, read, snapshot, pending, times,
                                     canceled, refused, orphaned, authState,
                                     waits, since>>

\* What p publishes.
Found(p, error) == [tokens |-> snapshot[p], read |-> read[p], error |-> error]

\* Mutant of Publishes: an error is not emitted.
PublishesNoError(p, error) ==
    /\ Emits(p, error)
    /\ p \notin canceled
    /\ authState' = IF error THEN authState ELSE Found(p, error)
    /\ Becomes(Settled(Here, p))
    /\ UNCHANGED <<tokens, snapshot, waits, since>>

\* emitAndResolve() of any other: nothing new, or a new state is emitted to
\* subscribers that do not update.
Publishes(p, error) == /\ Emits(p, error)
                       /\ p \notin canceled
                       /\ authState' = Found(p, error)
                       /\ Becomes(Settled(Here, p))
                       /\ UNCHANGED <<tokens, snapshot, waits, since>>

\* A subscriber updates, or changes the tokens, while the state is emitted.
PublishesToReacting(p, error, change) ==
    /\ Reacts
    /\ Emits(p, error)
    /\ p \notin canceled
    /\ authState # Found(p, error)
    /\ authState' = Found(p, error)
    /\ change => tokens < MaxTokens
    /\ Room(1)
    /\ tokens' = IF change THEN tokens + 1 ELSE tokens
    /\ Becomes(Settled(Update(Here, tokens'), p))
    /\ UNCHANGED <<snapshot, waits, since>>

\* A subscriber throws, possibly after another one that updates: p is not resolved
\* and _pending stays, but its catch() emits the error next.  A throw then is not
\* caught, and p is stuck.
PublishesToThrowing(p, error, update) ==
    /\ Throws
    /\ Emits(p, error)
    /\ p \notin canceled
    /\ authState # Found(p, error)
    /\ authState' = Found(p, error)
    /\ update => Reacts /\ Room(1)
    /\ LET s == IF update THEN Update(Here, tokens) ELSE Here IN
          Becomes([s EXCEPT !.stage[p] = IF error THEN "stuck" ELSE "catching"])
    /\ UNCHANGED <<tokens, snapshot, waits, since>>

\* Mutant of Returns: the caller does not go on to the current evaluation.
ReturnsAtOnce(c) == /\ waits[c] # None
                    /\ stage[waits[c]] = "settled"
                    /\ waits' = [waits EXCEPT ![c] = None]
                    /\ UNCHANGED <<tokens, evals, authState, since>>

\* The evaluation a caller waits for has settled: go on with the current one,
\* or return getAuthState().
Returns(c) == /\ waits[c] # None
              /\ stage[waits[c]] = "settled"
              /\ waits' = [waits EXCEPT
                             ![c] = IF pending # waits[c] THEN pending ELSE None]
              /\ UNCHANGED <<tokens, evals, authState, since>>

-------------------------------------------------------------------------------
Progress == \/ \E p \in Evals :
                  \/ Checked(p)
                  \/ SettlesCanceled(p)
                  \/ \E error \in BOOLEAN :
                        \/ Publishes(p, error)
                        \/ \E change \in BOOLEAN :
                              \/ PublishesToReacting(p, error, change)
                              \/ PublishesToThrowing(p, error, change)
            \/ \E c \in Callers : Returns(c)

Next == \/ \E n \in 1..2 : TokensChange(n)
        \/ \E c \in Callers : Call(c) \/ CallRemoving(c)
        \/ Progress

Spec == Init /\ [][Next]_vars

\* isAuthenticated() and transformAuthState() answer; callbacks run.
FairSpec == Spec /\ WF_vars(Progress)

-------------------------------------------------------------------------------
\* Subscribers never see the auth state go back to tokens that were replaced,
\* however evaluations are canceled, forgotten or started by subscribers.
NeverGoesBack == [][authState'.tokens >= authState.tokens]_vars

\* When no evaluation is left, the last published state is of the tokens in the
\* storage, unless updates were refused for the limit on cancellations.
LastStateIsCurrent ==
    (made > 0 /\ Running(Here) = {} /\ ~refused) => authState.tokens = tokens

\* isAuthenticated and the tokens of a published state belong together, when the
\* evaluation is the one updates cancel and none was refused since it began.
StateIsConsistent ==
    [][authState' # authState /\ pending # None /\ ~refused
          /\ stage[pending] \in {"line", "catching"} /\ stage'[pending] # stage[pending]
          => authState'.read = authState'.tokens]_vars

\* A caller that awaited updateAuthState() finds tokens at least as new as those
\* stored when it called, unless the last update was refused or an evaluation
\* ran on that nobody could cancel.
CallersSeeTheirTokens ==
    [][\A c \in Callers :
          (waits[c] # None /\ waits'[c] = None /\ ~refused /\ ~orphaned)
              => authState.tokens >= since[c]]_vars

\* Every caller is answered, however subscribers update and throw, unless one threw
\* at the error that another throw, or the transform, had caused.
Stuck(c) == waits[c] # None /\ stage[waits[c]] = "stuck"
CallersAreAnswered ==
    \A c \in Callers : waits[c] # None ~> waits[c] = None \/ Stuck(c)

\* "The authState is re-evaluated when updateAuthState() is called"
\* (README.md:2086): so when nothing runs any more the state is current.
AuthStateIsCurrent ==
    (made > 0 /\ Running(Here) = {}) => authState.tokens = tokens
===============================================================================
