------------------------ MODULE AuthStateManagerProofs ------------------------
(* What holds of the calls that MCAnswered follows until they are answered.     *)
(* First AuthStateManager, for every number of evaluations, of versions of the  *)
(* tokens, of callers and of cancellations: states are published in the order   *)
(* of their tokens, the last one is of the tokens in the storage, and a         *)
(* published state is of one version.  Then TokenFlows and AuthnPoll.           *)
EXTENDS MCAnswered, TLAPS, SequenceTheorems

USE AuthStateAssumption

Stages == {"new", "checking", "line", "catching", "settled", "stuck"}

\* The records that updateAuthState() works on.
Parts == [made : Nat,
          stage : [Evals -> Stages],
          read : [Evals -> 0..MaxTokens],
          pending : Evals \cup {None},
          times : 0..MaxCanceled,
          canceled : SUBSET Evals,
          refused : BOOLEAN]

\* Nothing is known of an evaluation before it starts.
NotAhead(s) == /\ s.made <= MaxEvals
               /\ s.pending <= s.made
               /\ \A p \in Evals : p > s.made => s.stage[p] = "new" /\ p \notin s.canceled

\* The transform queue holds evaluations that wait, each once, in the order in
\* which they took their tokens, and none took older ones than were published.
LineInOrder ==
    /\ \A i \in 1..Len(line) : /\ stage[line[i]] = "line"
                               /\ authState.tokens <= snapshot[line[i]]
    /\ \A i, j \in 1..Len(line) :
          i < j => line[i] # line[j] /\ snapshot[line[i]] <= snapshot[line[j]]

\* Tokens that were taken, published or noted by a caller had been stored, and
\* an evaluation whose subscriber threw has just published its own.
Versions == /\ authState.tokens <= tokens
            /\ \A p \in Evals : snapshot[p] <= tokens
            /\ \A p \in Evals : stage[p] = "catching" => snapshot[p] = authState.tokens
            /\ \A c \in Callers : since[c] <= tokens

\* An evaluation that will publish the tokens now in the storage.
WillPublish(p) == /\ p \notin canceled
                  /\ \/ stage[p] = "checking"
                     \/ stage[p] = "line" /\ snapshot[p] = tokens

\* Unless the last update was refused, the current tokens are published, or will
\* be.
NotForgotten == made > 0 /\ ~refused
                    => authState.tokens = tokens \/ \E p \in Evals : WillPublish(p)

\* Unless the last update was refused, what the evaluation in _pending judges is
\* what it takes.
Judged == pending # None /\ ~refused =>
             /\ stage[pending] = "checking" => read[pending] = tokens
             /\ stage[pending] \in {"line", "catching"} => read[pending] = snapshot[pending]

\* An evaluation that an update cannot cancel has been counted as one.
Counted == ~orphaned => \A p \in Running(Here) \ canceled : p = pending

\* A caller waits for an evaluation that was started.
WaitsForStarted == \A c \in Callers : waits[c] # None => made > 0

IInv == /\ TypeOK
        /\ NotAhead(Here)
        /\ LineInOrder
        /\ Versions
        /\ NotForgotten
        /\ Judged
        /\ Counted
        /\ WaitsForStarted

-------------------------------------------------------------------------------
(* What updateAuthState() makes of the state it finds.                         *)

\* In u an evaluation that s had not started will judge version v, and no other
\* can take its place in _pending.
Begun(s, u, v) == /\ u.pending \in Evals /\ u.pending > s.made
                  /\ u.pending \notin u.canceled
                  /\ u.stage[u.pending] = "checking"
                  /\ u.read[u.pending] = v

\* From s to u evaluations were started and canceled, and went no further; those
\* of u that an update cannot cancel are not hidden by a refusal.
Grows(s, u, v) == /\ u \in Parts
                  /\ NotAhead(u)
                  /\ s.made <= u.made
                  /\ \A p \in Evals : p <= s.made => u.stage[p] = s.stage[p]
                  /\ \A p \in Evals : p > s.made => u.stage[p] \in {"new", "checking"}
                  /\ u.refused \/ Begun(s, u, v)

\* The state at hand is one of those records.
LEMMA HereTyped ==
    ASSUME TypeOK
    PROVE  Here \in Parts
  BY DEF TypeOK, Here, Parts, Stages

\* cancel() leaves nothing pending, and cancels only what was started.
LEMMA CancelKeeps ==
    ASSUME NEW s \in Parts, NotAhead(s), ~GivesUp(s)
    PROVE  /\ Cancel(s) \in Parts /\ NotAhead(Cancel(s))
           /\ Cancel(s).made = s.made
           /\ Cancel(s).stage = s.stage
  <1>1. CASE s.pending = None
    BY <1>1 DEF Cancel
  <1>2. CASE s.pending # None
    <2>1. s.pending \in Evals /\ s.times + 1 \in 0..MaxCanceled
      BY <1>2 DEF GivesUp, Parts
    <2>2. Cancel(s) = [s EXCEPT !.canceled = @ \cup {s.pending},
                                !.pending = None,
                                !.times = @ + 1]
      BY <1>2 DEF Cancel
    <2>3. Cancel(s) \in Parts
      <3>1. s.canceled \cup {s.pending} \in SUBSET Evals
        BY <2>1 DEF Parts
      <3> QED
        BY <2>1, <2>2, <3>1 DEF Parts
    <2>4. NotAhead(Cancel(s))
      BY <2>1, <2>2 DEF Parts, NotAhead, None, Evals
    <2> QED
      BY <2>2, <2>3, <2>4 DEF Parts
  <1> QED
    BY <1>1, <1>2

\* A new evaluation is the next one, and judges the version it is given.
LEMMA NewEvalGrows ==
    ASSUME NEW s \in Parts, NotAhead(s), s.made < MaxEvals, NEW v \in 0..MaxTokens
    PROVE  /\ Grows(s, NewEval(s, v), v)
           /\ NewEval(s, v).made = s.made + 1
           /\ NewEval(s, v).pending = s.made + 1
           /\ NewEval(s, v).canceled = s.canceled
           /\ NewEval(s, v).refused = FALSE
  <1> DEFINE u == NewEval(s, v)
  <1>1. s.made \in Nat /\ s.made + 1 \in Evals
    BY DEF Parts, Evals
  <1>2. /\ u.made = s.made + 1 /\ u.pending = s.made + 1
        /\ u.stage = [s.stage EXCEPT ![s.made + 1] = "checking"]
        /\ u.read = [s.read EXCEPT ![s.made + 1] = v]
        /\ u.canceled = s.canceled /\ u.refused = FALSE
    BY DEF NewEval, Parts
  <1>3. u \in Parts
    <2>1. /\ [s.stage EXCEPT ![s.made + 1] = "checking"] \in [Evals -> Stages]
          /\ [s.read EXCEPT ![s.made + 1] = v] \in [Evals -> 0..MaxTokens]
      BY DEF Parts, Stages
    <2>2. u = [s EXCEPT !.made = s.made + 1,
                        !.stage = [s.stage EXCEPT ![s.made + 1] = "checking"],
                        !.read = [s.read EXCEPT ![s.made + 1] = v],
                        !.pending = s.made + 1,
                        !.refused = FALSE]
      BY DEF NewEval, Parts
    <2> DEFINE st == [s.stage EXCEPT ![s.made + 1] = "checking"]
    <2> DEFINE rd == [s.read EXCEPT ![s.made + 1] = v]
    <2>3. /\ s.made + 1 \in Nat /\ s.made + 1 \in Evals
          /\ st \in [Evals -> Stages] /\ rd \in [Evals -> 0..MaxTokens]
      BY <1>1, <2>1
    <2>4. u = [s EXCEPT !.made = s.made + 1, !.stage = st, !.read = rd,
                        !.pending = s.made + 1, !.refused = FALSE]
      BY <2>2
    <2> HIDE DEF u, st, rd
    <2> QED
      BY <2>3, <2>4 DEF Parts
  <1>4. NotAhead(u)
    BY <1>1, <1>2 DEF NotAhead, Parts, Evals
  <1>5. Begun(s, u, v)
    BY <1>1, <1>2 DEF Begun, NotAhead, Parts
  <1>6. \A p \in Evals : /\ p <= s.made => u.stage[p] = s.stage[p]
                         /\ p > s.made => u.stage[p] \in {"new", "checking"}
    BY <1>1, <1>2 DEF NotAhead, Parts, Evals
  <1> QED
    BY <1>1, <1>2, <1>3, <1>4, <1>5, <1>6 DEF Grows

\* One update.
LEMMA UpdateGrows ==
    ASSUME NEW s \in Parts, NotAhead(s), s.made < MaxEvals, NEW v \in 0..MaxTokens
    PROVE  Grows(s, Update(s, v), v) /\ Update(s, v).made <= s.made + 1
  <1>1. CASE GivesUp(s)
    <2>1. Update(s, v) = [s EXCEPT !.refused = TRUE]
      BY <1>1 DEF Update
    <2>2. Update(s, v) \in Parts
      BY <2>1 DEF Parts
    <2>3. /\ Update(s, v).made = s.made /\ Update(s, v).stage = s.stage
          /\ Update(s, v).pending = s.pending
          /\ Update(s, v).canceled = s.canceled
          /\ Update(s, v).refused = TRUE
      BY <2>1 DEF Parts
    <2>4. s.made \in Nat
      BY DEF Parts
    <2>5. NotAhead(Update(s, v))
      BY <2>3 DEF NotAhead
    <2>6. \A p \in Evals : p > s.made => s.stage[p] \in {"new", "checking"}
      BY DEF NotAhead
    <2> QED
      BY <2>2, <2>3, <2>4, <2>5, <2>6 DEF Grows
  <1>2. CASE ~GivesUp(s)
    <2>1. Update(s, v) = NewEval(Cancel(s), v)
      BY <1>2 DEF Update
    <2>2. /\ Cancel(s) \in Parts /\ NotAhead(Cancel(s))
          /\ Cancel(s).made = s.made /\ Cancel(s).stage = s.stage
      BY <1>2, CancelKeeps
    <2>3. Grows(Cancel(s), Update(s, v), v) /\ Update(s, v).made = s.made + 1
      BY <2>1, <2>2, NewEvalGrows
    <2> QED
      BY <2>2, <2>3 DEF Grows, Begun, Parts
  <1> QED
    BY <1>1, <1>2

\* Two updates.
LEMMA TwoUpdatesGrow ==
    ASSUME NEW s \in Parts, NotAhead(s), s.made + 2 <= MaxEvals,
           NEW v \in 0..MaxTokens
    PROVE  Grows(s, Update(Update(s, v), v), v)
  <1> DEFINE u == Update(s, v)
  <1> DEFINE w == Update(u, v)
  <1>1. s.made \in Nat /\ s.made < MaxEvals
    BY DEF Parts
  <1>2. Grows(s, u, v) /\ u.made <= s.made + 1
    BY <1>1, UpdateGrows
  <1>3. u \in Parts /\ NotAhead(u) /\ u.made \in Nat /\ u.made < MaxEvals
    BY <1>1, <1>2 DEF Grows, Parts
  <1>4. Grows(u, w, v)
    BY <1>3, UpdateGrows
  <1>5. w.pending \in Evals => w.pending \in Nat
    BY DEF Evals
  <1> HIDE DEF u, w
  <1>6. \A p \in Evals : /\ p <= s.made => w.stage[p] = s.stage[p]
                         /\ p > s.made => w.stage[p] \in {"new", "checking"}
    BY <1>1, <1>2, <1>3, <1>4 DEF Grows, Evals
  <1>7. w.refused \/ Begun(s, w, v)
    BY <1>1, <1>2, <1>3, <1>4, <1>5 DEF Grows, Begun
  <1>8. /\ w \in Parts /\ NotAhead(w) /\ w.made \in Nat /\ s.made <= w.made
    BY <1>1, <1>2, <1>3, <1>4 DEF Grows, Parts
  <1>9. Grows(s, w, v)
    BY <1>6, <1>7, <1>8 DEF Grows
  <1> QED
    BY <1>9 DEF u, w

\* An update whose isAuthenticated() removes a token, and so updates too.
LEMMA UpdateRemovingGrows ==
    ASSUME NEW s \in Parts, NotAhead(s), ~GivesUp(s), s.made + 2 <= MaxEvals,
           NEW v \in 0..MaxTokens
    PROVE  Grows(s, UpdateRemoving(s, v), v)
  <1> DEFINE outer == NewEval(Cancel(s), v)
  <1> DEFINE mid == [outer EXCEPT !.pending = None]
  <1> DEFINE inner == NewEval(mid, v)
  <1> DEFINE w == [inner EXCEPT !.pending = outer.pending]
  <1>1. w = UpdateRemoving(s, v)
    BY DEF UpdateRemoving
  <1>2. s.made \in Nat /\ s.made < MaxEvals
    BY DEF Parts
  <1>3. /\ Cancel(s) \in Parts /\ NotAhead(Cancel(s))
        /\ Cancel(s).made = s.made /\ Cancel(s).stage = s.stage
    BY CancelKeeps
  <1>4. /\ Grows(Cancel(s), outer, v)
        /\ outer.made = s.made + 1 /\ outer.pending = s.made + 1
        /\ outer.refused = FALSE
    BY <1>2, <1>3, NewEvalGrows
  <1>5. outer \in Parts /\ NotAhead(outer)
    BY <1>4 DEF Grows
  <1> HIDE DEF outer
  <1>6. /\ mid \in Parts
        /\ mid.made = s.made + 1 /\ mid.stage = outer.stage
        /\ mid.read = outer.read /\ mid.canceled = outer.canceled
        /\ mid.pending = None
    BY <1>4, <1>5 DEF Parts
  <1>7. NotAhead(mid)
    BY <1>2, <1>4, <1>5, <1>6 DEF NotAhead, None
  <1> HIDE DEF mid
  <1>8. /\ Grows(mid, inner, v) /\ inner.made = s.made + 2
        /\ inner.canceled = mid.canceled
        /\ inner.refused = FALSE
        /\ inner.read = [mid.read EXCEPT ![s.made + 2] = v]
    <2>1. mid.made < MaxEvals /\ s.made + 1 + 1 = s.made + 2
      BY <1>2, <1>6
    <2>2. inner.read = [mid.read EXCEPT ![s.made + 2] = v]
      BY <1>6, <2>1 DEF NewEval, Parts
    <2> QED
      BY <1>6, <1>7, <2>1, <2>2, NewEvalGrows
  <1>9. inner \in Parts /\ NotAhead(inner)
    BY <1>8 DEF Grows
  <1> HIDE DEF inner
  <1>10. /\ w \in Parts
         /\ w.made = s.made + 2 /\ w.stage = inner.stage
         /\ w.read = inner.read /\ w.canceled = inner.canceled
         /\ w.pending = s.made + 1
    BY <1>2, <1>4, <1>5, <1>8, <1>9 DEF Parts, Evals
  <1> HIDE DEF w
  <1>11. NotAhead(w)
    BY <1>2, <1>9, <1>10, <1>8 DEF NotAhead
  <1>12. Begun(s, w, v)
    <2>1. s.made + 1 \in Evals /\ s.made + 1 # s.made + 2
      BY <1>2 DEF Evals
    <2>2. s.made + 1 \notin outer.canceled /\ outer.stage[s.made + 1] = "checking"
          /\ outer.read[s.made + 1] = v
      BY <1>4 DEF Begun, Grows
    <2>3. w.stage[s.made + 1] = "checking"
      BY <1>6, <1>8, <1>10, <2>1, <2>2 DEF Grows, Evals
    <2>4. w.read[s.made + 1] = v
      BY <1>6, <1>8, <1>10, <2>1, <2>2 DEF Parts
    <2> QED
      BY <1>2, <1>6, <1>8, <1>10, <2>1, <2>2, <2>3, <2>4 DEF Begun
  <1>13. \A p \in Evals : /\ p <= s.made => w.stage[p] = s.stage[p]
                          /\ p > s.made => w.stage[p] \in {"new", "checking"}
    BY <1>2, <1>3, <1>4, <1>6, <1>8, <1>10 DEF Grows, Evals
  <1>14. Grows(s, w, v)
    BY <1>2, <1>10, <1>11, <1>12, <1>13 DEF Grows
  <1> QED
    BY <1>1, <1>14

-------------------------------------------------------------------------------
(* What the steps have in common.                                              *)

\* The part of the type invariant that updateAuthState() does not touch.
Others == /\ tokens \in 1..MaxTokens
          /\ snapshot \in [Evals -> 0..MaxTokens]
          /\ line \in Seq(Evals)
          /\ authState \in [tokens : 0..MaxTokens, read : 0..MaxTokens,
                            error : BOOLEAN]
          /\ waits \in [Callers -> Evals \cup {None}]
          /\ since \in [Callers -> 0..MaxTokens]

\* A state made of such a record is well formed, and counts its orphans.
LEMMA BecomesKeeps ==
    ASSUME TypeOK, NEW s \in Parts, NotAhead(s), Becomes(s), Others'
    PROVE  TypeOK' /\ NotAhead(Here)' /\ Counted'
  <1>1. TypeOK'
    <2>1. /\ made' \in 0..MaxEvals /\ stage' \in [Evals -> Stages]
          /\ read' \in [Evals -> 0..MaxTokens]
          /\ pending' \in Evals \cup {None} /\ times' \in 0..MaxCanceled
          /\ canceled' \subseteq Evals /\ refused' \in BOOLEAN
      BY DEF Becomes, Parts
    <2>2. orphaned' \in BOOLEAN
      BY DEF Becomes, TypeOK
    <2> QED
      BY <2>1, <2>2 DEF TypeOK, Others, Stages
  <1>2. NotAhead(Here)'
    BY DEF Becomes, NotAhead, Here
  <1>3. Counted'
    <2>1. Running(Here)' = Running(s)
      BY DEF Becomes, Running, Here
    <2> QED
      BY <2>1 DEF Becomes, Counted
  <1> QED
    BY <1>1, <1>2, <1>3

\* Starting evaluations, with or after a change of the tokens, keeps everything
\* but what is said of callers.
LEMMA StartsKeep ==
    ASSUME IInv, NEW u, Grows(Here, u, tokens'), Becomes(u), Others',
           tokens <= tokens', UNCHANGED <<snapshot, line, authState>>
    PROVE  /\ TypeOK' /\ NotAhead(Here)' /\ Counted'
           /\ LineInOrder' /\ NotForgotten' /\ Judged'
           /\ authState'.tokens <= tokens'
           /\ \A p \in Evals : snapshot'[p] <= tokens'
           /\ \A p \in Evals : stage'[p] = "catching" => snapshot'[p] = authState'.tokens
           /\ made <= made'
           /\ pending' # None => made' > 0
  <1>1. u \in Parts /\ NotAhead(u) /\ TypeOK
    BY DEF Grows, IInv
  <1>2. TypeOK' /\ NotAhead(Here)' /\ Counted'
    BY <1>1, BecomesKeeps
  <1>3. \A p \in Evals : \/ stage'[p] = stage[p]
                         \/ stage[p] = "new" /\ stage'[p] = "checking"
    BY SMTT(30), <1>1 DEF Becomes, Grows, Here, IInv, NotAhead, TypeOK, Evals
  <1>4. LineInOrder'
    <2>1. \A i \in 1..Len(line) : line[i] \in Evals
      BY <1>1 DEF TypeOK
    <2> QED
      BY <1>3, <2>1 DEF LineInOrder, IInv
  <1>5. /\ \A p \in Evals : snapshot'[p] <= tokens'
        /\ authState'.tokens <= tokens'
    BY <1>1, <1>2 DEF IInv, Versions, TypeOK
  <1>6. \A p \in Evals : stage'[p] = "catching" => snapshot'[p] = authState'.tokens
    BY <1>3 DEF IInv, Versions
  <1>7. ~refused' => /\ pending' \in Evals /\ pending' \notin canceled'
                     /\ stage'[pending'] = "checking" /\ read'[pending'] = tokens'
    BY DEF Grows, Begun, Becomes
  <1>8. NotForgotten' /\ Judged'
    BY <1>7 DEF NotForgotten, WillPublish, Judged
  <1>9. made <= made'
    BY DEF Grows, Becomes, Here
  <1>10. pending' # None => made' > 0
    BY <1>2 DEF NotAhead, Here, TypeOK, Evals, None
  <1> QED
    BY <1>2, <1>4, <1>5, <1>6, <1>8, <1>9, <1>10

\* An evaluation whose emitAndResolve() is called has tokens as new as any
\* published, and those that wait behind it have newer ones.
LEMMA EmitsInOrder ==
    ASSUME IInv, NEW p \in Evals, NEW error \in BOOLEAN, Emits(p, error)
    PROVE  /\ line' \in Seq(Evals)
           /\ stage[p] \in {"line", "catching"}
           /\ authState.tokens <= snapshot[p]
           /\ \A q \in Evals : stage[q] = "catching" => snapshot[q] = snapshot[p]
           /\ \A i \in 1..Len(line') : /\ line'[i] \in Evals \ {p}
                                       /\ stage[line'[i]] = "line"
                                       /\ snapshot[p] <= snapshot[line'[i]]
           /\ \A i, j \in 1..Len(line') :
                 i < j => /\ line'[i] # line'[j]
                          /\ snapshot[line'[i]] <= snapshot[line'[j]]
  <1>1. TypeOK /\ LineInOrder /\ Versions
    BY DEF IInv
  <1>2. line \in Seq(Evals) /\ \A i \in 1..Len(line) : line[i] \in Evals
    BY <1>1 DEF TypeOK
  <1>3. CASE Leaves(p) /\ \A q \in Evals : stage[q] # "catching"
    <2>1. /\ line # <<>> /\ p = line[1] /\ line' = Tail(line)
          /\ 1 \in 1..Len(line)
      BY <1>2, <1>3 DEF Leaves
    <2>2. /\ line' \in Seq(Evals)
          /\ Len(line') = Len(line) - 1
          /\ \A i \in 1..Len(line') : /\ line'[i] = line[i + 1]
                                      /\ i + 1 \in 1..Len(line) /\ 1 < i + 1
      BY <1>2, <2>1
    <2>3. stage[p] = "line" /\ authState.tokens <= snapshot[p]
      BY <1>1, <2>1 DEF LineInOrder
    <2>4. \A i \in 1..Len(line') : /\ line'[i] \in Evals \ {p}
                                   /\ stage[line'[i]] = "line"
                                   /\ snapshot[p] <= snapshot[line'[i]]
      BY <1>1, <1>2, <2>1, <2>2 DEF LineInOrder
    <2>5. \A i, j \in 1..Len(line') :
             i < j => /\ line'[i] # line'[j]
                      /\ snapshot[line'[i]] <= snapshot[line'[j]]
      <3> SUFFICES ASSUME NEW i \in 1..Len(line'), NEW j \in 1..Len(line'), i < j
                   PROVE  /\ line'[i] # line'[j]
                          /\ snapshot[line'[i]] <= snapshot[line'[j]]
        OBVIOUS
      <3>1. i + 1 \in 1..Len(line) /\ j + 1 \in 1..Len(line) /\ i + 1 < j + 1
        BY <1>2, <2>2
      <3> DEFINE a == i + 1
      <3> DEFINE b == j + 1
      <3>2. a \in 1..Len(line) /\ b \in 1..Len(line) /\ a < b
        BY <3>1
      <3>3. line'[i] = line[a] /\ line'[j] = line[b]
        BY <2>2
      <3> HIDE DEF a, b
      <3>4. line[a] # line[b] /\ snapshot[line[a]] <= snapshot[line[b]]
        BY <1>1, <3>2 DEF LineInOrder
      <3> QED
        BY <3>3, <3>4
    <2> QED
      BY <1>3, <2>2, <2>3, <2>4, <2>5
  <1>4. CASE error /\ stage[p] = "catching" /\ UNCHANGED line
    BY <1>1, <1>2, <1>4 DEF LineInOrder, Versions, TypeOK
  <1> QED
    BY <1>3, <1>4 DEF Emits

\* Publishing keeps the order of the versions, whatever the subscribers start.
LEMMA PublishingKeeps ==
    ASSUME IInv, NEW p \in Evals, NEW error \in BOOLEAN, Emits(p, error),
           authState' = Found(p, error),
           NEW s \in Parts, NotAhead(s), Becomes(s),
           s.stage[p] \in {"catching", "settled", "stuck"},
           \A q \in Evals \ {p} : \/ s.stage[q] = stage[q]
                                  \/ stage[q] = "new" /\ s.stage[q] = "checking",
           tokens' \in 1..MaxTokens, tokens <= tokens',
           UNCHANGED <<snapshot, waits, since>>
    PROVE  /\ TypeOK' /\ NotAhead(Here)' /\ Counted' /\ LineInOrder' /\ Versions'
           /\ authState'.tokens = snapshot[p]
           /\ authState.tokens <= authState'.tokens
  <1>1. TypeOK /\ LineInOrder /\ Versions
    BY DEF IInv
  <1>2. /\ line' \in Seq(Evals)
        /\ stage[p] \in {"line", "catching"}
        /\ authState.tokens <= snapshot[p]
        /\ \A q \in Evals : stage[q] = "catching" => snapshot[q] = snapshot[p]
        /\ \A i \in 1..Len(line') : /\ line'[i] \in Evals \ {p}
                                    /\ stage[line'[i]] = "line"
                                    /\ snapshot[p] <= snapshot[line'[i]]
        /\ \A i, j \in 1..Len(line') :
              i < j => /\ line'[i] # line'[j]
                       /\ snapshot[line'[i]] <= snapshot[line'[j]]
    BY EmitsInOrder
  <1>3. /\ authState'.tokens = snapshot[p]
        /\ authState' \in [tokens : 0..MaxTokens, read : 0..MaxTokens,
                           error : BOOLEAN]
    BY <1>1 DEF Found, TypeOK
  <1>4. Others'
    BY <1>1, <1>2, <1>3 DEF TypeOK, Others
  <1>5. TypeOK' /\ NotAhead(Here)' /\ Counted'
    BY <1>1, <1>4, BecomesKeeps
  <1>6. stage' = s.stage
    BY DEF Becomes
  <1>7. LineInOrder'
    BY SMTT(30), <1>2, <1>3, <1>6 DEF LineInOrder
  <1>8. \A q \in Evals : stage'[q] = "catching" => snapshot[q] = snapshot[p]
    BY <1>2, <1>6
  <1>9. Versions'
    <2>1. \A q \in Evals : snapshot'[q] <= tokens'
      BY <1>1 DEF Versions, TypeOK
    <2>2. \A c \in Callers : since'[c] <= tokens'
      BY <1>1 DEF Versions, TypeOK
    <2> QED
      BY <1>3, <1>8, <2>1, <2>2 DEF Versions
  <1> QED
    BY <1>2, <1>3, <1>5, <1>7, <1>9

\* The current tokens are still published, or will be, when another evaluation
\* publishes.
LEMMA PublishingForgetsNone ==
    ASSUME IInv, NEW p \in Evals, NEW error \in BOOLEAN, Emits(p, error),
           authState' = Found(p, error),
           \A q \in Evals \ {p} : stage[q] # "new" => stage'[q] = stage[q],
           UNCHANGED <<tokens, snapshot, made, canceled, refused>>
    PROVE  NotForgotten'
  <1>1. TypeOK /\ Versions /\ NotForgotten
    BY DEF IInv
  <1>2. stage[p] \in {"line", "catching"} /\ authState.tokens <= snapshot[p]
    BY EmitsInOrder
  <1>3. authState'.tokens = snapshot[p] /\ snapshot[p] <= tokens
    BY <1>1 DEF Found, Versions
  <1>4. authState.tokens = tokens => authState'.tokens = tokens
    BY <1>1, <1>2, <1>3 DEF TypeOK
  <1>5. ASSUME NEW q \in Evals, WillPublish(q)
        PROVE  authState'.tokens = tokens \/ WillPublish(q)'
    BY <1>2, <1>3, <1>5 DEF WillPublish
  <1> QED
    BY <1>1, <1>4, <1>5 DEF NotForgotten

-------------------------------------------------------------------------------
(* Every step keeps IInv.                                                      *)

\* The token storage changes.
LEMMA TokensChangeKeeps ==
    ASSUME IInv, NEW n \in 1..2, TokensChange(n)
    PROVE  IInv'
  <1>1. /\ TypeOK /\ NotAhead(Here) /\ Here \in Parts /\ Here.made = made
        /\ Versions /\ WaitsForStarted
    BY HereTyped DEF IInv, Here
  <1>2. tokens' \in 1..MaxTokens /\ tokens <= tokens' /\ tokens' \in 0..MaxTokens
    BY <1>1 DEF TokensChange, TypeOK
  <1>3. Others'
    BY <1>1, <1>2 DEF TokensChange, TypeOK, Others
  <1>4. PICK u : Grows(Here, u, tokens') /\ Becomes(u)
    <2>1. CASE n = 1
      <3>1. Here.made < MaxEvals
        BY <1>1, <2>1 DEF TokensChange, Room, TypeOK
      <3> QED
        BY <1>1, <1>2, <2>1, <3>1, UpdateGrows DEF TokensChange
    <2>2. CASE n = 2
      <3>1. Here.made + 2 <= MaxEvals
        BY <1>1, <2>2 DEF TokensChange, Room
      <3> QED
        BY <1>1, <1>2, <2>2, <3>1, TwoUpdatesGrow DEF TokensChange
    <2> QED
      BY <2>1, <2>2
  <1>5. UNCHANGED <<snapshot, line, authState, waits, since>>
    BY DEF TokensChange
  <1>6. /\ TypeOK' /\ NotAhead(Here)' /\ Counted'
        /\ LineInOrder' /\ NotForgotten' /\ Judged'
        /\ authState'.tokens <= tokens'
        /\ \A p \in Evals : snapshot'[p] <= tokens'
        /\ \A p \in Evals : stage'[p] = "catching" => snapshot'[p] = authState'.tokens
        /\ made <= made'
    BY <1>2, <1>3, <1>4, <1>5, StartsKeep
  <1>7. \A c \in Callers : since'[c] <= tokens'
    BY <1>1, <1>2, <1>5 DEF Versions, TypeOK
  <1>8. WaitsForStarted'
    BY <1>1, <1>5, <1>6 DEF WaitsForStarted, TypeOK
  <1> QED
    BY <1>6, <1>7, <1>8 DEF IInv, Versions

\* A caller calls updateAuthState().
LEMMA CallsKeep ==
    ASSUME IInv, NEW c \in Callers, Call(c) \/ CallRemoving(c)
    PROVE  IInv'
  <1>1. /\ TypeOK /\ NotAhead(Here) /\ Here \in Parts /\ Here.made = made
        /\ Versions /\ WaitsForStarted
    BY HereTyped DEF IInv, Here
  <1>2. tokens' \in 1..MaxTokens /\ tokens <= tokens' /\ tokens' \in 0..MaxTokens
    BY <1>1 DEF Call, CallRemoving, TypeOK
  <1>3. PICK u : Grows(Here, u, tokens') /\ Becomes(u)
    <2>1. CASE Call(c)
      <3>1. Here.made < MaxEvals /\ tokens' = tokens
        BY <1>1, <2>1 DEF Call, Room, TypeOK
      <3> QED
        BY <1>1, <1>2, <2>1, <3>1, UpdateGrows DEF Call
    <2>2. CASE CallRemoving(c)
      <3>1. Here.made + 2 <= MaxEvals /\ ~GivesUp(Here)
        BY <1>1, <2>2 DEF CallRemoving, Room
      <3> QED
        BY <1>1, <1>2, <2>2, <3>1, UpdateRemovingGrows DEF CallRemoving
    <2> QED
      BY <2>1, <2>2
  <1>4. /\ UNCHANGED <<snapshot, line, authState>>
        /\ waits' = [waits EXCEPT ![c] = pending']
        /\ since' = [since EXCEPT ![c] = tokens]
    BY DEF Call, CallRemoving
  <1>5. pending' \in Evals \cup {None}
    BY <1>3 DEF Grows, Becomes, Parts
  <1>6. Others'
    BY <1>1, <1>2, <1>4, <1>5 DEF TypeOK, Others
  <1>7. /\ TypeOK' /\ NotAhead(Here)' /\ Counted'
        /\ LineInOrder' /\ NotForgotten' /\ Judged'
        /\ authState'.tokens <= tokens'
        /\ \A p \in Evals : snapshot'[p] <= tokens'
        /\ \A p \in Evals : stage'[p] = "catching" => snapshot'[p] = authState'.tokens
        /\ made <= made'
        /\ pending' # None => made' > 0
    BY <1>2, <1>3, <1>4, <1>6, StartsKeep
  <1>8. \A d \in Callers : since'[d] <= tokens'
    BY <1>1, <1>2, <1>4 DEF Versions, TypeOK
  <1>9. WaitsForStarted'
    BY <1>1, <1>4, <1>7 DEF WaitsForStarted, TypeOK
  <1> QED
    BY <1>7, <1>8, <1>9 DEF IInv, Versions

\* isAuthenticated() answers.
LEMMA CheckedKeeps ==
    ASSUME IInv, NEW p \in Evals, Checked(p)
    PROVE  IInv'
  <1>1. /\ TypeOK /\ NotAhead(Here) /\ LineInOrder /\ Versions /\ NotForgotten
        /\ Judged /\ Counted /\ WaitsForStarted
    BY DEF IInv
  <1>2. /\ stage[p] = "checking"
        /\ UNCHANGED <<tokens, made, read, pending, times, canceled,
                       refused, orphaned, authState, waits, since>>
    BY DEF Checked
  <1>3. \A i \in 1..Len(line) : line[i] \in Evals /\ line[i] # p
    BY <1>1, <1>2 DEF TypeOK, LineInOrder
  <1>4. p <= made
    BY <1>1, <1>2 DEF NotAhead, Here, TypeOK, Evals
  <1>5. CASE p \in canceled
    <2>1. stage' = [stage EXCEPT ![p] = "settled"] /\ UNCHANGED <<snapshot, line>>
      BY <1>5 DEF Checked
    <2>2. TypeOK'
      BY <1>1, <1>2, <2>1 DEF TypeOK
    <2>3. NotAhead(Here)'
      BY <1>1, <1>2, <1>4, <2>1 DEF NotAhead, Here, TypeOK, Evals
    <2>4. LineInOrder'
      BY SMTT(30), <1>1, <1>2, <1>3, <2>1 DEF LineInOrder, TypeOK
    <2>5. Versions' /\ WaitsForStarted'
      BY <1>1, <1>2, <2>1 DEF Versions, WaitsForStarted, TypeOK
    <2>6. NotForgotten'
      BY <1>1, <1>2, <1>5, <2>1 DEF NotForgotten, WillPublish, TypeOK
    <2>7. Judged'
      BY <1>1, <1>2, <2>1 DEF Judged, TypeOK, None, Evals
    <2>8. Counted'
      BY <1>1, <1>2, <1>5, <2>1 DEF Counted, Running, Here, TypeOK
    <2> QED
      BY <2>2, <2>3, <2>4, <2>5, <2>6, <2>7, <2>8 DEF IInv
  <1>6. CASE p \notin canceled
    <2>1. /\ stage' = [stage EXCEPT ![p] = "line"]
          /\ snapshot' = [snapshot EXCEPT ![p] = tokens]
          /\ line' = Append(line, p)
      BY <1>6 DEF Checked
    <2>2. TypeOK'
      BY <1>1, <1>2, <2>1 DEF TypeOK
    <2>3. NotAhead(Here)'
      BY <1>1, <1>2, <1>4, <2>1 DEF NotAhead, Here, TypeOK, Evals
    <2>4. LineInOrder'
      <3>1. /\ Len(line') = Len(line) + 1 /\ Len(line) \in Nat
            /\ line'[Len(line) + 1] = p
            /\ \A i \in 1..Len(line) : line'[i] = line[i]
        BY <1>1, <2>1 DEF TypeOK
      <3>2. /\ stage'[p] = "line" /\ snapshot'[p] = tokens
            /\ \A i \in 1..Len(line) : /\ stage'[line[i]] = "line"
                                       /\ snapshot'[line[i]] = snapshot[line[i]]
                                       /\ snapshot[line[i]] <= tokens
        BY <1>1, <1>3, <2>1 DEF TypeOK, LineInOrder, Versions
      <3>3. \A i \in 1..Len(line') : /\ stage'[line'[i]] = "line"
                                     /\ authState'.tokens <= snapshot'[line'[i]]
        BY <1>1, <1>2, <3>1, <3>2 DEF LineInOrder, Versions
      <3>4. \A i, j \in 1..Len(line') :
               i < j => line'[i] # line'[j] /\ snapshot'[line'[i]] <= snapshot'[line'[j]]
        BY <1>1, <1>3, <3>1, <3>2 DEF LineInOrder
      <3> QED
        BY <3>3, <3>4 DEF LineInOrder
    <2>5. Versions' /\ WaitsForStarted'
      BY <1>1, <1>2, <2>1 DEF Versions, WaitsForStarted, TypeOK
    <2>6. NotForgotten'
      BY <1>1, <1>2, <2>1 DEF NotForgotten, WillPublish, TypeOK
    <2>7. Judged'
      BY <1>1, <1>2, <2>1 DEF Judged, TypeOK, None, Evals
    <2>8. Counted'
      BY <1>1, <1>2, <2>1 DEF Counted, Running, Here, TypeOK
    <2> QED
      BY <2>2, <2>3, <2>4, <2>5, <2>6, <2>7, <2>8 DEF IInv
  <1> QED
    BY <1>5, <1>6

\* An evaluation that was started may come to any stage.
LEMMA StageKeeps ==
    ASSUME NEW s \in Parts, NotAhead(s), NEW p \in Evals, p <= s.made,
           NEW st \in Stages, NEW u \in Parts,
           u.made = s.made, u.canceled = s.canceled,
           u.pending \in {s.pending, None},
           u.stage = [s.stage EXCEPT ![p] = st]
    PROVE  NotAhead(u)
  <1>1. s.made \in Nat /\ p \in Nat
    BY DEF Parts, Evals
  <1>2. \A q \in Evals : q > s.made => u.stage[q] = s.stage[q]
    BY <1>1 DEF Parts, Evals
  <1>3. u.pending <= u.made
    BY <1>1 DEF NotAhead, None
  <1> QED
    BY <1>2, <1>3 DEF NotAhead

\* What the end of an evaluation makes of the record.
LEMMA SettledIs ==
    ASSUME NEW s \in Parts, NotAhead(s), NEW p \in Evals, p <= s.made
    PROVE  /\ Settled(s, p) \in Parts /\ NotAhead(Settled(s, p))
           /\ Settled(s, p).made = s.made
           /\ Settled(s, p).canceled = s.canceled
           /\ Settled(s, p).refused = s.refused
           /\ Settled(s, p).pending = None
           /\ Settled(s, p).stage = [s.stage EXCEPT ![p] = "settled"]
  <1> DEFINE st == [s.stage EXCEPT ![p] = "settled"]
  <1> DEFINE u == Settled(s, p)
  <1>1. st \in [Evals -> Stages] /\ 0 \in 0..MaxCanceled /\ None \in Evals \cup {None}
    BY DEF Parts, Stages
  <1>2. u = [s EXCEPT !.stage = st, !.pending = None, !.times = 0]
    BY DEF Settled, Parts
  <1> HIDE DEF st, u
  <1>3. /\ u \in Parts
        /\ u.made = s.made /\ u.canceled = s.canceled
        /\ u.refused = s.refused /\ u.pending = None /\ u.stage = st
    BY <1>1, <1>2 DEF Parts
  <1>4. NotAhead(u)
    BY <1>3, StageKeeps DEF st, Stages
  <1> QED
    BY <1>3, <1>4 DEF u, st

\* emitAndResolve() of a canceled evaluation.
LEMMA SettlesCanceledKeeps ==
    ASSUME IInv, NEW p \in Evals, SettlesCanceled(p)
    PROVE  IInv'
  <1>1. /\ TypeOK /\ NotAhead(Here) /\ LineInOrder /\ Versions /\ NotForgotten
        /\ Judged /\ Counted /\ WaitsForStarted
    BY DEF IInv
  <1>2. /\ Emits(p, TRUE) /\ p \in canceled
        /\ stage' = [stage EXCEPT ![p] = "settled"]
        /\ UNCHANGED <<tokens, made, read, snapshot, pending, times, canceled,
                       refused, orphaned, authState, waits, since>>
    BY DEF SettlesCanceled
  <1>3. /\ line' \in Seq(Evals)
        /\ stage[p] \in {"line", "catching"}
        /\ authState.tokens <= snapshot[p]
        /\ \A i \in 1..Len(line') : /\ line'[i] \in Evals \ {p}
                                    /\ stage[line'[i]] = "line"
                                    /\ snapshot[p] <= snapshot[line'[i]]
        /\ \A i, j \in 1..Len(line') :
              i < j => /\ line'[i] # line'[j]
                       /\ snapshot[line'[i]] <= snapshot[line'[j]]
    BY <1>2, EmitsInOrder
  <1>4. TypeOK'
    BY <1>1, <1>2, <1>3 DEF TypeOK
  <1>5. NotAhead(Here)'
    BY <1>1, <1>2, <1>3 DEF NotAhead, Here, TypeOK, Evals
  <1>6. LineInOrder'
    <2>1. \A i \in 1..Len(line') : authState.tokens <= snapshot[line'[i]]
      BY SMTT(30), <1>1, <1>3 DEF TypeOK
    <2> QED
      BY <1>1, <1>2, <1>3, <2>1 DEF LineInOrder, TypeOK
  <1>7. Versions' /\ WaitsForStarted'
    BY <1>1, <1>2 DEF Versions, WaitsForStarted, TypeOK
  <1>8. NotForgotten'
    BY <1>1, <1>2 DEF NotForgotten, WillPublish, TypeOK
  <1>9. Judged'
    BY <1>1, <1>2 DEF Judged, TypeOK, None, Evals
  <1>10. Counted'
    BY <1>1, <1>2 DEF Counted, Running, Here, TypeOK
  <1> QED
    BY <1>4, <1>5, <1>6, <1>7, <1>8, <1>9, <1>10 DEF IInv

\* emitAndResolve() of any other, to subscribers that do not update.
LEMMA PublishesKeeps ==
    ASSUME IInv, NEW p \in Evals, NEW error \in BOOLEAN, Publishes(p, error)
    PROVE  IInv' /\ authState.tokens <= authState'.tokens
  <1> DEFINE s == Settled(Here, p)
  <1>1. TypeOK /\ NotAhead(Here) /\ Here \in Parts /\ WaitsForStarted
    BY HereTyped DEF IInv
  <1>2. /\ Emits(p, error) /\ authState' = Found(p, error)
        /\ Becomes(s) /\ UNCHANGED <<tokens, snapshot, waits, since>>
    BY DEF Publishes
  <1>3. stage[p] \in {"line", "catching"}
    BY <1>2, EmitsInOrder
  <1>4. p <= Here.made
    BY <1>1, <1>3 DEF NotAhead, Here, TypeOK, Evals
  <1>5. /\ s \in Parts /\ NotAhead(s)
        /\ s.made = made /\ s.canceled = canceled /\ s.refused = refused
        /\ s.pending = None /\ s.stage = [stage EXCEPT ![p] = "settled"]
    BY <1>1, <1>4, SettledIs DEF Here
  <1>6. /\ made' = made /\ canceled' = canceled /\ refused' = refused
        /\ pending' = None /\ stage' = [stage EXCEPT ![p] = "settled"]
    BY <1>2, <1>5 DEF Becomes
  <1>7. tokens' \in 1..MaxTokens /\ tokens <= tokens'
    BY <1>1, <1>2 DEF TypeOK
  <1>8. /\ s.stage[p] = "settled"
        /\ \A q \in Evals \ {p} : s.stage[q] = stage[q] /\ stage'[q] = stage[q]
    BY <1>1, <1>5, <1>6 DEF TypeOK
  <1> HIDE DEF s
  <1>9. /\ TypeOK' /\ NotAhead(Here)' /\ Counted' /\ LineInOrder' /\ Versions'
        /\ authState.tokens <= authState'.tokens
    BY <1>2, <1>5, <1>7, <1>8, PublishingKeeps
  <1>10. NotForgotten'
    BY <1>2, <1>6, <1>8, PublishingForgetsNone
  <1>11. Judged' /\ WaitsForStarted'
    BY <1>1, <1>2, <1>6 DEF Judged, WaitsForStarted
  <1> QED
    BY <1>9, <1>10, <1>11 DEF IInv

\* A subscriber updates, or changes the tokens.
LEMMA ReactingKeeps ==
    ASSUME IInv, NEW p \in Evals, NEW error \in BOOLEAN, NEW change \in BOOLEAN,
           PublishesToReacting(p, error, change)
    PROVE  IInv' /\ authState.tokens <= authState'.tokens
  <1> DEFINE u == Update(Here, tokens')
  <1> DEFINE s == Settled(u, p)
  <1>1. /\ TypeOK /\ NotAhead(Here) /\ Here \in Parts /\ WaitsForStarted
        /\ Here.made = made /\ Here.stage = stage
    BY HereTyped DEF IInv, Here
  <1>2. /\ Emits(p, error) /\ authState' = Found(p, error)
        /\ Becomes(s) /\ UNCHANGED <<snapshot, waits, since>>
        /\ made + 1 <= MaxEvals
    BY DEF PublishesToReacting, Room
  <1>3. tokens' \in 1..MaxTokens /\ tokens <= tokens' /\ tokens' \in 0..MaxTokens
    BY <1>1 DEF PublishesToReacting, TypeOK
  <1>4. stage[p] \in {"line", "catching"}
    BY <1>2, EmitsInOrder
  <1>5. Here.made < MaxEvals
    BY <1>1, <1>2 DEF TypeOK
  <1>6. Grows(Here, u, tokens')
    BY <1>1, <1>3, <1>5, UpdateGrows
  <1>7. p <= made
    BY SMTT(30), <1>1, <1>4 DEF NotAhead, TypeOK, Evals
  <1> HIDE DEF u
  <1>8. u \in Parts /\ NotAhead(u) /\ p <= u.made
    <2>1. u \in Parts /\ NotAhead(u) /\ made <= u.made
      BY <1>1, <1>6 DEF Grows
    <2>2. u.made \in Nat /\ made \in Nat /\ p \in Nat
      BY <1>1, <2>1 DEF Parts, TypeOK, Evals
    <2> QED
      BY <1>7, <2>1, <2>2
  <1>9. /\ s \in Parts /\ NotAhead(s)
        /\ s.made = u.made /\ s.canceled = u.canceled /\ s.refused = u.refused
        /\ s.pending = None /\ s.stage = [u.stage EXCEPT ![p] = "settled"]
    BY <1>8, SettledIs
  <1>10. \A q \in Evals : \/ u.stage[q] = stage[q]
                          \/ stage[q] = "new" /\ u.stage[q] = "checking"
    BY SMTT(30), <1>1, <1>6 DEF Grows, NotAhead, TypeOK, Evals
  <1> HIDE DEF s
  <1>11. \A q \in Evals \ {p} : \/ s.stage[q] = stage[q]
                                \/ stage[q] = "new" /\ s.stage[q] = "checking"
    BY <1>8, <1>9, <1>10 DEF Parts
  <1>12. s.stage[p] = "settled"
    BY <1>8, <1>9 DEF Parts
  <1>13. /\ TypeOK' /\ NotAhead(Here)' /\ Counted' /\ LineInOrder' /\ Versions'
         /\ authState.tokens <= authState'.tokens
    BY <1>2, <1>3, <1>9, <1>11, <1>12, PublishingKeeps
  <1>14. NotForgotten'
    <2>1. CASE u.refused
      BY <1>2, <1>9, <2>1 DEF NotForgotten, Becomes
    <2>2. CASE Begun(Here, u, tokens')
      <3>1. /\ u.pending \in Evals /\ u.pending # p
            /\ u.pending \notin canceled' /\ stage'[u.pending] = "checking"
        BY <1>1, <1>2, <1>7, <1>8, <1>9, <2>2 DEF Begun, Becomes, Parts, TypeOK, Evals
      <3> QED
        BY <3>1 DEF NotForgotten, WillPublish
    <2> QED
      BY <1>6, <2>1, <2>2 DEF Grows
  <1>15. Judged'
    BY <1>2, <1>9 DEF Judged, Becomes
  <1>16. WaitsForStarted'
    BY <1>1, <1>2, <1>6, <1>8, <1>9 DEF WaitsForStarted, Becomes, Grows, Parts, TypeOK
  <1> QED
    BY <1>13, <1>14, <1>15, <1>16 DEF IInv

\* A subscriber throws, possibly after one that updates.
LEMMA ThrowingKeeps ==
    ASSUME IInv, NEW p \in Evals, NEW error \in BOOLEAN, NEW update \in BOOLEAN,
           PublishesToThrowing(p, error, update)
    PROVE  IInv' /\ authState.tokens <= authState'.tokens
  <1> DEFINE u == IF update THEN Update(Here, tokens) ELSE Here
  <1> DEFINE end == IF error THEN "stuck" ELSE "catching"
  <1> DEFINE s == [u EXCEPT !.stage[p] = end]
  <1>1. /\ TypeOK /\ NotAhead(Here) /\ Here \in Parts /\ WaitsForStarted
        /\ Here.made = made /\ Here.stage = stage
    BY HereTyped DEF IInv, Here
  <1>2. /\ Emits(p, error) /\ authState' = Found(p, error)
        /\ Becomes(s) /\ UNCHANGED <<tokens, snapshot, waits, since>>
        /\ update => made + 1 <= MaxEvals
    BY DEF PublishesToThrowing, Room
  <1>3. tokens' = tokens /\ tokens' \in 1..MaxTokens /\ tokens <= tokens'
        /\ tokens \in 0..MaxTokens
    BY <1>1, <1>2 DEF TypeOK
  <1>4. stage[p] \in {"line", "catching"}
    BY <1>2, EmitsInOrder
  <1>5. p <= made
    BY SMTT(30), <1>1, <1>4 DEF NotAhead, TypeOK, Evals
  <1>6. /\ update => Grows(Here, u, tokens)
        /\ ~update => u = Here
    <2>1. update => Here.made < MaxEvals
      BY <1>1, <1>2 DEF TypeOK
    <2> QED
      BY <1>1, <1>3, <2>1, UpdateGrows
  <1> HIDE DEF u
  <1>7. /\ u \in Parts /\ NotAhead(u) /\ made <= u.made
        /\ \A q \in Evals : \/ u.stage[q] = stage[q]
                            \/ stage[q] = "new" /\ u.stage[q] = "checking"
    <2>1. CASE update
      BY <1>1, <1>6, <2>1 DEF Grows, NotAhead, TypeOK, Evals
    <2>2. CASE ~update
      BY <1>1, <1>6, <2>2 DEF TypeOK
    <2> QED
      BY <2>1, <2>2
  <1>8. end \in {"stuck", "catching"} /\ end \in Stages
    BY DEF Stages
  <1> HIDE DEF end
  <1>9. /\ s \in Parts
        /\ s.made = u.made /\ s.canceled = u.canceled /\ s.refused = u.refused
        /\ s.pending = u.pending /\ s.stage = [u.stage EXCEPT ![p] = end]
        /\ s.read = u.read
    <2>1. [u.stage EXCEPT ![p] = end] \in [Evals -> Stages]
      BY <1>7, <1>8 DEF Parts
    <2>2. s = [u EXCEPT !.stage = [u.stage EXCEPT ![p] = end]]
      BY <1>7 DEF Parts
    <2> QED
      BY <1>7, <2>1, <2>2 DEF Parts
  <1>10. NotAhead(s)
    <2>1. p <= u.made
      BY <1>1, <1>5, <1>7 DEF Parts, TypeOK, Evals
    <2> QED
      BY <1>7, <1>8, <1>9, <2>1, StageKeeps
  <1> HIDE DEF s
  <1>11. \A q \in Evals \ {p} : \/ s.stage[q] = stage[q]
                                \/ stage[q] = "new" /\ s.stage[q] = "checking"
    BY <1>7, <1>9 DEF Parts
  <1>12. s.stage[p] = end
    BY <1>7, <1>9 DEF Parts
  <1>13. /\ TypeOK' /\ NotAhead(Here)' /\ Counted' /\ LineInOrder' /\ Versions'
         /\ authState'.tokens = snapshot[p]
         /\ authState.tokens <= authState'.tokens
    BY <1>2, <1>3, <1>8, <1>9, <1>10, <1>11, <1>12, PublishingKeeps
  <1>14. CASE update
    <2>1. NotForgotten' /\ Judged'
      <3>1. CASE u.refused
        <4>1. refused'
          BY <1>2, <1>9, <3>1 DEF Becomes
        <4> QED
          BY <4>1 DEF NotForgotten, Judged
      <3>2. CASE Begun(Here, u, tokens)
        <4>1. /\ u.pending \in Evals /\ u.pending # p
              /\ u.pending \notin u.canceled /\ u.stage[u.pending] = "checking"
              /\ u.read[u.pending] = tokens'
          BY <1>1, <1>3, <1>5, <3>2 DEF Begun, TypeOK, Evals
        <4>2. /\ pending' \in Evals /\ pending' \notin canceled'
              /\ stage'[pending'] = "checking" /\ read'[pending'] = tokens'
          BY <1>2, <1>7, <1>9, <4>1 DEF Becomes, Parts
        <4> QED
          BY <4>2 DEF NotForgotten, WillPublish, Judged
      <3> QED
        BY <1>6, <1>14, <3>1, <3>2 DEF Grows
    <2>2. WaitsForStarted'
      BY <1>1, <1>2, <1>7, <1>9 DEF WaitsForStarted, Becomes, Parts, TypeOK
    <2> QED
      BY <1>13, <2>1, <2>2 DEF IInv
  <1>15. CASE ~update
    <2>1. /\ made' = made /\ canceled' = canceled /\ refused' = refused
          /\ pending' = pending /\ read' = read
          /\ stage' = [stage EXCEPT ![p] = end]
      BY <1>2, <1>6, <1>9, <1>15 DEF Becomes, Here
    <2>2. \A q \in Evals \ {p} : stage'[q] = stage[q]
      BY <1>1, <2>1 DEF TypeOK
    <2>3. NotForgotten'
      BY <1>2, <2>1, <2>2, PublishingForgetsNone
    <2>4. Judged'
      <3>1. Judged
        BY DEF IInv
      <3>2. CASE pending = p
        BY <1>1, <1>2, <1>4, <1>8, <2>1, <3>1, <3>2 DEF Judged, TypeOK
      <3>3. CASE pending \in Evals \ {p}
        BY <1>2, <2>1, <2>2, <3>1, <3>3 DEF Judged
      <3> QED
        BY <1>1, <2>1, <3>2, <3>3 DEF TypeOK, Judged
    <2>5. WaitsForStarted'
      BY <1>1, <1>2, <2>1 DEF WaitsForStarted
    <2> QED
      BY <1>13, <2>3, <2>4, <2>5 DEF IInv
  <1> QED
    BY <1>14, <1>15

\* A caller's wait ends or goes on.
LEMMA ReturnsKeeps ==
    ASSUME IInv, NEW c \in Callers, Returns(c)
    PROVE  IInv'
  <1>1. /\ TypeOK /\ NotAhead(Here) /\ LineInOrder /\ Versions /\ NotForgotten
        /\ Judged /\ Counted /\ WaitsForStarted
    BY DEF IInv
  <1>2. /\ waits[c] # None
        /\ waits' = [waits EXCEPT
                       ![c] = IF pending # waits[c] THEN pending ELSE None]
        /\ UNCHANGED <<tokens, evals, authState, since>>
    BY DEF Returns
  <1>3. TypeOK'
    BY <1>1, <1>2 DEF TypeOK, evals
  <1>4. WaitsForStarted'
    BY <1>1, <1>2 DEF WaitsForStarted, TypeOK, evals
  <1>5. /\ NotAhead(Here)' /\ LineInOrder' /\ Versions' /\ NotForgotten'
        /\ Judged' /\ Counted'
    BY <1>1, <1>2 DEF evals, NotAhead, Here, LineInOrder, Versions, NotForgotten,
                      WillPublish, Judged, Counted, Running
  <1> QED
    BY <1>3, <1>4, <1>5 DEF IInv

\* The initial state satisfies IInv.
LEMMA InitIInv == Init => IInv
  <1> SUFFICES ASSUME Init PROVE IInv
    OBVIOUS
  <1>1. TypeOK
    <2>1. line \in Seq(Evals)
      BY DEF Init
    <2>2. authState \in [tokens : 0..MaxTokens, read : 0..MaxTokens, error : BOOLEAN]
      BY DEF Init, NoState
    <2>3. refused \in BOOLEAN /\ orphaned \in BOOLEAN
      BY DEF Init
    <2>4. /\ tokens \in 1..MaxTokens /\ made \in 0..MaxEvals /\ times \in 0..MaxCanceled
          /\ pending \in Evals \cup {None} /\ canceled \subseteq Evals
      BY DEF Init, None, Evals
    <2>5. /\ stage \in [Evals -> Stages] /\ read \in [Evals -> 0..MaxTokens]
          /\ snapshot \in [Evals -> 0..MaxTokens]
          /\ waits \in [Callers -> Evals \cup {None}]
          /\ since \in [Callers -> 0..MaxTokens]
      BY DEF Init, None, Evals, Stages
    <2> QED
      BY <2>1, <2>2, <2>3, <2>4, <2>5 DEF TypeOK, Stages
  <1>2. line = <<>> /\ Len(line) = 0
    BY DEF Init
  <1>3. LineInOrder
    BY <1>2 DEF LineInOrder
  <1>4. /\ NotAhead(Here) /\ Versions /\ NotForgotten /\ Judged /\ Counted
        /\ WaitsForStarted
    BY DEF Init, NotAhead, Here, Versions, NotForgotten, Judged, Counted, Running,
           WaitsForStarted, NoState, None, Evals
  <1> QED
    BY <1>1, <1>3, <1>4 DEF IInv

\* IInv is inductive.
LEMMA NextKeepsIInv == IInv /\ [Next]_vars => IInv'
  <1> SUFFICES ASSUME IInv, [Next]_vars PROVE IInv'
    OBVIOUS
  <1>1. CASE UNCHANGED vars
    BY <1>1 DEF vars, evals, IInv, TypeOK, NotAhead, Here, LineInOrder, Versions,
                NotForgotten, WillPublish, Judged, Counted, Running, WaitsForStarted
  <1>2. CASE Next
    BY <1>2, TokensChangeKeeps, CallsKeep, CheckedKeeps, SettlesCanceledKeeps,
       PublishesKeeps, ReactingKeeps, ThrowingKeeps, ReturnsKeeps
       DEF Next, Progress
  <1> QED
    BY <1>1, <1>2

-------------------------------------------------------------------------------
\* Every reachable state satisfies IInv.
THEOREM Invariant == Spec => []IInv
  BY InitIInv, NextKeepsIInv, PTL DEF Spec

\* The variables keep their types.
THEOREM TypeCorrect == Spec => []TypeOK
  <1>1. IInv => TypeOK
    BY DEF IInv
  <1> QED
    BY <1>1, Invariant, PTL

\* updateAuthState(): when no evaluation is left, the last published state is of
\* the tokens in the storage, unless the last update was refused.
THEOREM LastStateCurrent == Spec => []LastStateIsCurrent
  <1>1. IInv => LastStateIsCurrent
    BY DEF IInv, NotForgotten, WillPublish, LastStateIsCurrent, Running, Here
  <1> QED
    BY <1>1, Invariant, PTL

\* emitAuthStateChange(): the published auth state never goes back to tokens that
\* were replaced.
THEOREM NoGoingBack == Spec => NeverGoesBack
  <1>1. IInv /\ [Next]_vars => [authState'.tokens >= authState.tokens]_vars
    <2> SUFFICES ASSUME IInv, Next PROVE authState.tokens <= authState'.tokens
      BY DEF IInv, TypeOK
    <2>1. authState.tokens \in Nat
      BY DEF IInv, TypeOK
    <2>2. CASE UNCHANGED authState
      BY <2>1, <2>2
    <2>3. ASSUME NEW p \in Evals, NEW error \in BOOLEAN, Publishes(p, error)
          PROVE  authState.tokens <= authState'.tokens
      BY <2>3, PublishesKeeps
    <2>4. ASSUME NEW p \in Evals, NEW error \in BOOLEAN, NEW change \in BOOLEAN,
                 PublishesToReacting(p, error, change)
          PROVE  authState.tokens <= authState'.tokens
      BY <2>4, ReactingKeeps
    <2>5. ASSUME NEW p \in Evals, NEW error \in BOOLEAN, NEW update \in BOOLEAN,
                 PublishesToThrowing(p, error, update)
          PROVE  authState.tokens <= authState'.tokens
      BY <2>5, ThrowingKeeps
    <2> QED
      BY <2>2, <2>3, <2>4, <2>5
         DEF Next, Progress, TokensChange, Call, CallRemoving, Checked,
             SettlesCanceled, Returns
  <1> QED
    BY <1>1, Invariant, PTL DEF Spec, NeverGoesBack

\* isAuthenticated and the tokens of a published state belong together, unless an
\* update was refused or a subscriber's update hid the evaluation.
THEOREM StateConsistent == Spec => StateIsConsistent
  <1> DEFINE A == authState' # authState /\ pending # None /\ ~refused
                     /\ stage[pending] \in {"line", "catching"}
                     /\ stage'[pending] # stage[pending]
                     => authState'.read = authState'.tokens
  <1>1. IInv /\ [Next]_vars => [A]_vars
    <2> SUFFICES ASSUME IInv, Next,
                        authState' # authState, pending # None, ~refused,
                        stage[pending] \in {"line", "catching"},
                        stage'[pending] # stage[pending]
                 PROVE  authState'.read = authState'.tokens
      OBVIOUS
    <2>1. /\ pending \in Evals /\ pending <= made
          /\ read[pending] = snapshot[pending] /\ TypeOK
      BY DEF IInv, TypeOK, NotAhead, Here, Judged
    <2>2. ASSUME NEW p \in Evals, NEW error \in BOOLEAN, authState' = Found(p, error),
                 p = pending
          PROVE  authState'.read = authState'.tokens
      BY <2>1, <2>2 DEF Found
    <2>3. /\ NotAhead(Here) /\ Here \in Parts
          /\ Here.made = made /\ Here.stage = stage
          /\ tokens \in 0..MaxTokens /\ tokens' \in 0..MaxTokens /\ made \in Nat
      <3>1. IInv'
        BY NextKeepsIInv
      <3>2. TypeOK /\ TypeOK' /\ NotAhead(Here)
        BY <3>1 DEF IInv
      <3>3. Here \in Parts
        BY <3>2, HereTyped
      <3>4. Here.made = made /\ Here.stage = stage
        BY DEF Here
      <3> QED
        BY <3>2, <3>3, <3>4 DEF TypeOK
    <2>4. ASSUME NEW p \in Evals, NEW error \in BOOLEAN, Publishes(p, error)
          PROVE  p = pending
      <3>1. p # pending => stage'[pending] = stage[pending]
        BY <2>1, <2>4 DEF Publishes, Becomes, Settled, Here, TypeOK
      <3> QED
        BY <3>1
    <2>5. ASSUME NEW p \in Evals, NEW error \in BOOLEAN, NEW change \in BOOLEAN,
                 PublishesToReacting(p, error, change)
          PROVE  p = pending
      <3> DEFINE u == Update(Here, tokens')
      <3>1. Here.made < MaxEvals
        BY <2>3, <2>5 DEF PublishesToReacting, Room
      <3>2. Grows(Here, u, tokens')
        BY <2>3, <3>1, UpdateGrows
      <3>3. Becomes(Settled(u, p))
        BY <2>5 DEF PublishesToReacting
      <3> HIDE DEF u
      <3>4. u \in Parts /\ u.stage[pending] = stage[pending]
        BY <2>1, <2>3, <3>2 DEF Grows
      <3>5. p # pending => stage'[pending] = stage[pending]
        BY <2>1, <3>3, <3>4 DEF Becomes, Settled, Parts
      <3> QED
        BY <3>5
    <2>6. ASSUME NEW p \in Evals, NEW error \in BOOLEAN, NEW update \in BOOLEAN,
                 PublishesToThrowing(p, error, update)
          PROVE  p = pending
      <3> DEFINE u == IF update THEN Update(Here, tokens) ELSE Here
      <3> DEFINE end == IF error THEN "stuck" ELSE "catching"
      <3>1. update => Here.made < MaxEvals
        BY <2>3, <2>6 DEF PublishesToThrowing, Room
      <3>2. update => Grows(Here, u, tokens)
        BY <2>3, <3>1, UpdateGrows
      <3>3. Becomes([u EXCEPT !.stage[p] = end])
        BY <2>6 DEF PublishesToThrowing
      <3>4. ~update => u = Here
        OBVIOUS
      <3> HIDE DEF u, end
      <3>5. u \in Parts /\ u.stage[pending] = stage[pending]
        BY <2>1, <2>3, <3>2, <3>4 DEF Grows
      <3>6. p # pending => stage'[pending] = stage[pending]
        BY <2>1, <3>3, <3>5 DEF Becomes, Parts
      <3> QED
        BY <3>6
    <2>7. PICK p \in Evals, error \in BOOLEAN :
             \/ Publishes(p, error)
             \/ \E change \in BOOLEAN : \/ PublishesToReacting(p, error, change)
                                        \/ PublishesToThrowing(p, error, change)
      BY DEF Next, Progress, TokensChange, Call, CallRemoving, Checked,
             SettlesCanceled, Returns
    <2>8. authState' = Found(p, error)
      BY <2>7 DEF Publishes, PublishesToReacting, PublishesToThrowing
    <2>9. p = pending
      BY <2>4, <2>5, <2>6, <2>7
    <2> QED
      BY <2>2, <2>8, <2>9
  <1> QED
    BY <1>1, Invariant, PTL DEF Spec, StateIsConsistent

\* finalPromise() of updateAuthState(): a caller finds tokens at least as new as
\* those stored when it called, unless the last update was refused or an
\* evaluation ran on that nobody could cancel.
THEOREM CallersSee == Spec => CallersSeeTheirTokens
  <1> DEFINE A == \A c \in Callers :
                     (waits[c] # None /\ waits'[c] = None /\ ~refused /\ ~orphaned)
                         => authState.tokens >= since[c]
  <1>1. IInv /\ [Next]_vars => [A]_vars
    <2> SUFFICES ASSUME IInv, Next, NEW c \in Callers,
                        waits[c] # None, waits'[c] = None, ~refused, ~orphaned
                 PROVE  authState.tokens >= since[c]
      OBVIOUS
    <2>1. /\ TypeOK /\ Versions /\ NotForgotten /\ Counted /\ WaitsForStarted
      BY DEF IInv
    <2>2. waits' # waits
      OBVIOUS
    <2>3. PICK d \in Callers : Returns(d) \/ Call(d) \/ CallRemoving(d)
      BY <2>2 DEF Next, Progress, TokensChange, Checked, Publishes,
                  PublishesToReacting, PublishesToThrowing, SettlesCanceled
    <2>4. d = c /\ Returns(c)
      BY <2>1, <2>3 DEF Returns, Call, CallRemoving, TypeOK
    <2>5. stage[waits[c]] = "settled" /\ pending \in {None, waits[c]}
      BY <2>1, <2>4 DEF Returns, TypeOK
    <2>6. \A p \in Evals : ~WillPublish(p)
      BY <2>1, <2>5 DEF WillPublish, Counted, Running, Here, None, Evals
    <2>7. authState.tokens = tokens
      BY <2>1, <2>6 DEF WaitsForStarted, NotForgotten
    <2> QED
      BY <2>1, <2>7 DEF Versions, TypeOK
  <1> QED
    BY <1>1, Invariant, PTL DEF Spec, CallersSeeTheirTokens

-------------------------------------------------------------------------------
(* TokenFlows.  A code is exchanged by a flow that waits, so one has to know    *)
(* which flows wait: those that hold a place in the queue of the token API, or  *)
(* of getWithIDPPopup(), where a caller who cancelled leaves a deaf channel.    *)

TwoFlows == {First, Second}

FlowRecords ==
    [kind : TF!Kinds,
     stage : {"new", "queued", "preparing", "waiting", "handling", "over", "failed"},
     result : {"none", "tokens", "error"},
     window : {"none", "open", "closed"},
     framed : BOOLEAN, listens : BOOLEAN, polls : BOOLEAN, channel : BOOLEAN,
     inbox : Seq(TF!Messages),
     posted : 0 .. MaxMessages,
     requests : Nat]

\* The flow is called, and has not come to its end.
UnderWay(r) == r.stage \in {"queued", "preparing", "waiting", "handling"}

\* Who still waits is told at the end, and only a caller who cancelled before.
FlowOK(r) == /\ r \in FlowRecords
             /\ r.stage \in {"new", "queued", "preparing", "waiting"} => r.requests = 0
             /\ r.stage \in {"new", "queued", "preparing"} => r.inbox = <<>> /\ ~r.listens
             /\ r.stage = "new" => r.result = "none"
             /\ r.kind # "idpPopup" => (UnderWay(r) => r.result = "none")
             /\ r.stage \in {"over", "failed"} => r.result # "none"
             /\ UnderWay(r) /\ r.result # "none" => ~r.channel
             /\ r.polls => r.kind = "popup" /\ r.stage = "waiting"
             /\ r.kind = "idpPopup" => r.stage # "queued"

\* The queue holds the flows that are under way, each once, and the first of them
\* may have begun.
LineOK ==
    /\ tokenLine \in Seq(TwoFlows)
    /\ \A i \in 1 .. Len(tokenLine) : /\ TF!Queued(tokenLine[i])
                                      /\ UnderWay(flow[tokenLine[i]])
                                      /\ i > 1 => flow[tokenLine[i]].stage = "queued"
    /\ \A i, j \in 1 .. Len(tokenLine) : i # j => tokenLine[i] # tokenLine[j]
    /\ \A f \in TwoFlows : TF!Queued(f) /\ UnderWay(flow[f]) =>
          \E i \in 1 .. Len(tokenLine) : tokenLine[i] = f

FlowsInv == /\ flow \in [TwoFlows -> FlowRecords]
            /\ \A f \in TwoFlows : FlowOK(flow[f])
            /\ LineOK

\* The invariant has the types in it.
LEMMA FlowsTyped == FlowsInv => TF!TypeOK
BY DEF FlowsInv, LineOK, TF!TypeOK, FlowRecords, TwoFlows

\* It holds at first.
LEMMA FlowsInit == TF!Init => FlowsInv
<1> SUFFICES ASSUME TF!Init  PROVE FlowsInv
  OBVIOUS
<1>1. /\ flow \in [TwoFlows ->
             [kind : TF!Kinds, stage : {"new"}, result : {"none"}, window : {"none"},
              framed : {FALSE}, listens : {FALSE}, polls : {FALSE},
              channel : {FALSE}, inbox : {<<>>}, posted : {0}, requests : {0}]]
      /\ tokenLine = <<>>
  BY DEF TF!Init, TwoFlows
<1>2. 0 \in 0 .. MaxMessages /\ <<>> \in Seq(TF!Messages)
  BY BoundsAssumption
<1>3. ASSUME NEW f \in TwoFlows
      PROVE  FlowOK(flow[f]) /\ ~UnderWay(flow[f]) /\ flow[f] \in FlowRecords
  <2>1. PICK r : r = flow[f]  OBVIOUS
  <2>2. r \in [kind : TF!Kinds, stage : {"new"}, result : {"none"}, window : {"none"},
               framed : {FALSE}, listens : {FALSE}, polls : {FALSE},
               channel : {FALSE}, inbox : {<<>>}, posted : {0}, requests : {0}]
    BY <1>1, <2>1
  <2>3. r \in FlowRecords
    <3>1. PICK k \in TF!Kinds : r.kind = k  BY <2>2
    <3>2. r = [kind |-> k, stage |-> "new", result |-> "none", window |-> "none",
               framed |-> FALSE, listens |-> FALSE, polls |-> FALSE,
               channel |-> FALSE, inbox |-> <<>>, posted |-> 0, requests |-> 0]
      BY <2>2, <3>1
    <3>q. QED  BY <1>2, <3>2 DEF FlowRecords
  <2>4. r.stage = "new" /\ r.result = "none" /\ r.polls = FALSE /\ r.requests = 0
        /\ r.inbox = <<>> /\ r.listens = FALSE
    BY <2>2
  <2>q. QED  BY <2>1, <2>3, <2>4 DEF FlowOK, UnderWay
<1>4. LineOK  BY <1>1, <1>3 DEF LineOK
<1>5. flow \in [TwoFlows -> FlowRecords]  BY <1>1, <1>3
<1>q. QED  BY <1>3, <1>4, <1>5 DEF FlowsInv

\* A flow that does not begin and is not told keeps its place in the queue.
LEMMA FlowStays ==
    ASSUME FlowsInv, NEW f \in TwoFlows, NEW r, FlowOK(r),
           flow' = [flow EXCEPT ![f] = r], tokenLine' = tokenLine,
           r.kind = flow[f].kind,
           TF!Queued(f) => (UnderWay(r) <=> UnderWay(flow[f])),
           r.stage # flow[f].stage =>
              ~TF!Queued(f) \/ (tokenLine # <<>> /\ Head(tokenLine) = f)
    PROVE  FlowsInv'
<1>1. /\ flow \in [TwoFlows -> FlowRecords] /\ LineOK /\ tokenLine \in Seq(TwoFlows)
      /\ \A g \in TwoFlows : FlowOK(flow[g])
      /\ r \in FlowRecords
  BY DEF FlowsInv, LineOK, FlowOK
<1>2. /\ flow' \in [TwoFlows -> FlowRecords]
      /\ \A g \in TwoFlows : flow'[g] = IF g = f THEN r ELSE flow[g]
  BY <1>1
<1>3. \A g \in TwoFlows : FlowOK(flow'[g])  BY <1>1, <1>2
<1>4. \A g \in TwoFlows : /\ TF!Queued(g)' <=> TF!Queued(g)
                          /\ TF!Queued(g) => (UnderWay(flow'[g]) <=> UnderWay(flow[g]))
  BY <1>2 DEF TF!Queued
<1>5. \A i \in 1 .. Len(tokenLine) : tokenLine[i] \in TwoFlows
  BY <1>1
<1>6. ASSUME NEW i \in 1 .. Len(tokenLine), i > 1
      PROVE  flow'[tokenLine[i]].stage = "queued"
  <2>1. flow[tokenLine[i]].stage = "queued" /\ TF!Queued(tokenLine[i])
    BY <1>1, <1>6 DEF LineOK
  <2>2. CASE tokenLine[i] = f /\ r.stage # flow[f].stage
    <3>1. 1 \in 1 .. Len(tokenLine) /\ tokenLine[1] = f  BY <1>1, <2>1, <2>2
    <3>q. QED  BY <1>1, <1>6, <2>2, <3>1 DEF LineOK
  <2>q. QED  BY <1>2, <1>5, <2>1, <2>2
<1>7. LineOK'
  BY <1>1, <1>4, <1>5, <1>6 DEF LineOK
<1>q. QED  BY <1>2, <1>3, <1>7 DEF FlowsInv

\* A flow that waited and is told leaves the queue.
LEMMA FlowLeaves ==
    ASSUME FlowsInv, NEW f \in TwoFlows, NEW r, FlowOK(r),
           flow' = [flow EXCEPT ![f] = r], r.kind = flow[f].kind,
           TF!Queued(f), UnderWay(flow[f]), flow[f].stage # "queued", ~UnderWay(r),
           tokenLine' = Tail(tokenLine)
    PROVE  FlowsInv'
<1>1. /\ flow \in [TwoFlows -> FlowRecords] /\ LineOK /\ tokenLine \in Seq(TwoFlows)
      /\ \A g \in TwoFlows : FlowOK(flow[g])
      /\ r \in FlowRecords
  BY DEF FlowsInv, LineOK, FlowOK
<1>2. /\ flow' \in [TwoFlows -> FlowRecords]
      /\ \A g \in TwoFlows : flow'[g] = IF g = f THEN r ELSE flow[g]
  BY <1>1
<1>3. \A g \in TwoFlows : FlowOK(flow'[g])  BY <1>1, <1>2
<1>4. /\ tokenLine # <<>> /\ tokenLine[1] = f /\ 1 \in 1 .. Len(tokenLine)
  <2>1. PICK i \in 1 .. Len(tokenLine) : tokenLine[i] = f  BY <1>1 DEF LineOK
  <2>2. ~(i > 1)  BY <1>1, <2>1 DEF LineOK
  <2>q. QED  BY <1>1, <2>1, <2>2
<1>5. /\ tokenLine' \in Seq(TwoFlows) /\ Len(tokenLine') = Len(tokenLine) - 1
      /\ \A i \in 1 .. Len(tokenLine') : /\ tokenLine'[i] = tokenLine[i + 1]
                                         /\ i + 1 \in 1 .. Len(tokenLine)
                                         /\ i + 1 > 1 /\ i + 1 # 1
  BY <1>1, <1>4
<1>6. ASSUME NEW i \in 1 .. Len(tokenLine'), NEW g \in TwoFlows, g = tokenLine'[i]
      PROVE  TF!Queued(g)' /\ flow'[g].stage = "queued" /\ UnderWay(flow'[g])
  <2>1. g # f /\ TF!Queued(g) /\ flow[g].stage = "queued"
    BY <1>1, <1>4, <1>5, <1>6 DEF LineOK
  <2>2. flow'[g] = flow[g]  BY <1>2, <2>1
  <2>q. QED  BY <2>1, <2>2 DEF TF!Queued, UnderWay
<1>7. \A i, j \in 1 .. Len(tokenLine') : i # j => tokenLine'[i] # tokenLine'[j]
  BY <1>1, <1>5 DEF LineOK
<1>8. ASSUME NEW g \in TwoFlows, TF!Queued(g)', UnderWay(flow'[g])
      PROVE  \E i \in 1 .. Len(tokenLine') : tokenLine'[i] = g
  <2>1. g # f /\ flow'[g] = flow[g]  BY <1>2, <1>8
  <2>2. PICK i \in 1 .. Len(tokenLine) : tokenLine[i] = g
    BY <1>1, <1>8, <2>1 DEF LineOK, TF!Queued
  <2>3. i # 1  BY <1>4, <2>1, <2>2
  <2>4. i - 1 \in 1 .. Len(tokenLine') /\ (i - 1) + 1 = i  BY <1>1, <1>5, <2>3
  <2>q. QED  BY <1>5, <2>2, <2>4
<1>9. \A i \in 1 .. Len(tokenLine') : tokenLine'[i] \in TwoFlows
  BY <1>5
<1>10. LineOK'  BY <1>5, <1>6, <1>7, <1>8, <1>9 DEF LineOK
<1>q. QED  BY <1>2, <1>3, <1>10 DEF FlowsInv

\* A flow that goes on keeps the invariant: Becomes() takes it out of the queue when
\* its caller is told.
LEMMA FlowBecomes ==
    ASSUME FlowsInv, NEW f \in TwoFlows, NEW r, FlowOK(r), TF!Becomes(f, r),
           r.kind = flow[f].kind,
           TF!Queued(f) => flow[f].stage # "new" /\ r.stage # "new",
           TF!Queued(f) /\ ~UnderWay(flow[f]) => r.stage = flow[f].stage,
           flow[f].stage = "queued" => Head(tokenLine) = f /\ UnderWay(r)
    PROVE  FlowsInv'
<1>1. /\ flow' = [flow EXCEPT ![f] = r]
      /\ tokenLine' = IF TF!Queued(f) /\ flow[f].result = "none" /\ r.result # "none"
                      THEN Tail(tokenLine) ELSE tokenLine
  BY DEF TF!Becomes
<1>2. CASE ~TF!Queued(f)
  BY <1>1, <1>2, FlowStays
<1>3. CASE TF!Queued(f) /\ ~UnderWay(flow[f])
  <2>1. flow[f].stage \in {"over", "failed"} /\ flow[f].result # "none"
    BY <1>3 DEF FlowsInv, FlowOK, FlowRecords, UnderWay
  <2>2. tokenLine' = tokenLine /\ r.stage = flow[f].stage  BY <1>1, <1>3, <2>1
  <2>3. UnderWay(r) <=> UnderWay(flow[f])  BY <2>2 DEF UnderWay
  <2>q. QED  BY <1>1, <2>2, <2>3, FlowStays
<1>4. CASE TF!Queued(f) /\ UnderWay(flow[f])
  <2>1. /\ flow[f].result = "none" /\ tokenLine \in Seq(TwoFlows)
        /\ \E i \in 1 .. Len(tokenLine) :
              tokenLine[i] = f /\ (i > 1 => flow[f].stage = "queued")
    BY <1>4 DEF FlowsInv, LineOK, FlowOK, TF!Queued
  <2>2. tokenLine # <<>> /\ Head(tokenLine) = f  BY <2>1
  <2>3. CASE UnderWay(r)
    <3>1. r.result = "none"  BY <1>4, <2>3 DEF FlowOK, TF!Queued
    <3>2. tokenLine' = tokenLine  BY <1>1, <3>1
    <3>q. QED  BY <1>1, <1>4, <2>2, <2>3, <3>2, FlowStays
  <2>4. CASE ~UnderWay(r)
    <3>1. r.result # "none"  BY <1>4, <2>4 DEF FlowOK, FlowRecords, UnderWay
    <3>2. tokenLine' = Tail(tokenLine) /\ flow[f].stage # "queued"
      BY <1>1, <1>4, <2>1, <2>4, <3>1
    <3>q. QED  BY <1>1, <1>4, <2>4, <3>2, FlowLeaves
  <2>q. QED  BY <2>3, <2>4
<1>q. QED  BY <1>2, <1>3, <1>4

\* Settled, the end of a flow, and what it no longer hears.
LEMMA FlowEnds ==
    ASSUME NEW r, r \in FlowRecords, NEW result \in {"tokens", "error"}
    PROVE  /\ TF!Settled(r, result) \in FlowRecords
           /\ TF!Settled(r, result).result # "none"
           /\ \A n \in {"kind", "stage", "channel", "polls", "requests", "inbox", "listens"} :
                 TF!Settled(r, result)[n] = r[n]
           /\ TF!Ended(r, result) \in FlowRecords
           /\ TF!Ended(r, result).stage = "over" /\ TF!Ended(r, result).result # "none"
           /\ \A n \in {"kind", "channel", "polls", "requests"} :
                 TF!Ended(r, result)[n] = r[n]
BY DEF TF!Settled, TF!Ended, FlowRecords

LEMMA FlowUnheard ==
    ASSUME NEW r, r \in FlowRecords
    PROVE  /\ TF!Unheard(r) \in FlowRecords
           /\ ~TF!Unheard(r).polls /\ ~TF!Unheard(r).channel
           /\ \A n \in {"kind", "stage", "result", "requests"} : TF!Unheard(r)[n] = r[n]
BY DEF TF!Unheard, FlowRecords

\* Every step keeps the invariant of the flows.
LEMMA FlowsStep == FlowsInv /\ [TF!Next]_flowVars => FlowsInv'
<1> SUFFICES ASSUME FlowsInv, [TF!Next]_flowVars  PROVE FlowsInv'
  OBVIOUS
<1>0. CASE UNCHANGED flowVars
  BY <1>0 DEF flowVars, FlowsInv, LineOK, TF!Queued, FlowOK, FlowRecords, UnderWay,
              TF!Kinds, TF!Messages
<1>1. SUFFICES ASSUME NEW f \in TwoFlows,
                      \/ TF!CallIDPPopup(f) \/ TF!CallQueued(f) \/ TF!Cancel(f)
                      \/ TF!Post(f) \/ TF!PopupCloses(f) \/ TF!Step(f)
               PROVE  FlowsInv'
  BY <1>0 DEF TF!Next, flowVars, TwoFlows
<1>2. PICK s : s = flow[f]  OBVIOUS
<1>3. /\ s \in FlowRecords /\ FlowOK(s) /\ flow \in [TwoFlows -> FlowRecords]
      /\ TF!Queued(f) <=> s.kind # "idpPopup"
  BY <1>2 DEF FlowsInv, TF!Queued
<1>4. /\ s.kind \in TF!Kinds /\ s.result \in {"none", "tokens", "error"}
      /\ s.requests \in Nat /\ s.inbox \in Seq(TF!Messages)
      /\ s.stage \in {"new", "queued", "preparing", "waiting", "handling", "over", "failed"}
  BY <1>3 DEF FlowRecords
<1>5. CASE TF!CallIDPPopup(f)
  <2>1. PICK window \in {"none", "open"} :
           TF!Becomes(f, [s EXCEPT !.stage = "preparing", !.window = window,
                                   !.channel = TRUE])
    BY <1>2, <1>5 DEF TF!CallIDPPopup
  <2>2. PICK r : r = [s EXCEPT !.stage = "preparing", !.window = window, !.channel = TRUE]
    OBVIOUS
  <2>3. r \in FlowRecords  BY <1>3, <2>2 DEF FlowRecords
  <2>4. /\ r.stage = "preparing" /\ r.kind = s.kind /\ r.result = s.result
        /\ r.requests = s.requests /\ r.polls = s.polls
        /\ r.inbox = s.inbox /\ r.listens = s.listens
    BY <1>3, <2>2 DEF FlowRecords
  <2>5. s.stage = "new" /\ ~TF!Queued(f)  BY <1>2, <1>5 DEF TF!CallIDPPopup
  <2>6. FlowOK(r)  BY <1>3, <2>3, <2>4, <2>5 DEF FlowOK, UnderWay
  <2>q. QED  BY <1>2, <2>1, <2>2, <2>4, <2>5, <2>6, FlowBecomes
<1>6. CASE TF!CallQueued(f)
  <2>1. /\ flow' = [flow EXCEPT ![f] = [s EXCEPT !.stage = "queued"]]
        /\ tokenLine' = Append(tokenLine, f) /\ s.stage = "new" /\ TF!Queued(f)
    BY <1>2, <1>3, <1>6 DEF TF!CallQueued
  <2>2. PICK r : r = [s EXCEPT !.stage = "queued"]  OBVIOUS
  <2>3. /\ r \in FlowRecords /\ r.stage = "queued" /\ r.kind = s.kind
        /\ r.result = s.result /\ r.requests = s.requests /\ r.polls = s.polls
        /\ r.inbox = s.inbox /\ r.listens = s.listens
    BY <1>3, <2>2 DEF FlowRecords
  <2>4. FlowOK(r) /\ UnderWay(r)
    BY <1>3, <2>1, <2>3 DEF FlowOK, UnderWay
  <2>5. /\ flow' \in [TwoFlows -> FlowRecords]
        /\ \A g \in TwoFlows : flow'[g] = IF g = f THEN r ELSE flow[g]
    BY <1>3, <2>1, <2>2, <2>3
  <2>6. \A g \in TwoFlows : FlowOK(flow'[g])  BY <2>4, <2>5 DEF FlowsInv
  <2>7. /\ LineOK /\ tokenLine \in Seq(TwoFlows) /\ Len(tokenLine) \in Nat
        /\ \A i \in 1 .. Len(tokenLine) : tokenLine[i] # f /\ tokenLine[i] \in TwoFlows
    BY <1>2, <2>1 DEF FlowsInv, LineOK, UnderWay
  <2>8. /\ tokenLine' \in Seq(TwoFlows) /\ Len(tokenLine') = Len(tokenLine) + 1
        /\ \A i \in 1 .. Len(tokenLine') : \/ i = Len(tokenLine) + 1 /\ tokenLine'[i] = f
                                           \/ /\ i \in 1 .. Len(tokenLine)
                                              /\ tokenLine'[i] = tokenLine[i]
        /\ \A i \in 1 .. Len(tokenLine) : /\ i \in 1 .. Len(tokenLine')
                                          /\ tokenLine'[i] = tokenLine[i]
        /\ Len(tokenLine) + 1 \in 1 .. Len(tokenLine')
        /\ tokenLine'[Len(tokenLine) + 1] = f
    BY <2>1, <2>7
  <2>9. \A g \in TwoFlows : TF!Queued(g)' <=> TF!Queued(g)
    BY <1>2, <2>3, <2>5 DEF TF!Queued
  <2>10. ASSUME NEW i \in 1 .. Len(tokenLine'), NEW g \in TwoFlows, g = tokenLine'[i]
         PROVE  TF!Queued(g)' /\ UnderWay(flow'[g]) /\ (i > 1 => flow'[g].stage = "queued")
    <3>1. CASE g = f  BY <2>1, <2>3, <2>4, <2>5, <2>9, <3>1
    <3>2. CASE g # f
      <4>1. i \in 1 .. Len(tokenLine) /\ tokenLine[i] = g /\ flow'[g] = flow[g]
        BY <2>5, <2>8, <2>10, <3>2
      <4>q. QED  BY <2>7, <2>9, <4>1 DEF LineOK
    <3>q. QED  BY <3>1, <3>2
  <2>11. \A i, j \in 1 .. Len(tokenLine') : i # j => tokenLine'[i] # tokenLine'[j]
    BY <2>7, <2>8 DEF LineOK
  <2>12. ASSUME NEW g \in TwoFlows, TF!Queued(g)', UnderWay(flow'[g])
         PROVE  \E i \in 1 .. Len(tokenLine') : tokenLine'[i] = g
    <3>1. CASE g = f  BY <2>8, <3>1
    <3>2. CASE g # f
      <4>1. PICK i \in 1 .. Len(tokenLine) : tokenLine[i] = g
        BY <2>5, <2>7, <2>9, <2>12, <3>2 DEF LineOK
      <4>q. QED  BY <2>8, <4>1
    <3>q. QED  BY <3>1, <3>2
  <2>13. \A i \in 1 .. Len(tokenLine') : tokenLine'[i] \in TwoFlows
    BY <2>8
  <2>14. LineOK'  BY <2>8, <2>10, <2>11, <2>12, <2>13 DEF LineOK
  <2>q. QED  BY <2>5, <2>6, <2>14 DEF FlowsInv
<1>7. CASE TF!Cancel(f)
  <2>1. PICK t : t = [s EXCEPT !.channel = FALSE]  OBVIOUS
  <2>2. /\ t \in FlowRecords /\ ~t.channel /\ t.kind = s.kind /\ t.stage = s.stage
        /\ t.requests = s.requests /\ t.polls = s.polls
        /\ t.inbox = s.inbox /\ t.listens = s.listens
    BY <1>3, <2>1 DEF FlowRecords
  <2>3. PICK r : r = TF!Settled(t, "error")  OBVIOUS
  <2>4. /\ r \in FlowRecords /\ r.result # "none" /\ ~r.channel /\ r.kind = s.kind
        /\ r.stage = s.stage /\ r.requests = s.requests /\ r.polls = s.polls
        /\ r.inbox = s.inbox /\ r.listens = s.listens
    BY <2>2, <2>3, FlowEnds
  <2>5. /\ s.kind = "idpPopup" /\ s.stage # "new" /\ TF!Becomes(f, r)
    BY <1>2, <1>7, <2>1, <2>3 DEF TF!Cancel
  <2>6. FlowOK(r)  BY <1>3, <2>4, <2>5 DEF FlowOK, UnderWay
  <2>7. s.stage # "queued"  BY <1>3, <2>5 DEF FlowOK
  <2>q. QED  BY <1>2, <1>3, <2>4, <2>5, <2>6, <2>7, FlowBecomes
<1>8. CASE TF!Post(f) \/ TF!PopupCloses(f)
  <2>1. PICK r : /\ flow' = [flow EXCEPT ![f] = r] /\ tokenLine' = tokenLine
                 /\ r \in FlowRecords /\ r.kind = s.kind /\ r.stage = s.stage
                 /\ r.result = s.result /\ r.channel = s.channel
                 /\ r.requests = s.requests /\ r.polls = s.polls
                 /\ s.stage \in {"new", "queued", "preparing"} =>
                       r.inbox = s.inbox /\ r.listens = s.listens
    <3>1. CASE TF!Post(f)
      <4>1. PICK m \in TF!Messages :
               /\ flow' = [flow EXCEPT ![f] = [s EXCEPT !.inbox = Append(@, m),
                                                        !.posted = @ + 1]]
               /\ s.posted < MaxMessages /\ tokenLine' = tokenLine
               /\ s.stage \in {"waiting", "handling", "over"}
        BY <1>2, <1>3, <3>1 DEF TF!Post
      <4>2. s.posted + 1 \in 0 .. MaxMessages /\ Append(s.inbox, m) \in Seq(TF!Messages)
        BY <1>3, <1>4, <4>1, BoundsAssumption DEF FlowRecords
      <4>3. PICK r : r = [s EXCEPT !.inbox = Append(@, m), !.posted = @ + 1]  OBVIOUS
      <4>4. r \in FlowRecords  BY <1>3, <4>2, <4>3 DEF FlowRecords
      <4>5. /\ r.kind = s.kind /\ r.stage = s.stage /\ r.result = s.result
            /\ r.channel = s.channel /\ r.requests = s.requests /\ r.polls = s.polls
        BY <1>3, <4>3 DEF FlowRecords
      <4>q. QED  BY <4>1, <4>3, <4>4, <4>5
    <3>2. CASE TF!PopupCloses(f)
      <4>1. PICK r : r = [s EXCEPT !.window = "closed"]  OBVIOUS
      <4>2. r \in FlowRecords  BY <1>3, <4>1 DEF FlowRecords
      <4>3. flow' = [flow EXCEPT ![f] = r] /\ tokenLine' = tokenLine
        BY <1>2, <1>3, <3>2, <4>1 DEF TF!PopupCloses
      <4>q. QED  BY <1>3, <4>1, <4>2, <4>3 DEF FlowRecords
    <3>q. QED  BY <1>8, <3>1, <3>2
  <2>2. FlowOK(r)  BY <1>3, <2>1 DEF FlowOK, UnderWay
  <2>q. QED  BY <1>2, <2>1, <2>2, FlowStays DEF UnderWay
<1>9. CASE TF!Begin(f)
  <2>1. PICK window \in {"none", "open"} :
           TF!Becomes(f, [s EXCEPT !.stage = "preparing", !.window = window])
    BY <1>2, <1>9 DEF TF!Begin
  <2>2. PICK r : r = [s EXCEPT !.stage = "preparing", !.window = window]  OBVIOUS
  <2>3. /\ r \in FlowRecords /\ r.stage = "preparing" /\ r.kind = s.kind
        /\ r.result = s.result /\ r.requests = s.requests /\ r.polls = s.polls
        /\ r.channel = s.channel /\ r.inbox = s.inbox /\ r.listens = s.listens
    BY <1>3, <2>2 DEF FlowRecords
  <2>4. s.stage = "queued" /\ Head(tokenLine) = f  BY <1>2, <1>9 DEF TF!Begin
  <2>5. FlowOK(r) /\ UnderWay(r) /\ UnderWay(s)
    BY <1>3, <2>3, <2>4 DEF FlowOK, UnderWay
  <2>q. QED  BY <1>2, <2>1, <2>2, <2>3, <2>4, <2>5, FlowBecomes
<1>10. CASE TF!PrepareFails(f)
  <2>1. PICK t : t = [s EXCEPT !.stage = "failed"]  OBVIOUS
  <2>2. /\ t \in FlowRecords /\ t.stage = "failed" /\ t.kind = s.kind
        /\ t.polls = s.polls
    BY <1>3, <2>1 DEF FlowRecords
  <2>3. PICK r : r = TF!Settled(t, "error")  OBVIOUS
  <2>4. /\ r \in FlowRecords /\ r.result # "none" /\ r.kind = s.kind
        /\ r.stage = "failed" /\ r.polls = s.polls
    BY <2>2, <2>3, FlowEnds
  <2>5. s.stage = "preparing" /\ TF!Becomes(f, r)
    BY <1>2, <1>10, <2>1, <2>3 DEF TF!PrepareFails
  <2>6. FlowOK(r) /\ UnderWay(s)  BY <1>3, <2>4, <2>5 DEF FlowOK, UnderWay
  <2>q. QED  BY <1>2, <2>4, <2>5, <2>6, FlowBecomes
<1>11. CASE TF!Prepared(f)
  <2>1. PICK blocked \in BOOLEAN :
           blocked <=> s.kind = "idpPopup" /\ s.window = "none"
    BY Zenon
  <2>2. PICK t : t = [s EXCEPT !.stage = IF blocked THEN "over" ELSE "waiting",
                               !.listens = TRUE,
                               !.polls = s.kind = "popup",
                               !.framed = s.kind = "frame"]
    OBVIOUS
  <2>3. /\ t.kind = s.kind /\ t.result = s.result /\ t.channel = s.channel
        /\ t.requests = s.requests /\ (t.polls => s.kind = "popup")
        /\ t.stage = IF blocked THEN "over" ELSE "waiting"
    BY <1>3, <2>2 DEF FlowRecords
  <2>4. t \in FlowRecords  BY <1>3, <2>1, <2>2 DEF FlowRecords
  <2>5. s.stage = "preparing" /\ UnderWay(s)  BY <1>2, <1>11 DEF TF!Prepared, UnderWay
  <2>6. CASE blocked
    <3>1. PICK r : r = TF!Settled(t, "error")  OBVIOUS
    <3>2. /\ r \in FlowRecords /\ r.result # "none" /\ r.kind = s.kind
          /\ r.stage = "over" /\ r.polls = t.polls
      BY <2>3, <2>4, <2>6, <3>1, FlowEnds
    <3>3. TF!Becomes(f, r)
      BY <1>2, <1>11, <2>1, <2>2, <2>6, <3>1 DEF TF!Prepared
    <3>4. FlowOK(r)  BY <2>1, <2>3, <2>6, <3>2 DEF FlowOK, UnderWay
    <3>q. QED  BY <1>2, <2>5, <3>2, <3>3, <3>4, FlowBecomes
  <2>7. CASE ~blocked
    <3>1. TF!Becomes(f, t)
      BY <1>2, <1>11, <2>1, <2>2, <2>7 DEF TF!Prepared
    <3>2. FlowOK(t)  BY <1>3, <2>3, <2>4, <2>5, <2>7 DEF FlowOK, UnderWay
    <3>q. QED  BY <1>2, <2>3, <2>5, <2>7, <3>1, <3>2, FlowBecomes
  <2>q. QED  BY <2>6, <2>7
\* A flow that ends at an error or with tokens: a listener may go with it or stay.
<1>12. ASSUME NEW t, t \in FlowRecords, t.kind = s.kind, t.requests = s.requests,
              t.polls => s.polls,
              s.stage \in {"waiting", "handling"},
              NEW result \in {"tokens", "error"},
              \/ TF!Becomes(f, TF!Unheard(TF!Ended(t, result)))
              \/ TF!Becomes(f, TF!Ended(t, result)) /\ ~t.polls
       PROVE  FlowsInv'
  <2>1. PICK u : u = TF!Ended(t, result)  OBVIOUS
  <2>2. /\ u \in FlowRecords /\ u.stage = "over" /\ u.result # "none"
        /\ u.kind = s.kind /\ u.polls = t.polls
    BY <1>12, <2>1, FlowEnds
  <2>3. PICK v : v = TF!Unheard(u)  OBVIOUS
  <2>4. /\ v \in FlowRecords /\ v.stage = "over" /\ v.result # "none"
        /\ v.kind = s.kind /\ ~v.polls
    BY <2>2, <2>3, FlowUnheard
  <2>5. FlowOK(v) /\ (~t.polls => FlowOK(u)) /\ UnderWay(s)
    BY <1>12, <2>2, <2>4 DEF FlowOK, UnderWay
  <2>6. CASE TF!Becomes(f, v)
    BY <1>2, <1>12, <2>4, <2>5, <2>6, FlowBecomes
  <2>7. CASE TF!Becomes(f, u) /\ ~t.polls
    BY <1>2, <1>12, <2>2, <2>5, <2>7, FlowBecomes
  <2>q. QED  BY <1>12, <2>1, <2>3, <2>6, <2>7
\* One that hears nothing any more.
<1>13. ASSUME NEW t, t \in FlowRecords, t.kind = s.kind, t.requests = s.requests,
              t.stage = s.stage, t.result = s.result,
              s.stage \notin {"new", "queued", "preparing"},
              TF!Becomes(f, TF!Unheard(t))
       PROVE  FlowsInv'
  <2>1. PICK r : r = TF!Unheard(t)  OBVIOUS
  <2>2. /\ r \in FlowRecords /\ r.stage = s.stage /\ r.result = s.result
        /\ r.kind = s.kind /\ ~r.polls /\ ~r.channel /\ r.requests = s.requests
    BY <1>13, <2>1, FlowUnheard
  <2>3. FlowOK(r)  BY <1>3, <1>13, <2>2 DEF FlowOK, UnderWay
  <2>q. QED  BY <1>2, <1>13, <2>1, <2>2, <2>3, FlowBecomes
<1>14. CASE TF!Message(f)
  <2>1. s.inbox # <<>> /\ Tail(s.inbox) \in Seq(TF!Messages)
    BY <1>2, <1>4, <1>14 DEF TF!Message
  <2>2. PICK t : t = [s EXCEPT !.inbox = Tail(@)]  OBVIOUS
  <2>3. /\ t.kind = s.kind /\ t.requests = s.requests /\ t.stage = s.stage
        /\ t.result = s.result /\ t.polls = s.polls /\ t.channel = s.channel
        /\ t.listens = s.listens
    BY <1>3, <2>2 DEF FlowRecords
  <2>4. t \in FlowRecords  BY <1>3, <2>1, <2>2 DEF FlowRecords
  <2>5. TF!Becomes(f, IF ~TF!Hears(t) THEN t
                      ELSE IF t.stage # "waiting" THEN TF!Unheard(t)
                      ELSE IF Head(s.inbox) = "code"
                      THEN TF!Unheard([t EXCEPT !.stage = "handling", !.requests = @ + 1])
                      ELSE TF!Unheard(TF!Ended(t, "error")))
    BY <1>2, <1>14, <2>2 DEF TF!Message
  <2>6. s.stage \notin {"new", "queued", "preparing"}  BY <1>3, <2>1 DEF FlowOK
  <2>7. FlowOK(t)  BY <1>3, <2>3, <2>4, <2>6 DEF FlowOK, UnderWay
  <2>8. CASE TF!Becomes(f, t)
    BY <1>2, <2>3, <2>6, <2>7, <2>8, FlowBecomes
  <2>9. CASE TF!Becomes(f, TF!Unheard(t))
    BY <1>13, <2>3, <2>4, <2>6, <2>9
  <2>10. CASE TF!Becomes(f, TF!Unheard(TF!Ended(t, "error"))) /\ t.stage = "waiting"
    BY <1>12, <2>3, <2>4, <2>10
  <2>11. CASE /\ TF!Becomes(f, TF!Unheard([t EXCEPT !.stage = "handling", !.requests = @ + 1]))
              /\ t.stage = "waiting" /\ TF!Hears(t)
    <3>1. PICK u : u = [t EXCEPT !.stage = "handling", !.requests = @ + 1]  OBVIOUS
    <3>2. /\ u.stage = "handling" /\ u.kind = s.kind /\ u.result = s.result
      BY <2>3, <2>4, <3>1 DEF FlowRecords
    <3>3. u \in FlowRecords
      <4>1. t.requests + 1 \in Nat  BY <1>4, <2>3
      <4>q. QED  BY <2>4, <3>1, <4>1 DEF FlowRecords
    <3>4. PICK r : r = TF!Unheard(u)  OBVIOUS
    <3>5. /\ r \in FlowRecords /\ r.stage = "handling" /\ r.result = s.result
          /\ r.kind = s.kind /\ ~r.polls /\ ~r.channel
      BY <3>2, <3>3, <3>4, FlowUnheard
    <3>6. FlowOK(r) /\ UnderWay(s) /\ s.stage = "waiting"
      BY <1>3, <2>3, <2>11, <3>5 DEF FlowOK, UnderWay
    <3>q. QED  BY <1>2, <2>11, <3>1, <3>4, <3>5, <3>6, FlowBecomes
  <2>q. QED  BY <2>5, <2>8, <2>9, <2>10, <2>11
<1>15. CASE TF!Poll(f)
  <2>1. PICK t : t = [s EXCEPT !.polls = FALSE]  OBVIOUS
  <2>2. t \in FlowRecords /\ t.kind = s.kind /\ t.requests = s.requests /\ ~t.polls
    BY <1>3, <2>1 DEF FlowRecords
  <2>3. s.polls /\ TF!Becomes(f, TF!Ended(t, "error"))
    BY <1>2, <1>15, <2>1 DEF TF!Poll
  <2>4. s.stage = "waiting"  BY <1>3, <2>3 DEF FlowOK
  <2>q. QED  BY <1>12, <2>2, <2>3, <2>4
<1>16. CASE TF!Timeout(f)
  <2>1. s.listens /\ TF!Becomes(f, IF s.stage = "waiting"
                                   THEN TF!Unheard(TF!Ended(s, "error"))
                                   ELSE TF!Unheard(s))
    BY <1>2, <1>16 DEF TF!Timeout
  <2>2. s.stage \notin {"new", "queued", "preparing"}  BY <1>3, <2>1 DEF FlowOK
  <2>3. CASE s.stage = "waiting"
    BY <1>3, <1>12, <2>1, <2>3
  <2>4. CASE s.stage # "waiting"
    BY <1>3, <1>13, <2>1, <2>2, <2>4
  <2>q. QED  BY <2>3, <2>4
<1>17. CASE TF!Handled(f)
  <2>1. PICK result \in {"tokens", "error"} : TF!Becomes(f, TF!Ended(s, result))
    BY <1>2, <1>17 DEF TF!Handled
  <2>2. s.stage = "handling" /\ ~s.polls
    BY <1>2, <1>3, <1>17 DEF TF!Handled, FlowOK, FlowRecords
  <2>q. QED  BY <1>3, <1>12, <2>1, <2>2
<1>q. QED
  BY <1>1, <1>5, <1>6, <1>7, <1>8, <1>9, <1>10, <1>11, <1>14, <1>15, <1>16, <1>17
     DEF TF!Step

\* A code is sent for a caller who still waits, and once.
LEMMA FlowsExchange ==
    FlowsInv /\ [TF!Next]_flowVars =>
       [\A f \in {First, Second} : flow'[f].requests # flow[f].requests =>
            flow[f].result = "none" /\ flow'[f].requests = 1]_flowVars
<1> SUFFICES ASSUME FlowsInv, TF!Next, NEW g \in TwoFlows,
                    flow'[g].requests # flow[g].requests
             PROVE  flow[g].result = "none" /\ flow'[g].requests = 1
  BY DEF TwoFlows
<1>1. PICK f \in TwoFlows : \/ TF!CallIDPPopup(f) \/ TF!CallQueued(f) \/ TF!Cancel(f)
                            \/ TF!Post(f) \/ TF!PopupCloses(f) \/ TF!Step(f)
  BY DEF TF!Next, TwoFlows
<1>2. PICK s : s = flow[f]  OBVIOUS
<1>3. s \in FlowRecords /\ FlowOK(s) /\ flow \in [TwoFlows -> FlowRecords]
  BY <1>2 DEF FlowsInv
\* It is f that sends a code, so it is enough to look at what it becomes.
<1>4. ASSUME NEW r, flow' = [flow EXCEPT ![f] = r]
      PROVE  f = g /\ flow'[g].requests = r.requests /\ r.requests # s.requests
  BY <1>2, <1>3, <1>4
<1>5. ASSUME NEW r, TF!Becomes(f, r)
      PROVE  f = g /\ flow'[g].requests = r.requests /\ r.requests # s.requests
  BY <1>4, <1>5 DEF TF!Becomes
<1>6. ASSUME NEW t, t \in FlowRecords
      PROVE  /\ TF!Unheard(t).requests = t.requests
             /\ TF!Settled(t, "error").requests = t.requests
             /\ \A result \in {"tokens", "error"} : TF!Ended(t, result).requests = t.requests
             /\ TF!Unheard(TF!Ended(t, "error")).requests = t.requests
  <2>1. TF!Ended(t, "error") \in FlowRecords  BY <1>6, FlowEnds
  <2>q. QED  BY <1>6, <2>1, FlowEnds, FlowUnheard
<1>7. CASE TF!Message(f)
  <2>1. PICK t : t = [s EXCEPT !.inbox = Tail(@)]  OBVIOUS
  <2>2. s.inbox # <<>> /\ Tail(s.inbox) \in Seq(TF!Messages)
    BY <1>2, <1>3, <1>7 DEF TF!Message, FlowRecords
  <2>3. t \in FlowRecords  BY <1>3, <2>1, <2>2 DEF FlowRecords
  <2>4. /\ t.kind = s.kind /\ t.requests = s.requests /\ t.stage = s.stage
        /\ t.result = s.result /\ t.channel = s.channel
    BY <1>3, <2>1 DEF FlowRecords
  <2>5. TF!Becomes(f, IF ~TF!Hears(t) THEN t
                      ELSE IF t.stage # "waiting" THEN TF!Unheard(t)
                      ELSE IF Head(s.inbox) = "code"
                      THEN TF!Unheard([t EXCEPT !.stage = "handling", !.requests = @ + 1])
                      ELSE TF!Unheard(TF!Ended(t, "error")))
    BY <1>2, <1>7, <2>1 DEF TF!Message
  <2>6. PICK u : u = [t EXCEPT !.stage = "handling", !.requests = @ + 1]  OBVIOUS
  <2>7. ~TF!Becomes(f, t)  BY <1>5, <2>4
  <2>8. ~TF!Becomes(f, TF!Unheard(t))  BY <1>5, <1>6, <2>3, <2>4
  <2>9. ~TF!Becomes(f, TF!Unheard(TF!Ended(t, "error")))  BY <1>5, <1>6, <2>3, <2>4
  <2>10. TF!Becomes(f, TF!Unheard(u)) /\ TF!Hears(t) /\ t.stage = "waiting"
    BY <2>5, <2>6, <2>7, <2>8, <2>9
  <2>11. s.result = "none"
    BY <1>3, <2>4, <2>10 DEF FlowOK, UnderWay, TF!Hears
  <2>12. s.requests = 0  BY <1>3, <2>4, <2>10 DEF FlowOK
  <2>13. TF!Unheard(u).requests = 1
    BY <2>3, <2>4, <2>6, <2>12 DEF TF!Unheard, FlowRecords
  <2>14. f = g /\ flow'[g].requests = TF!Unheard(u).requests
    BY <1>5, <2>10
  <2>q. QED  BY <1>2, <2>11, <2>13, <2>14
<1>8. CASE TF!CallIDPPopup(f)
  <2>1. PICK window \in {"none", "open"} :
           TF!Becomes(f, [s EXCEPT !.stage = "preparing", !.window = window,
                                   !.channel = TRUE])
    BY <1>2, <1>8 DEF TF!CallIDPPopup
  <2>2. [s EXCEPT !.stage = "preparing", !.window = window, !.channel = TRUE].requests
           = s.requests
    BY <1>3 DEF FlowRecords
  <2>q. QED  BY <1>5, <2>1, <2>2
<1>9. CASE TF!Begin(f)
  <2>1. PICK window \in {"none", "open"} :
           TF!Becomes(f, [s EXCEPT !.stage = "preparing", !.window = window])
    BY <1>2, <1>9 DEF TF!Begin
  <2>2. [s EXCEPT !.stage = "preparing", !.window = window].requests = s.requests
    BY <1>3 DEF FlowRecords
  <2>q. QED  BY <1>5, <2>1, <2>2
<1>10. CASE TF!CallQueued(f) \/ TF!Post(f) \/ TF!PopupCloses(f)
  <2>1. CASE TF!CallQueued(f)
    <3>1. flow' = [flow EXCEPT ![f] = [s EXCEPT !.stage = "queued"]]
      BY <1>2, <1>3, <2>1 DEF TF!CallQueued
    <3>2. [s EXCEPT !.stage = "queued"].requests = s.requests  BY <1>3 DEF FlowRecords
    <3>q. QED  BY <1>4, <3>1, <3>2
  <2>2. CASE TF!Post(f)
    <3>1. PICK m \in TF!Messages :
             flow' = [flow EXCEPT ![f] = [s EXCEPT !.inbox = Append(@, m),
                                                   !.posted = @ + 1]]
      BY <1>2, <1>3, <2>2 DEF TF!Post
    <3>2. [s EXCEPT !.inbox = Append(@, m), !.posted = @ + 1].requests = s.requests
      BY <1>3 DEF FlowRecords
    <3>q. QED  BY <1>4, <3>1, <3>2
  <2>3. CASE TF!PopupCloses(f)
    <3>1. flow' = [flow EXCEPT ![f] = [s EXCEPT !.window = "closed"]]
      BY <1>2, <1>3, <2>3 DEF TF!PopupCloses
    <3>2. [s EXCEPT !.window = "closed"].requests = s.requests  BY <1>3 DEF FlowRecords
    <3>q. QED  BY <1>4, <3>1, <3>2
  <2>q. QED  BY <1>10, <2>1, <2>2, <2>3
<1>11. CASE TF!Cancel(f) \/ TF!PrepareFails(f)
  <2>1. PICK t : /\ t = [s EXCEPT !.channel = FALSE] \/ t = [s EXCEPT !.stage = "failed"]
                 /\ TF!Becomes(f, TF!Settled(t, "error"))
    BY <1>2, <1>11 DEF TF!Cancel, TF!PrepareFails
  <2>2. t \in FlowRecords /\ t.requests = s.requests
    BY <1>3, <2>1 DEF FlowRecords
  <2>q. QED  BY <1>5, <1>6, <2>1, <2>2
<1>12. CASE TF!Prepared(f)
  <2>1. PICK end \in {"over", "waiting"} :
           LET t == [s EXCEPT !.stage = end, !.listens = TRUE,
                              !.polls = s.kind = "popup", !.framed = s.kind = "frame"]
           IN TF!Becomes(f, t) \/ TF!Becomes(f, TF!Settled(t, "error"))
    BY <1>2, <1>12 DEF TF!Prepared
  <2>2. PICK polls \in BOOLEAN, framed \in BOOLEAN :
           polls = (s.kind = "popup") /\ framed = (s.kind = "frame")
    BY Zenon
  <2>3. PICK t : t = [s EXCEPT !.stage = end, !.listens = TRUE,
                               !.polls = polls, !.framed = framed]
    OBVIOUS
  <2>4. TF!Becomes(f, t) \/ TF!Becomes(f, TF!Settled(t, "error"))
    BY <2>1, <2>2, <2>3
  <2>5. t \in FlowRecords /\ t.requests = s.requests
    BY <1>3, <2>3 DEF FlowRecords
  <2>q. QED  BY <1>5, <1>6, <2>4, <2>5
<1>13. CASE TF!Poll(f)
  <2>1. PICK t : t = [s EXCEPT !.polls = FALSE]  OBVIOUS
  <2>2. t \in FlowRecords /\ t.requests = s.requests  BY <1>3, <2>1 DEF FlowRecords
  <2>3. TF!Becomes(f, TF!Ended(t, "error"))  BY <1>2, <1>13, <2>1 DEF TF!Poll
  <2>q. QED  BY <1>5, <1>6, <2>2, <2>3
<1>14. CASE TF!Timeout(f)
  <2>1. \/ TF!Becomes(f, TF!Unheard(TF!Ended(s, "error")))
        \/ TF!Becomes(f, TF!Unheard(s))
    BY <1>2, <1>14 DEF TF!Timeout
  <2>q. QED  BY <1>3, <1>5, <1>6, <2>1
<1>15. CASE TF!Handled(f)
  <2>1. PICK result \in {"tokens", "error"} : TF!Becomes(f, TF!Ended(s, result))
    BY <1>2, <1>15 DEF TF!Handled
  <2>q. QED  BY <1>3, <1>5, <1>6, <2>1
<1>q. QED
  BY <1>1, <1>7, <1>8, <1>9, <1>10, <1>11, <1>12, <1>13, <1>14, <1>15 DEF TF!Step

-------------------------------------------------------------------------------
(* AuthnPoll: nothing is claimed of it but its types, which its liveness reads. *)

PollRecords == [stage : {"none", "held", "asking", "delay", "backoff", "over"},
                retries : 0 .. MaxBackoffs, loads : 0 .. MaxLoads, stopped : BOOLEAN]

\* The polls keep their types.
LEMMA PollsTyped ==
    /\ AP!Init => AP!TypeOK
    /\ AP!TypeOK /\ [AP!Next]_pollVars => AP!TypeOK'
<1>1. AP!Init => AP!TypeOK
  <2>1. [stage |-> "none", retries |-> 0, loads |-> 0, stopped |-> FALSE] \in PollRecords
    BY BoundsAssumption DEF PollRecords
  <2>q. QED  BY <2>1 DEF AP!Init, AP!TypeOK, PollRecords
<1>2. SUFFICES ASSUME AP!TypeOK, [AP!Next]_pollVars  PROVE AP!TypeOK'
  BY <1>1
<1>3. /\ isPolling \in BOOLEAN /\ hidden \in BOOLEAN /\ pollDelay \in BOOLEAN
      /\ poll \in [Polls -> PollRecords] /\ 0 \in 0 .. MaxLoads /\ 0 \in 0 .. MaxBackoffs
  BY <1>2, BoundsAssumption DEF AP!TypeOK, PollRecords
<1>4. ASSUME NEW r \in PollRecords
      PROVE  /\ \A to \in {"held", "asking", "delay", "backoff", "over"} :
                   [r EXCEPT !.stage = to] \in PollRecords
             /\ \A b \in BOOLEAN : [r EXCEPT !.stopped = b] \in PollRecords
             /\ [r EXCEPT !.stage = "over", !.stopped = FALSE] \in PollRecords
             /\ [r EXCEPT !.stage = "delay", !.retries = 0] \in PollRecords
             /\ AP!Asking(r) \in PollRecords
             /\ r.retries < MaxBackoffs =>
                   [r EXCEPT !.stage = "backoff", !.retries = @ + 1] \in PollRecords
             /\ r.loads < MaxLoads =>
                   [r EXCEPT !.stage = "held", !.loads = @ + 1] \in PollRecords
  <2>1. /\ r.retries < MaxBackoffs => r.retries + 1 \in 0 .. MaxBackoffs
        /\ r.loads < MaxLoads => r.loads + 1 \in 0 .. MaxLoads
    BY <1>4, BoundsAssumption DEF PollRecords
  <2>2. AP!Asking(r) \in PollRecords
    <3>1. PICK to \in {"held", "asking"} : to = IF pollDelay THEN "held" ELSE "asking"
      OBVIOUS
    <3>2. AP!Asking(r) = [r EXCEPT !.stage = to, !.loads = 0]
      BY <3>1 DEF AP!Asking
    <3>q. QED  BY <1>3, <1>4, <3>2 DEF PollRecords
  <2>q. QED  BY <1>3, <1>4, <2>1, <2>2 DEF PollRecords
<1>5. /\ poll' \in [Polls -> PollRecords] /\ isPolling' \in BOOLEAN
      /\ hidden' \in BOOLEAN /\ pollDelay' \in BOOLEAN
  <2>1. CASE UNCHANGED pollVars
    BY <1>3, <2>1 DEF pollVars, PollRecords
  <2>2. ASSUME NEW p \in Polls, AP!Over(p)
        PROVE  /\ poll' \in [Polls -> PollRecords] /\ isPolling' \in BOOLEAN
               /\ hidden' \in BOOLEAN /\ pollDelay' \in BOOLEAN
    <3>1. /\ poll' = [poll EXCEPT ![p] = [@ EXCEPT !.stage = "over", !.stopped = FALSE]]
          /\ isPolling' = FALSE /\ hidden' = hidden /\ pollDelay' = pollDelay
      BY <1>3, <2>2 DEF AP!Over, AP!page
    <3>q. QED  BY <1>3, <1>4, <3>1
  <2>3. ASSUME NEW p \in Polls, AP!CallPoll(p)
        PROVE  /\ poll' \in [Polls -> PollRecords] /\ isPolling' \in BOOLEAN
               /\ hidden' \in BOOLEAN /\ pollDelay' \in BOOLEAN
    BY <1>3, <1>4, <2>3 DEF AP!CallPoll, AP!page
  <2>4. CASE AP!CallLink
    <3>1. poll' = [p \in Polls |->
                     [poll[p] EXCEPT !.stopped = poll[p].stage \notin {"none", "over"}]]
      BY <2>4 DEF AP!CallLink
    <3>2. ASSUME NEW p \in Polls
          PROVE  [poll[p] EXCEPT !.stopped = poll[p].stage \notin {"none", "over"}]
                    \in PollRecords
      <4>1. PICK b \in BOOLEAN : b = (poll[p].stage \notin {"none", "over"})
        BY Zenon
      <4>2. poll[p] \in PollRecords  BY <1>3
      <4>3. [poll[p] EXCEPT !.stopped = b] \in PollRecords  BY <1>4, <4>2
      <4>q. QED  BY <4>1, <4>3
    <3>q. QED  BY <1>3, <2>4, <3>1, <3>2 DEF AP!CallLink, AP!page
  <2>5. CASE AP!VisibilityChanges
    BY <1>3, <2>5 DEF AP!VisibilityChanges
  <2>6. ASSUME NEW p \in Polls, AP!Step(p), ~AP!Over(p)
        PROVE  /\ poll' \in [Polls -> PollRecords] /\ isPolling' \in BOOLEAN
               /\ hidden' \in BOOLEAN /\ pollDelay' \in BOOLEAN
    <3>1. PICK r : r = poll[p]  OBVIOUS
    <3>2. r \in PollRecords  BY <1>3, <3>1
    <3>3. \E to \in PollRecords : poll' = [poll EXCEPT ![p] = to]
      <4>1. CASE AP!Again(p)
        BY <1>3, <1>4, <2>6, <3>1, <3>2, <4>1 DEF AP!Again
      <4>2. CASE AP!Waiting(p)
        <5>1. poll' = [poll EXCEPT ![p] = [r EXCEPT !.stage = "delay", !.retries = 0]]
          BY <1>3, <2>6, <3>1, <4>2 DEF AP!Waiting
        <5>q. QED  BY <1>4, <3>2, <5>1
      <4>3. CASE AP!BacksOff(p)
        <5>1. /\ poll' = [poll EXCEPT ![p] = [r EXCEPT !.stage = "backoff",
                                                       !.retries = @ + 1]]
              /\ r.retries < MaxBackoffs
          BY <1>3, <2>6, <3>1, <4>3 DEF AP!BacksOff
        <5>q. QED  BY <1>4, <3>2, <5>1
      <4>4. CASE AP!Fetches(p)
        <5>1. poll' = [poll EXCEPT ![p] = [r EXCEPT !.stage = "asking"]]
          BY <1>3, <3>1, <4>4 DEF AP!Fetches
        <5>q. QED  BY <1>4, <3>2, <5>1
      <4>5. CASE AP!LoadFails(p)
        <5>1. /\ poll' = [poll EXCEPT ![p] = [r EXCEPT !.stage = "held", !.loads = @ + 1]]
              /\ r.loads < MaxLoads
          BY <1>3, <3>1, <4>5 DEF AP!LoadFails
        <5>q. QED  BY <1>4, <3>2, <5>1
      <4>q. QED  BY <2>6, <4>1, <4>2, <4>3, <4>4, <4>5 DEF AP!Step, AP!Settles
    <3>4. UNCHANGED <<isPolling, hidden, pollDelay>>
      BY <2>6 DEF AP!Step, AP!Again, AP!Waiting, AP!Settles, AP!BacksOff, AP!Fetches,
                  AP!LoadFails, AP!page
    <3>q. QED  BY <1>3, <3>3, <3>4
  <2>q. QED  BY <1>2, <2>1, <2>2, <2>3, <2>4, <2>5, <2>6 DEF AP!Next
<1>q. QED  BY <1>5 DEF AP!TypeOK, PollRecords

-------------------------------------------------------------------------------
(* MCAnswered, whose steps are steps of one of the modules.                     *)

\* The inductive invariant of the flows, for any two flows and number of messages.
THEOREM FlowsInvariant == MCSpec => []FlowsInv
<1>1. MCInit => FlowsInv  BY FlowsInit DEF MCInit
<1>2. FlowsInv /\ [MCNext]_all => FlowsInv'
  <2>1. [MCNext]_all => [TF!Next]_flowVars
    BY DEF MCNext, all, Evaluating, Flowing, Polling, Serving, flowVars
  <2>q. QED  BY <2>1, FlowsStep
<1>q. QED  BY <1>1, <1>2, PTL DEF MCSpec

\* Every variable keeps its type.
THEOREM TypesCorrect == MCSpec => []Types
<1>1. MCSpec => []TypeOK
  <2>1. MCInit => IInv  BY InitIInv DEF MCInit
  <2>2. IInv /\ [MCNext]_all => IInv'
    <3>1. [MCNext]_all => [Next]_vars
      BY DEF MCNext, all, Evaluating, Flowing, Polling, Serving
    <3>q. QED  BY <3>1, NextKeepsIInv
  <2>3. IInv => TypeOK  BY DEF IInv
  <2>q. QED  BY <2>1, <2>2, <2>3, PTL DEF MCSpec
<1>2. MCSpec => []AP!TypeOK
  <2>1. MCInit => AP!TypeOK  BY PollsTyped DEF MCInit
  <2>2. AP!TypeOK /\ [MCNext]_all => AP!TypeOK'
    <3>1. [MCNext]_all => [AP!Next]_pollVars
      BY DEF MCNext, all, Evaluating, Flowing, Polling, Serving, pollVars
    <3>q. QED  BY <3>1, PollsTyped
  <2>q. QED  BY <2>1, <2>2, PTL DEF MCSpec
<1>3. TypeOK /\ FlowsInv /\ AP!TypeOK => Types
  BY FlowsTyped DEF Types
<1>q. QED  BY <1>1, <1>2, <1>3, FlowsInvariant, PTL

\* A code is sent to the token endpoint for a caller who still waits, and once,
\* whatever messages, timers, closed popups and cancellations come in what order
\* (getToken and its listeners).
THEOREM NoLate == MCSpec => NoLateExchange
<1> DEFINE A == \A f \in {First, Second} : flow'[f].requests # flow[f].requests =>
                   flow[f].result = "none" /\ flow'[f].requests = 1
<1>1. FlowsInv /\ [MCNext]_all => [A]_flowVars
  <2>1. [MCNext]_all => [TF!Next]_flowVars
    BY DEF MCNext, all, Evaluating, Flowing, Polling, Serving, flowVars
  <2>q. QED  BY <2>1, FlowsExchange
<1>q. QED
  BY <1>1, FlowsInvariant, PTL DEF MCSpec, NoLateExchange, TF!NoLateExchange, TF!flowVars, flowVars
===============================================================================
