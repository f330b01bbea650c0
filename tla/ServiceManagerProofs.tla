------------------------- MODULE ServiceManagerProofs -------------------------
(* What holds of ServiceManager for every set of tabs, every set of options and *)
(* any number of calls.                                                         *)
(*                                                                              *)
(* LastCallDecides speaks of a tab whose calls are all over.  To prove it one   *)
(* has to know what a tab looks like at every await in between, so TabOK says   *)
(* for a tab whose calls do not overlap who may be under way together           *)
(* (Alone, Together) and what runs at each place of a start (Started, Complete) *)
(* and of a stop (Stopped, and the services that are half stopped: Channel,     *)
(* Election).  That the queue of microtasks holds exactly the calls that wait   *)
(* for one (InLine) is needed in every tab: a leader is only told when the      *)
(* queue is empty, and nothing else is under way then.                          *)
EXTENDS ServiceManager, SequenceTheorems, WellFoundedInduction, TLAPS

Op(t, c) == calls[t][c].op
At(t, c) == calls[t][c].place

\* The last call of the application, and whether it is a start() or a stop().
IsLast(t, c) == /\ c \in DOMAIN calls[t]
                /\ Op(t, c) # "lead"
                /\ \A d \in DOMAIN calls[t] : Op(t, d) # "lead" => d <= c

\* A call is in the queue once, if it waits for a microtask.
InLine(t) ==
    /\ \A c \in DOMAIN calls[t] : At(t, c) \in 1 .. Watch
                                  <=> \E i \in DOMAIN jobs[t] : jobs[t][i] = c
    /\ \A i, j \in DOMAIN jobs[t] : jobs[t][i] = jobs[t][j] => i = j

\* Where a call can be.
Places(t) ==
    \A c \in DOMAIN calls[t] :
        /\ Op(t, c) = "start" => At(t, c) \in {0} \cup 2 .. Watch
        /\ Op(t, c) = "lead" => At(t, c) \in 0 .. 5
        /\ Op(t, c) = "stop" => At(t, c) \in ({0} \cup 2 .. 10) \ {Watch}

\* The service a stop() is at.
Level(p) == IF p <= 5 THEN p ELSE IF p = Returned THEN 5
            ELSE IF p = Closing THEN 2 ELSE 3

\* A stop() is under way alone.
Alone(t) == \A c \in DOMAIN calls[t] :
                Op(t, c) = "stop" /\ At(t, c) # Over =>
                    /\ IsLast(t, c)
                    /\ \A d \in DOMAIN calls[t] : At(t, d) # Over => d = c

\* A start() is under way alone, until it is about to start the token manager;
\* onLeader() runs in a tab that is started.
Together(t) ==
    \A c \in DOMAIN calls[t] : At(t, c) # Over =>
        /\ Op(t, c) = "start" => IsLast(t, c)
        /\ Op(t, c) = "lead" =>
               /\ started[t]
               /\ \E d \in DOMAIN calls[t] : IsLast(t, d) /\ Op(t, d) = "start"
               /\ \A d \in DOMAIN calls[t] :
                     At(t, d) # Over => d = c \/ At(t, d) = Watch

Election(t) ==
    /\ "leaderElection" \in running[t]
           <=> \/ elector[t] # "none"
               \/ \E c \in DOMAIN calls[t] : At(t, c) = Leaving
    /\ \A c \in DOMAIN calls[t] : /\ At(t, c) = Dying => elector[t] = "dead"
                                  /\ At(t, c) = Leaving => elector[t] = "none"
    /\ "autoRenew" \in running[t] /\ "syncStorage" \in options => Leads(t)

Channel(t) ==
    /\ "syncStorage" \in running[t] => "syncStorage" \in options
    /\ ears[t] = IF /\ "syncStorage" \in running[t]
                    /\ \A c \in DOMAIN calls[t] : At(t, c) # Closing
                 THEN {"current"} ELSE {}

Stopped(t) ==
    /\ \A c \in DOMAIN calls[t] : Op(t, c) = "stop" /\ At(t, c) # Over =>
           /\ ~watching[t]
           /\ \A j \in 1 .. 4 : j < Level(At(t, c)) => Services[j] \notin running[t]
    /\ (\A c \in DOMAIN calls[t] : IsLast(t, c) => Op(t, c) = "stop" /\ At(t, c) = Over)
           => ~started[t] /\ ~watching[t] /\ running[t] = {}

Started(t) ==
    \A c \in DOMAIN calls[t] : IsLast(t, c) /\ Op(t, c) = "start" =>
        /\ At(t, c) \in {Over, Watch} => started[t]
        /\ At(t, c) = Over => watching[t]

\* The services before place p cannot start any more.
Done(t, p) == \A j \in 1 .. 4 : j < p => ~CanStartService(t, Services[j])

Complete(t) ==
    \A l \in DOMAIN calls[t] : IsLast(t, l) /\ Op(t, l) = "start" =>
        /\ \A c \in DOMAIN calls[t] : At(t, c) \in 1 .. 5 => Done(t, At(t, c))
        /\ (\A c \in DOMAIN calls[t] : At(t, c) \notin 1 .. 5) => Done(t, 5)

TabOK(t) == /\ Alone(t)
            /\ Together(t)
            /\ Election(t)
            /\ Channel(t)
            /\ Stopped(t)
            /\ Started(t)
            /\ Complete(t)

\* The inductive invariant.
IInv == /\ TypeOK
        /\ \A t \in Tabs : InLine(t) /\ Places(t) /\ (~overlap[t] => TabOK(t))

-------------------------------------------------------------------------------
(* The calls of a tab and the queue of microtasks. *)

\* The services, by their place.
LEMMA ServicesAre ==
    /\ Services[1] = "autoRenew"
    /\ Services[2] = "syncStorage"
    /\ Services[3] = "leaderElection"
    /\ Services[4] = "renewOnTabActivation"
    /\ \A i \in 1 .. 4 : i = 1 \/ i = 2 \/ i = 3 \/ i = 4
BY DEF Services

\* The first of the places at which something can start.
LEMMA MinIsFirst ==
    ASSUME NEW S \in SUBSET (1 .. 4), S # {}
    PROVE  Min(S) \in S /\ \A i \in S : Min(S) <= i
<1>1. \E x \in S : \A y \in S : x =< y
  <2>1. CASE 1 \in S  BY <2>1
  <2>2. CASE 1 \notin S /\ 2 \in S  BY <2>2
  <2>3. CASE 1 \notin S /\ 2 \notin S /\ 3 \in S  BY <2>3
  <2>4. CASE 1 \notin S /\ 2 \notin S /\ 3 \notin S
    <3>1. \A y \in S : y = 4  BY <2>4
    <3>2. PICK x \in S : TRUE  OBVIOUS
    <3>3. \A y \in S : x =< y  BY <3>1
    <3>q. QED  BY <3>3
  <2>q. QED  BY <2>1, <2>2, <2>3, <2>4
<1>q. QED  BY <1>1 DEF Min

\* What GoOn does to the calls: one of them has moved, or is new.
Went(t, c, op, place) ==
    /\ calls'[t] \in Seq(Calls)
    /\ DOMAIN calls'[t] = DOMAIN calls[t] \cup {c}
    /\ calls'[t][c] = [op |-> op, place |-> place]
    /\ \A d \in DOMAIN calls[t] \ {c} : calls'[t][d] = calls[t][d]
    /\ c \in DOMAIN calls[t] \/ \A d \in DOMAIN calls[t] : d < c

\* The call that goes on is the one of the first microtask, or in none.
CanGoOn(t, c) ==
    \/ jobs[t] # <<>> /\ c = Head(jobs[t])
    \/ c = Len(calls[t]) + 1
    \/ c \in DOMAIN calls[t] /\ At(t, c) \notin 1 .. Watch

\* A call that goes on has moved to its next place, and no other call has.
LEMMA Going ==
    ASSUME TypeOK, NEW t \in Tabs, NEW c \in Nat, CanGoOn(t, c),
           NEW op \in {"start", "stop", "lead"}, NEW place \in 0 .. 10,
           c \in DOMAIN calls[t] => op = Op(t, c),
           GoOn(t, op, c, place)
    PROVE  /\ Went(t, c, op, place)
           /\ calls' \in [Tabs -> Seq(Calls)]
           /\ \A u \in Tabs \ {t} : calls'[u] = calls[u]
<1>1. /\ calls \in [Tabs -> Seq(Calls)]
      /\ jobs \in [Tabs -> Seq(Nat)]
      /\ jobs[t] \in Seq(DOMAIN calls[t])
  BY DEF TypeOK
<1>2. calls[t] \in Seq(Calls) /\ Len(calls[t]) \in Nat
      /\ DOMAIN calls[t] = 1 .. Len(calls[t])
  BY <1>1
<1>3. c \in DOMAIN calls[t] \/ c = Len(calls[t]) + 1
  <2>1. ASSUME jobs[t] # <<>>  PROVE Head(jobs[t]) \in DOMAIN calls[t]
    BY <1>1, <2>1, HeadTailProperties
  <2>q. QED  BY <2>1 DEF CanGoOn
<1>4. [op |-> op, place |-> place] \in Calls
  BY DEF Calls
<1>5. CASE c \in DOMAIN calls[t]
  <2>1. calls' = [calls EXCEPT ![t] = [calls[t] EXCEPT ![c] =
                                         [calls[t][c] EXCEPT !.place = place]]]
    BY <1>1, <1>5 DEF GoOn
  <2>2. [calls[t][c] EXCEPT !.place = place] = [op |-> op, place |-> place]
    <3>1. calls[t][c] \in Calls  BY <1>2, <1>5
    <3>2. calls[t][c].op = op  BY <1>5 DEF Op
    <3>q. QED  BY <3>1, <3>2 DEF Calls
  <2>3. calls'[t] = [calls[t] EXCEPT ![c] = [op |-> op, place |-> place]]
    BY <1>1, <2>1, <2>2
  <2>4. /\ calls'[t] \in Seq(Calls)
        /\ DOMAIN calls'[t] = DOMAIN calls[t]
        /\ calls'[t][c] = [op |-> op, place |-> place]
        /\ \A d \in DOMAIN calls[t] \ {c} : calls'[t][d] = calls[t][d]
    BY <1>2, <1>4, <1>5, <2>3, ExceptSeq
  <2>q. QED  BY <1>1, <1>5, <2>1, <2>4 DEF Went
<1>6. CASE c \notin DOMAIN calls[t]
  <2>1. c = Len(calls[t]) + 1  BY <1>3, <1>6
  <2>2. calls' = [calls EXCEPT ![t] = Append(calls[t], [op |-> op, place |-> place])]
    BY <1>1, <1>6 DEF GoOn
  <2>3. calls'[t] = Append(calls[t], [op |-> op, place |-> place])
    BY <1>1, <2>2
  <2>4. /\ calls'[t] \in Seq(Calls)
        /\ Len(calls'[t]) = Len(calls[t]) + 1
        /\ \A d \in 1 .. Len(calls[t]) : calls'[t][d] = calls[t][d]
        /\ calls'[t][Len(calls[t]) + 1] = [op |-> op, place |-> place]
    BY <1>2, <1>4, <2>3, AppendProperties
  <2>5. DOMAIN calls'[t] = DOMAIN calls[t] \cup {c}
    BY <1>2, <2>1, <2>4
  <2>6. \A d \in DOMAIN calls[t] : d < c
    BY <1>2, <2>1
  <2>q. QED  BY <1>1, <1>2, <2>1, <2>2, <2>4, <2>5, <2>6 DEF Went
<1>q. QED  BY <1>5, <1>6

\* The queue of microtasks stays the calls that wait for one, each once.
LEMMA Queued ==
    ASSUME TypeOK, NEW t \in Tabs, InLine(t), NEW c \in Nat, CanGoOn(t, c),
           NEW op \in {"start", "stop", "lead"}, NEW place \in 0 .. 10,
           c \in DOMAIN calls[t] => op = Op(t, c),
           GoOn(t, op, c, place)
    PROVE  /\ InLine(t)'
           /\ jobs' \in [Tabs -> Seq(Nat)]
           /\ \A u \in Tabs : jobs'[u] \in Seq(DOMAIN calls'[u])
           /\ \A u \in Tabs \ {t} : jobs'[u] = jobs[u]
<1> DEFINE J == jobs[t]
           D == DOMAIN calls[t]
           R == IF J # <<>> /\ Head(J) = c THEN Tail(J) ELSE J
<1>1. /\ jobs \in [Tabs -> Seq(Nat)]
      /\ J \in Seq(D)
      /\ D = 1 .. Len(calls[t]) /\ Len(calls[t]) \in Nat
      /\ \A u \in Tabs : jobs[u] \in Seq(DOMAIN calls[u])
  BY DEF TypeOK
<1>2. /\ DOMAIN calls'[t] = D \cup {c}
      /\ At(t, c)' = place
      /\ \A d \in D \ {c} : At(t, d)' = At(t, d)
      /\ \A u \in Tabs \ {t} : calls'[u] = calls[u]
  <2>1. Went(t, c, op, place) /\ \A u \in Tabs \ {t} : calls'[u] = calls[u]
    BY Going
  <2>q. QED  BY <2>1 DEF Went, At
<1>3. jobs' = [jobs EXCEPT ![t] = IF place \in 1 .. Watch THEN Append(R, c) ELSE R]
  BY DEF GoOn
<1>4. /\ \A d \in D : At(t, d) \in 1 .. Watch <=> \E i \in DOMAIN J : J[i] = d
      /\ \A i, j \in DOMAIN J : J[i] = J[j] => i = j
      /\ DOMAIN J = 1 .. Len(J) /\ Len(J) \in Nat
  BY <1>1 DEF InLine
<1>5. /\ R \in Seq(D)
      /\ DOMAIN R = 1 .. Len(R) /\ Len(R) \in Nat
      /\ \A i \in DOMAIN R : R[i] # c /\ \E j \in DOMAIN J : J[j] = R[i]
      /\ \A i \in DOMAIN J : J[i] # c => \E j \in DOMAIN R : R[j] = J[i]
      /\ \A i, j \in DOMAIN R : R[i] = R[j] => i = j
  <2>1. CASE J # <<>> /\ Head(J) = c
    <3>1. /\ Tail(J) \in Seq(D)
          /\ J[1] = c
          /\ Len(Tail(J)) = Len(J) - 1
          /\ \A i \in 1 .. Len(Tail(J)) : Tail(J)[i] = J[i + 1]
      BY <1>1, <2>1, HeadTailProperties
    <3>2. Len(J) > 0  BY <1>1, <2>1, EmptySeq
    <3>3. R = Tail(J)  BY <2>1
    <3>4. DOMAIN R = 1 .. Len(R) /\ Len(R) \in Nat  BY <3>1, <3>3
    <3> HIDE DEF R, J, D
    <3>5. ASSUME NEW i \in DOMAIN R
          PROVE  R[i] # c /\ \E j \in DOMAIN J : J[j] = R[i]
      <4>1. R[i] = J[i + 1] /\ i + 1 \in DOMAIN J /\ 1 \in DOMAIN J /\ i + 1 # 1
        BY <1>4, <3>1, <3>2, <3>3, <3>4
      <4>q. QED  BY <1>4, <3>1, <4>1
    <3>6. ASSUME NEW i \in DOMAIN J, J[i] # c
          PROVE  \E j \in DOMAIN R : R[j] = J[i]
      <4>1. i # 1  BY <3>1, <3>6
      <4>2. i - 1 \in DOMAIN R /\ i - 1 + 1 = i
        BY <1>4, <3>1, <3>3, <3>4, <4>1
      <4>3. R[i - 1] = J[i]  BY <3>1, <3>3, <3>4, <4>2
      <4>q. QED  BY <4>2, <4>3
    <3>7. ASSUME NEW i \in DOMAIN R, NEW j \in DOMAIN R, R[i] = R[j]  PROVE i = j
      <4>1. /\ R[i] = J[i + 1] /\ i + 1 \in DOMAIN J
            /\ R[j] = J[j + 1] /\ j + 1 \in DOMAIN J
        BY <1>4, <3>1, <3>2, <3>3, <3>4
      <4>2. i + 1 = j + 1  BY <1>4, <3>7, <4>1
      <4>q. QED  BY <3>4, <4>2
    <3>q. QED  BY <3>1, <3>3, <3>4, <3>5, <3>6, <3>7
  <2>2. CASE ~(J # <<>> /\ Head(J) = c)
    <3>1. R = J  BY <2>2
    <3>2. c \notin D \/ At(t, c) \notin 1 .. Watch
      BY <1>1, <2>2 DEF CanGoOn
    <3> HIDE DEF R, J, D
    <3>3. \A i \in DOMAIN J : J[i] \in D  BY <1>1
    <3>4. \A i \in DOMAIN J : J[i] # c  BY <1>4, <3>2, <3>3
    <3>q. QED  BY <1>1, <1>4, <3>1, <3>4
  <2>q. QED  BY <2>1, <2>2
<1> HIDE DEF R, J, D
<1>6. /\ R \in Seq(D \cup {c}) /\ R \in Seq(Nat)
      /\ \A i \in DOMAIN R : R[i] \in D
  <2>1. D \subseteq Nat  BY <1>1
  <2>2. \A i \in DOMAIN R : R[i] \in D  BY <1>5
  <2>q. QED  BY <1>5, <2>1, <2>2, SeqMonotonic
<1>7. jobs'[t] = IF place \in 1 .. Watch THEN Append(R, c) ELSE R
  BY <1>1, <1>3
<1>8. /\ Append(R, c) \in Seq(D \cup {c}) /\ Append(R, c) \in Seq(Nat)
      /\ DOMAIN Append(R, c) = 1 .. Len(R) + 1
      /\ \A i \in DOMAIN R : Append(R, c)[i] = R[i]
      /\ Append(R, c)[Len(R) + 1] = c
  BY <1>5, <1>6, AppendProperties
<1>9. jobs' \in [Tabs -> Seq(Nat)] /\ \A u \in Tabs \ {t} : jobs'[u] = jobs[u]
  BY <1>1, <1>3, <1>6, <1>8
<1>10. \A u \in Tabs : jobs'[u] \in Seq(DOMAIN calls'[u])
  BY <1>1, <1>2, <1>6, <1>7, <1>8, <1>9
<1>11. InLine(t)'
  <2>1. \A d \in D : d # c => (At(t, d)' \in 1 .. Watch <=> \E i \in DOMAIN R : R[i] = d)
    <3> SUFFICES ASSUME NEW d \in D, d # c
                 PROVE  At(t, d) \in 1 .. Watch <=> \E i \in DOMAIN R : R[i] = d
      BY <1>2
    <3>q. QED  BY <1>4, <1>5
  <2>2. CASE place \in 1 .. Watch
    <3>1. jobs'[t] = Append(R, c)  BY <1>7, <2>2
    <3>2. DOMAIN jobs'[t] = DOMAIN R \cup {Len(R) + 1} /\ Len(R) + 1 \notin DOMAIN R
      BY <1>5, <1>8, <3>1
    <3>3. \A d \in D \cup {c} : At(t, d)' \in 1 .. Watch
                                <=> \E i \in DOMAIN jobs'[t] : jobs'[t][i] = d
      BY <1>2, <1>5, <1>8, <2>1, <2>2, <3>1, <3>2
    <3>4. \A i, j \in DOMAIN jobs'[t] : jobs'[t][i] = jobs'[t][j] => i = j
      BY <1>5, <1>8, <3>1, <3>2
    <3>q. QED  BY <1>2, <3>3, <3>4 DEF InLine
  <2>3. CASE place \notin 1 .. Watch
    <3>1. jobs'[t] = R  BY <1>7, <2>3
    <3>2. \A d \in D \cup {c} : At(t, d)' \in 1 .. Watch
                                <=> \E i \in DOMAIN jobs'[t] : jobs'[t][i] = d
      BY <1>2, <1>5, <2>1, <2>3, <3>1
    <3>q. QED  BY <1>2, <1>5, <3>1, <3>2 DEF InLine
  <2>q. QED  BY <2>2, <2>3
<1>q. QED  BY <1>9, <1>10, <1>11

-------------------------------------------------------------------------------
(* What a step of a tab does to that tab, and leaves alone in the others. *)

Here(t) == InLine(t) /\ Places(t) /\ (~overlap[t] => TabOK(t))

Same(u) == /\ running'[u] = running[u]
           /\ started'[u] = started[u]
           /\ watching'[u] = watching[u]
           /\ elector'[u] = elector[u]
           /\ ears'[u] = ears[u]
           /\ calls'[u] = calls[u]
           /\ jobs'[u] = jobs[u]
           /\ overlap'[u] = overlap[u]

\* No tab reads what another one keeps.
LEMMA OtherTabs ==
    ASSUME NEW u \in Tabs, Here(u), Same(u), options' = options
    PROVE  Here(u)'
<1> USE DEF Same
<1>1. \A c : (IsLast(u, c)' <=> IsLast(u, c)) /\ Op(u, c)' = Op(u, c) /\ At(u, c)' = At(u, c)
  BY DEF IsLast, Op, At
<1>2. InLine(u)' <=> InLine(u)
  BY DEF InLine, At
<1>3. Places(u)' <=> Places(u)
  BY DEF Places, At, Op
<1>4. \A j \in 1 .. 4 : CanStartService(u, Services[j])' <=> CanStartService(u, Services[j])
  BY DEF CanStartService, CanStart, IsLeaderRequired, RequiresLeadership, Leads
<1>5. \A p : Done(u, p)' <=> Done(u, p)
  BY <1>4 DEF Done
<1>6. (Alone(u)' <=> Alone(u)) /\ (Together(u)' <=> Together(u))
  BY DEF Alone, Together, IsLast, Op, At
<1>7. (Election(u)' <=> Election(u)) /\ (Channel(u)' <=> Channel(u))
  BY DEF Election, Channel, At, Leads
<1>8. (Stopped(u)' <=> Stopped(u)) /\ (Started(u)' <=> Started(u))
  BY DEF Stopped, Started, IsLast, Op, At
<1>9. Complete(u)' <=> Complete(u)
  BY <1>1, <1>5 DEF Complete, Same
<1>10. overlap'[u] = overlap[u]
  OBVIOUS
<1>q. QED  BY <1>2, <1>3, <1>6, <1>7, <1>8, <1>9, <1>10 DEF Here, TabOK

\* The last call of the application stays it, or is the new one.
LEMMA LastKept ==
    ASSUME NEW t \in Tabs, NEW c \in Nat, NEW op, NEW place,
           Went(t, c, op, place),
           c \in DOMAIN calls[t] => op = Op(t, c),
           c \in DOMAIN calls[t] \/ op = "lead"
    PROVE  \A d : IsLast(t, d)' <=> IsLast(t, d)
<1>1. /\ DOMAIN calls'[t] = DOMAIN calls[t] \cup {c}
      /\ calls'[t][c].op = op
      /\ \A d \in DOMAIN calls[t] : calls'[t][d].op = calls[t][d].op
  BY DEF Went, Op
<1>q. QED  BY <1>1 DEF IsLast, Op

\* A new start() or stop() is the last call.
LEMMA LastIsNew ==
    ASSUME NEW t \in Tabs, NEW c \in Nat, NEW op, op # "lead", NEW place,
           Went(t, c, op, place), c \notin DOMAIN calls[t],
           DOMAIN calls[t] \subseteq Nat
    PROVE  \A d : IsLast(t, d)' <=> d = c
<1>1. /\ DOMAIN calls'[t] = DOMAIN calls[t] \cup {c}
      /\ calls'[t][c].op = op
      /\ \A d \in DOMAIN calls[t] : d < c
  BY DEF Went
<1>q. QED  BY <1>1 DEF IsLast, Op

\* There is one last call.
LEMMA LastIsOne ==
    ASSUME NEW t \in Tabs, DOMAIN calls[t] \subseteq Nat,
           NEW c, NEW d, IsLast(t, c), IsLast(t, d)
    PROVE  c = d
BY DEF IsLast

\* A call that moves is where a call of its kind can be.
LEMMA PlacesKept ==
    ASSUME NEW t \in Tabs, Places(t), NEW c \in Nat,
           NEW op \in {"start", "stop", "lead"}, NEW place,
           Went(t, c, op, place),
           op = "start" => place \in {0} \cup 2 .. Watch,
           op = "lead" => place \in 0 .. 5,
           op = "stop" => place \in ({0} \cup 2 .. 10) \ {Watch}
    PROVE  Places(t)'
<1>1. /\ DOMAIN calls'[t] = DOMAIN calls[t] \cup {c}
      /\ Op(t, c)' = op /\ At(t, c)' = place
      /\ \A d \in DOMAIN calls[t] \ {c} : Op(t, d)' = Op(t, d) /\ At(t, d)' = At(t, d)
  BY DEF Went, Op, At
<1>q. QED  BY <1>1 DEF Places

\* Services that are started, and a leadership that is not gained, let no other
\* service start.
LEMMA StillCannot ==
    ASSUME NEW t \in Tabs, options' = options, running[t] \subseteq running'[t],
           Leads(t)' => Leads(t), NEW p, Done(t, p)
    PROVE  Done(t, p)'
<1>1. \A s : CanStart(t, s)' => CanStart(t, s)
  BY DEF CanStart
<1>2. IsLeaderRequired(t)' => IsLeaderRequired(t)
  BY <1>1 DEF IsLeaderRequired, RequiresLeadership
<1>3. \A s : CanStartService(t, s)' => CanStartService(t, s)
  BY <1>1, <1>2 DEF CanStartService, RequiresLeadership
<1>q. QED  BY <1>3 DEF Done

\* startServices() of one await: it is over, or one service is started.
StartsNone(t, op, c, p) ==
    /\ Done(t, p) => Done(t, 5)
    /\ GoOn(t, op, c, IF op = "start" THEN Returned ELSE Over)
    /\ UNCHANGED <<running, elector, ears>>
StartsOne(t, op, c, p, m) ==
    /\ Done(t, p) => Done(t, m)
    /\ CanStartService(t, Services[m])
    /\ GoOn(t, op, c, m + 1)
    /\ running' = [running EXCEPT ![t] = running[t] \cup {Services[m]}]
    /\ elector' = [elector EXCEPT ![t] = IF m = 3 THEN "candidate" ELSE elector[t]]
    /\ ears' = [ears EXCEPT ![t] = IF m = 2 THEN ears[t] \cup {"current"} ELSE ears[t]]

\* startServices() of one await is StartsNone or StartsOne.
LEMMA StartEffect ==
    ASSUME TypeOK, NEW t \in Tabs, NEW op, NEW c, NEW p \in 1 .. 5,
           StartServices(t, op, c, p)
    PROVE  StartsNone(t, op, c, p) \/ \E m \in p .. 4 : StartsOne(t, op, c, p, m)
<1> DEFINE ready == {i \in p .. 4 : CanStartService(t, Services[i])}
<1>0. /\ running \in [Tabs -> SUBSET {Services[i] : i \in 1 .. 4}]
      /\ elector \in [Tabs -> {"none", "candidate", "leader", "dead"}]
      /\ ears \in [Tabs -> SUBSET {"current", "lost"}]
  BY DEF TypeOK
<1>1. CASE ready = {}
  <2>1. /\ GoOn(t, op, c, IF op = "start" THEN Returned ELSE Over)
        /\ UNCHANGED <<running, elector, ears>>
    BY <1>1 DEF StartServices
  <2>2. \A j \in p .. 4 : ~CanStartService(t, Services[j])  BY <1>1
  <2>3. Done(t, p) => Done(t, 5)
    BY <2>2 DEF Done
  <2>q. QED  BY <2>1, <2>3 DEF StartsNone
<1>2. CASE ready # {}
  <2> DEFINE m == Min(ready)
  <2>1. /\ GoOn(t, op, c, m + 1)
        /\ running' = [running EXCEPT ![t] = @ \cup {Services[m]}]
        /\ elector' = [elector EXCEPT ![t] =
                          IF Services[m] = "leaderElection" THEN "candidate" ELSE @]
        /\ ears' = [ears EXCEPT ![t] =
                       IF Services[m] = "syncStorage" THEN @ \cup {"current"} ELSE @]
    BY <1>2 DEF StartServices
  <2>2. ready \in SUBSET (1 .. 4)  OBVIOUS
  <2>3. m \in ready /\ \A i \in ready : m <= i  BY <1>2, <2>2, MinIsFirst
  <2> HIDE DEF m
  <2>4. m \in p .. 4 /\ m \in 1 .. 4 /\ CanStartService(t, Services[m])  BY <2>3
  <2>5. \A j \in p .. 4 : j < m => ~CanStartService(t, Services[j])
    BY <2>3, <2>4
  <2>6. Done(t, p) => Done(t, m)
    BY <2>4, <2>5 DEF Done
  <2>7. (Services[m] = "leaderElection" <=> m = 3) /\ (Services[m] = "syncStorage" <=> m = 2)
    BY <2>4, ServicesAre
  <2>8. StartsOne(t, op, c, p, m)
    BY <1>0, <2>1, <2>4, <2>6, <2>7 DEF StartsOne
  <2>q. QED  BY <2>4, <2>8
<1>q. QED  BY <1>1, <1>2

\* stopServices() of one await.
StopsChannel(t, c, p) ==
    /\ p = 2 /\ "syncStorage" \in running[t]
    /\ GoOn(t, "stop", c, Closing)
    /\ ears' = [ears EXCEPT ![t] = ears[t] \ {"current"}]
    /\ UNCHANGED <<running, elector>>
StopsElection(t, c, p) ==
    /\ p = 3 /\ "leaderElection" \in running[t]
    /\ GoOn(t, "stop", c, IF elector[t] = "none" THEN Leaving ELSE Dying)
    /\ elector' = [elector EXCEPT ![t] = IF elector[t] = "none" THEN "none" ELSE "dead"]
    /\ UNCHANGED <<running, ears>>
StopsOne(t, c, p) ==
    /\ p = 2 => "syncStorage" \notin running[t]
    /\ p = 3 => "leaderElection" \notin running[t]
    /\ GoOn(t, "stop", c, p + 1)
    /\ running' = [running EXCEPT ![t] = running[t] \ {IF p = 5 THEN "none" ELSE Services[p]}]
    /\ UNCHANGED <<elector, ears>>

\* stopServices() of one await is StopsChannel, StopsElection or StopsOne.
LEMMA StopEffect ==
    ASSUME TypeOK, NEW t \in Tabs, NEW c, NEW p \in 1 .. 5, StopServices(t, c, p)
    PROVE  StopsChannel(t, c, p) \/ StopsElection(t, c, p) \/ StopsOne(t, c, p)
<1> DEFINE s == IF p = 5 THEN "none" ELSE Services[p]
<1>0. /\ running \in [Tabs -> SUBSET {Services[i] : i \in 1 .. 4}]
      /\ elector \in [Tabs -> {"none", "candidate", "leader", "dead"}]
      /\ ears \in [Tabs -> SUBSET {"current", "lost"}]
  BY DEF TypeOK
<1>1. (s = "syncStorage" <=> p = 2) /\ (s = "leaderElection" <=> p = 3)
  <2>1. CASE p = 5  BY <2>1
  <2>2. CASE p # 5
    <3>1. p \in 1 .. 4  BY <2>2
    <3>q. QED  BY <2>2, <3>1, ServicesAre
  <2>q. QED  BY <2>1, <2>2
<1>2. CASE p = 2 /\ "syncStorage" \in running[t]
  <2>1. s = "syncStorage" /\ s \in running[t]  BY <1>1, <1>2
  <2>2. /\ GoOn(t, "stop", c, Closing)
        /\ ears' = [ears EXCEPT ![t] = @ \ {"current"}]
        /\ UNCHANGED <<running, elector>>
    BY <2>1 DEF StopServices
  <2>q. QED  BY <1>0, <1>2, <2>2 DEF StopsChannel
<1>3. CASE p = 3 /\ "leaderElection" \in running[t]
  <2>1. s = "leaderElection" /\ s \in running[t]  BY <1>1, <1>3
  <2>2. /\ GoOn(t, "stop", c, IF elector[t] = "none" THEN Leaving ELSE Dying)
        /\ elector' = [elector EXCEPT ![t] = IF @ = "none" THEN @ ELSE "dead"]
        /\ UNCHANGED <<running, ears>>
    BY <2>1 DEF StopServices
  <2>q. QED  BY <1>0, <1>3, <2>2 DEF StopsElection
<1>4. CASE ~(p = 2 /\ "syncStorage" \in running[t]) /\ ~(p = 3 /\ "leaderElection" \in running[t])
  <2>1. ~(s = "syncStorage" /\ s \in running[t]) /\ ~(s = "leaderElection" /\ s \in running[t])
    BY <1>1, <1>4
  <2>2. /\ GoOn(t, "stop", c, p + 1)
        /\ running' = [running EXCEPT ![t] = @ \ {s}]
        /\ UNCHANGED <<elector, ears>>
    BY <2>1 DEF StopServices
  <2>q. QED  BY <1>0, <1>4, <2>2 DEF StopsOne
<1>q. QED  BY <1>2, <1>3, <1>4

-------------------------------------------------------------------------------
(* A tab whose calls do not overlap stays in order, step by step. *)

\* The calls of a tab are numbered, and each is where a call of its kind can be.
LEMMA CallsAre ==
    ASSUME TypeOK, NEW t \in Tabs, Places(t)
    PROVE  /\ DOMAIN calls[t] = 1 .. Len(calls[t])
           /\ Len(calls[t]) \in Nat
           /\ \A c \in DOMAIN calls[t] :
                 /\ c \in Nat
                 /\ Op(t, c) \in {"start", "stop", "lead"}
                 /\ Op(t, c) = "start" => At(t, c) \in {0} \cup 2 .. 7
                 /\ Op(t, c) = "lead" => At(t, c) \in 0 .. 5
                 /\ Op(t, c) = "stop" => At(t, c) \in ({0} \cup 2 .. 10) \ {7}
<1>1. calls[t] \in Seq(Calls)  BY DEF TypeOK
<1>2. DOMAIN calls[t] = 1 .. Len(calls[t]) /\ Len(calls[t]) \in Nat  BY <1>1
<1>3. \A c \in DOMAIN calls[t] : calls[t][c] \in Calls  BY <1>1, <1>2
<1>4. \A c \in DOMAIN calls[t] : Op(t, c) \in {"start", "stop", "lead"}
  BY <1>3 DEF Calls, Op
<1>q. QED  BY <1>2, <1>4 DEF Places, Watch

\* startServices() goes on, in a start() that is new or under way, or in onLeader().
LEMMA StartMoves ==
    ASSUME TypeOK, NEW t \in Tabs, Places(t), TabOK(t), NEW c \in Nat,
           NEW op \in {"start", "lead"}, NEW p \in 1 .. 5, CanGoOn(t, c),
           c \in DOMAIN calls[t] => op = Op(t, c),
           StartServices(t, op, c, p),
           options' = options, started'[t] = started[t], watching'[t] = watching[t],
           \A d \in DOMAIN calls[t] \ {c} : At(t, d) \in {Over, Watch},
           \/ c \in DOMAIN calls[t] /\ At(t, c) = p
           \/ c \notin DOMAIN calls[t] /\ op = "start" /\ p = 1 /\ Idle(t)
    PROVE  TabOK(t)'
<1> USE DEF TabOK
<1>0. /\ running \in [Tabs -> SUBSET {Services[i] : i \in 1 .. 4}]
      /\ elector \in [Tabs -> {"none", "candidate", "leader", "dead"}]
      /\ ears \in [Tabs -> SUBSET {"current", "lost"}]
  BY DEF TypeOK
<1>1. /\ DOMAIN calls[t] \subseteq Nat
      /\ \A d \in DOMAIN calls[t] :
            /\ Op(t, d) \in {"start", "stop", "lead"}
            /\ Op(t, d) = "lead" => At(t, d) \in 0 .. 5
            /\ Op(t, d) = "stop" => At(t, d) # 7
  BY CallsAre
\* What becomes of the services, and where the call goes on.
<1>2. \E g \in {0} \cup 2 .. 6 :
         /\ GoOn(t, op, c, g)
         /\ op = "start" => g \in 2 .. 6
         /\ Done(t, p) => \/ g \in 2 .. 5 /\ Done(t, g)'
                          \/ g \in {0, 6} /\ Done(t, 5)'
         /\ \A s \in {"autoRenew", "renewOnTabActivation"} :
               s \in running[t] => s \in running'[t]
         /\ "autoRenew" \in running'[t] /\ "syncStorage" \in options => Leads(t)'
         /\ \/ /\ "leaderElection" \in running'[t] <=> "leaderElection" \in running[t]
               /\ elector'[t] = elector[t]
            \/ "leaderElection" \in running'[t] /\ elector'[t] = "candidate"
         /\ \/ /\ "syncStorage" \in running'[t] <=> "syncStorage" \in running[t]
               /\ ears'[t] = ears[t]
            \/ /\ "syncStorage" \notin running[t]
               /\ "syncStorage" \in running'[t] /\ ears'[t] = ears[t] \cup {"current"}
               /\ "syncStorage" \in options
  <2>0. "autoRenew" \in running[t] /\ "syncStorage" \in options => Leads(t)
    BY DEF Election
  <2>1. CASE StartsNone(t, op, c, p)
    <3>1. running'[t] = running[t] /\ elector'[t] = elector[t] /\ ears'[t] = ears[t]
      BY <2>1 DEF StartsNone
    <3>2. Leads(t)' <=> Leads(t)  BY <3>1 DEF Leads
    <3>3. Done(t, p) => Done(t, 5)'
      BY <2>1, <3>1, <3>2, StillCannot DEF StartsNone
    <3>4. GoOn(t, op, c, IF op = "start" THEN 6 ELSE 0)
      BY <2>1 DEF StartsNone, Returned, Over
    <3>5. CASE op = "start"  BY <2>0, <3>1, <3>2, <3>3, <3>4, <3>5
    <3>6. CASE op # "start"  BY <2>0, <3>1, <3>2, <3>3, <3>4, <3>6
    <3>q. QED  BY <3>5, <3>6
  <2>2. ASSUME NEW m \in p .. 4, StartsOne(t, op, c, p, m)
        PROVE  /\ GoOn(t, op, c, m + 1)
               /\ Done(t, p) => Done(t, m + 1)'
               /\ running[t] \subseteq running'[t]
               /\ "autoRenew" \in running'[t] /\ "syncStorage" \in options => Leads(t)'
               /\ \/ /\ "leaderElection" \in running'[t]
                           <=> "leaderElection" \in running[t]
                     /\ elector'[t] = elector[t]
                  \/ "leaderElection" \in running'[t] /\ elector'[t] = "candidate"
               /\ \/ /\ "syncStorage" \in running'[t] <=> "syncStorage" \in running[t]
                     /\ ears'[t] = ears[t]
                  \/ /\ "syncStorage" \notin running[t]
                     /\ "syncStorage" \in running'[t]
                     /\ ears'[t] = ears[t] \cup {"current"}
                     /\ "syncStorage" \in options
    <3>1. /\ Done(t, p) => Done(t, m)
          /\ CanStartService(t, Services[m])
          /\ GoOn(t, op, c, m + 1)
          /\ running'[t] = running[t] \cup {Services[m]}
          /\ elector'[t] = IF m = 3 THEN "candidate" ELSE elector[t]
          /\ ears'[t] = IF m = 2 THEN ears[t] \cup {"current"} ELSE ears[t]
      BY <1>0, <2>2 DEF StartsOne
    <3>2. m \in 1 .. 4  OBVIOUS
    <3>3. Leads(t)' => Leads(t)
      BY <3>1 DEF Leads
    <3>4. Done(t, p) => Done(t, m)'
      BY <3>1, <3>3, StillCannot
    <3>5. ~CanStartService(t, Services[m])'
      BY <3>1 DEF CanStartService, CanStart
    <3>6. Done(t, p) => Done(t, m + 1)'
      BY <3>2, <3>4, <3>5 DEF Done
    <3>7. Services[m] \notin running[t]  BY <3>1 DEF CanStartService, CanStart
    <3>8. "autoRenew" \in running'[t] /\ "syncStorage" \in options => Leads(t)'
      <4> SUFFICES ASSUME "autoRenew" \in running'[t], "syncStorage" \in options
                   PROVE  Leads(t)'
        OBVIOUS
      <4>1. CASE m = 1
        <5>1. Leads(t)  BY <3>1, <4>1, ServicesAre DEF CanStartService, RequiresLeadership
        <5>q. QED  BY <3>1, <4>1, <5>1 DEF Leads
      <4>2. CASE m = 3
        <5>1. Services[m] = "leaderElection"  BY <4>2, ServicesAre
        <5>2. IsLeaderRequired(t)  BY <3>1, <5>1 DEF CanStartService
        <5>3. PICK i \in 1 .. 4 : CanStart(t, Services[i]) /\ RequiresLeadership(Services[i])
          BY <5>2 DEF IsLeaderRequired
        <5>4. "autoRenew" \notin running[t]
          BY <5>3 DEF CanStart, RequiresLeadership
        <5>q. QED  BY <3>1, <5>1, <5>4
      <4>3. CASE m \in {2, 4}
        <5>1. "autoRenew" \in running[t]  BY <3>1, <4>3, ServicesAre
        <5>q. QED  BY <2>0, <3>1, <4>3, <5>1 DEF Leads
      <4>q. QED  BY <3>2, <4>1, <4>2, <4>3
    <3>9. m = 2 => "syncStorage" \in options
      BY <3>1, ServicesAre DEF CanStartService, CanStart
    <3>10. CASE m = 1  BY <3>1, <3>6, <3>8, <3>10, ServicesAre
    <3>11. CASE m = 2  BY <3>1, <3>6, <3>7, <3>8, <3>9, <3>11, ServicesAre
    <3>12. CASE m = 3  BY <3>1, <3>6, <3>8, <3>12, ServicesAre
    <3>13. CASE m = 4  BY <3>1, <3>6, <3>8, <3>13, ServicesAre
    <3>q. QED  BY <3>2, <3>10, <3>11, <3>12, <3>13
  <2>3. ASSUME NEW m \in p .. 4, StartsOne(t, op, c, p, m)
        PROVE  m + 1 \in 2 .. 5 /\ m + 1 \in {0} \cup 2 .. 6 /\ m + 1 \in 2 .. 6
    OBVIOUS
  <2>4. StartsNone(t, op, c, p) \/ \E m \in p .. 4 : StartsOne(t, op, c, p, m)
    BY StartEffect
  <2>5. CASE \E m \in p .. 4 : StartsOne(t, op, c, p, m)
    <3>1. PICK m \in p .. 4 : StartsOne(t, op, c, p, m)  BY <2>5
    <3>q. QED  BY <2>2, <2>3, <3>1
  <2>q. QED  BY <2>1, <2>4, <2>5
<1>3. PICK g \in {0} \cup 2 .. 6 :
         /\ GoOn(t, op, c, g)
         /\ op = "start" => g \in 2 .. 6
         /\ Done(t, p) => \/ g \in 2 .. 5 /\ Done(t, g)'
                          \/ g \in {0, 6} /\ Done(t, 5)'
         /\ \A s \in {"autoRenew", "renewOnTabActivation"} :
               s \in running[t] => s \in running'[t]
         /\ "autoRenew" \in running'[t] /\ "syncStorage" \in options => Leads(t)'
         /\ \/ /\ "leaderElection" \in running'[t] <=> "leaderElection" \in running[t]
               /\ elector'[t] = elector[t]
            \/ "leaderElection" \in running'[t] /\ elector'[t] = "candidate"
         /\ \/ /\ "syncStorage" \in running'[t] <=> "syncStorage" \in running[t]
               /\ ears'[t] = ears[t]
            \/ /\ "syncStorage" \notin running[t]
               /\ "syncStorage" \in running'[t] /\ ears'[t] = ears[t] \cup {"current"}
               /\ "syncStorage" \in options
  BY <1>2
<1>4. /\ Went(t, c, op, g)
      /\ DOMAIN calls'[t] = DOMAIN calls[t] \cup {c}
      /\ Op(t, c)' = op /\ At(t, c)' = g
      /\ \A d \in DOMAIN calls[t] \ {c} : Op(t, d)' = Op(t, d) /\ At(t, d)' = At(t, d)
  <2>1. Went(t, c, op, g)  BY <1>3, Going
  <2>q. QED  BY <2>1 DEF Went, Op, At
<1>5. c \in DOMAIN calls[t] => \A d : IsLast(t, d)' <=> IsLast(t, d)
  BY <1>4, LastKept
<1>6. c \notin DOMAIN calls[t] => \A d : IsLast(t, d)' <=> d = c
  BY <1>1, <1>4, LastIsNew
\* The last call of the application is a start().
<1>7. op = "start" => \A d : IsLast(t, d)' <=> d = c
  <2>1. CASE c \in DOMAIN calls[t] /\ op = "start"
    <3>1. IsLast(t, c)  BY <2>1 DEF Together, Over
    <3>q. QED  BY <1>1, <1>5, <2>1, <3>1, LastIsOne
  <2>q. QED  BY <1>6, <2>1
<1>8. op = "lead" =>
          /\ c \in DOMAIN calls[t]
          /\ started[t]
          /\ \E d \in DOMAIN calls[t] \ {c} : IsLast(t, d) /\ Op(t, d) = "start"
  <2> SUFFICES ASSUME op = "lead"
               PROVE  /\ c \in DOMAIN calls[t]
                      /\ started[t]
                      /\ \E d \in DOMAIN calls[t] \ {c} : IsLast(t, d) /\ Op(t, d) = "start"
    OBVIOUS
  <2>1. c \in DOMAIN calls[t] /\ At(t, c) # Over /\ Op(t, c) = "lead"  BY DEF Over
  <2>q. QED  BY <2>1 DEF Together
<1>9. \E l \in DOMAIN calls'[t] : IsLast(t, l)' /\ Op(t, l)' = "start"
  BY <1>4, <1>5, <1>7, <1>8
<1>10. \A d \in DOMAIN calls'[t] \ {c} : At(t, d)' \in {0, 7}
  BY <1>4 DEF Over, Watch
<1>11. \A d \in DOMAIN calls'[t] : Op(t, d)' = "stop" => At(t, d)' = 0
  BY <1>1, <1>4, <1>10
<1>12. Alone(t)'
  BY <1>11 DEF Alone, Over
<1>13. Together(t)'
  <2> SUFFICES ASSUME NEW d \in DOMAIN calls'[t], At(t, d)' # Over
               PROVE  /\ Op(t, d)' = "start" => IsLast(t, d)'
                      /\ Op(t, d)' = "lead" =>
                            /\ started'[t]
                            /\ \E e \in DOMAIN calls'[t] : IsLast(t, e)' /\ Op(t, e)' = "start"
                            /\ \A e \in DOMAIN calls'[t] :
                                  At(t, e)' # Over => e = d \/ At(t, e)' = Watch
    BY DEF Together
  <2>1. CASE d = c
    BY <1>4, <1>7, <1>8, <1>9, <1>10, <2>1 DEF Over, Watch
  <2>2. CASE d # c
    <3>1. d \in DOMAIN calls[t] /\ At(t, d) = 7 /\ Op(t, d)' = Op(t, d)
      BY <1>4, <1>10, <2>2 DEF Over
    <3>2. Op(t, d) # "lead"  BY <1>1, <3>1
    <3>3. c \in DOMAIN calls[t]
      BY <3>1 DEF Idle, Over, At
    <3>4. Op(t, d) = "start" => IsLast(t, d)
      BY <3>1 DEF Together, Over
    <3>q. QED  BY <1>5, <3>1, <3>2, <3>3, <3>4
  <2>q. QED  BY <2>1, <2>2
<1>14. \A d \in DOMAIN calls[t] : At(t, d) \in 0 .. 5 \cup {7}
  BY DEF Over, Watch, Idle, At
<1>15. \A d \in DOMAIN calls'[t] : At(t, d)' \in 0 .. 7
  BY <1>4, <1>10
<1>16. Election(t)'
  <2>1. "leaderElection" \in running[t] <=> elector[t] # "none"
    BY <1>14 DEF Election, Leaving
  <2>2. "leaderElection" \in running'[t] <=> elector'[t] # "none"
    BY <1>3, <2>1
  <2>q. QED  BY <1>3, <1>15, <2>2 DEF Election, Leaving, Dying
<1>17. Channel(t)'
  <2>1. /\ "syncStorage" \in running[t] => "syncStorage" \in options
        /\ ears[t] = IF "syncStorage" \in running[t] THEN {"current"} ELSE {}
    BY <1>14 DEF Channel, Closing
  <2>2. /\ "syncStorage" \in running'[t] => "syncStorage" \in options
        /\ ears'[t] = IF "syncStorage" \in running'[t] THEN {"current"} ELSE {}
    BY <1>3, <2>1
  <2>q. QED  BY <1>15, <2>2 DEF Channel, Closing
<1>18. Stopped(t)'
  <2>1. ~(\A d \in DOMAIN calls'[t] : IsLast(t, d)' => Op(t, d)' = "stop" /\ At(t, d)' = Over)
    BY <1>9
  <2>q. QED  BY <1>11, <2>1 DEF Stopped, Over
<1>19. Started(t)'
  <2> SUFFICES ASSUME NEW d \in DOMAIN calls'[t], IsLast(t, d)', Op(t, d)' = "start"
               PROVE  /\ At(t, d)' \in {Over, Watch} => started'[t]
                      /\ At(t, d)' = Over => watching'[t]
    BY DEF Started
  <2>1. CASE op = "start"
    BY <1>3, <1>4, <1>7, <2>1 DEF Over, Watch
  <2>2. CASE op = "lead"
    <3>1. d # c /\ d \in DOMAIN calls[t] /\ IsLast(t, d)  BY <1>4, <1>5, <1>8, <2>2
    <3>q. QED  BY <1>4, <3>1 DEF Started
  <2>q. QED  BY <2>1, <2>2
<1>20. Done(t, p)
  <2>1. CASE c \notin DOMAIN calls[t]  BY <2>1 DEF Done
  <2>2. CASE c \in DOMAIN calls[t]
    <3>1. \E l \in DOMAIN calls[t] : IsLast(t, l) /\ Op(t, l) = "start"
      BY <1>7, <1>5, <1>8, <2>2
    <3>q. QED  BY <2>2, <3>1 DEF Complete
  <2>q. QED  BY <2>1, <2>2
<1>21. Complete(t)'
  <2>1. \/ g \in 2 .. 5 /\ Done(t, g)'
        \/ g \in {0, 6} /\ Done(t, 5)'
    BY <1>3, <1>20
  <2>2. \A d \in DOMAIN calls'[t] : At(t, d)' \in 1 .. 5 => d = c
    BY <1>10
  <2>3. \A d \in DOMAIN calls'[t] : At(t, d)' \in 1 .. 5 => Done(t, At(t, d))'
    <3> SUFFICES ASSUME NEW d \in DOMAIN calls'[t], At(t, d)' \in 1 .. 5
                 PROVE  Done(t, At(t, d))'
      OBVIOUS
    <3>1. At(t, d)' = g /\ g \in 2 .. 5  BY <1>4, <2>1, <2>2
    <3>2. Done(t, g)'  BY <2>1, <3>1
    <3>q. QED  BY <3>1, <3>2 DEF Done
  <2>4. (\A d \in DOMAIN calls'[t] : At(t, d)' \notin 1 .. 5) => Done(t, 5)'
    BY <1>4, <2>1
  <2>q. QED  BY <2>3, <2>4 DEF Complete
<1>q. QED  BY <1>12, <1>13, <1>16, <1>17, <1>18, <1>19, <1>21

\* stopServices() goes on, in a stop() that is new or under way.
LEMMA StopMoves ==
    ASSUME TypeOK, NEW t \in Tabs, Places(t), TabOK(t), NEW c \in Nat,
           NEW p \in 1 .. 5, CanGoOn(t, c),
           c \in DOMAIN calls[t] => Op(t, c) = "stop",
           StopServices(t, c, p),
           options' = options, started'[t] = started[t],
           \A d \in DOMAIN calls[t] \ {c} : At(t, d) = Over,
           \/ c \in DOMAIN calls[t] /\ At(t, c) = p /\ watching'[t] = watching[t]
           \/ c \notin DOMAIN calls[t] /\ p = 1 /\ watching'[t] = FALSE
    PROVE  TabOK(t)'
<1> USE DEF TabOK
<1>0. /\ running \in [Tabs -> SUBSET {Services[i] : i \in 1 .. 4}]
      /\ elector \in [Tabs -> {"none", "candidate", "leader", "dead"}]
      /\ ears \in [Tabs -> SUBSET {"current", "lost"}]
  BY DEF TypeOK
<1>1. /\ DOMAIN calls[t] \subseteq Nat
      /\ \A d \in DOMAIN calls[t] : At(t, d) \in 0 .. 7
  BY CallsAre DEF Over
<1>2. /\ ~watching'[t]
      /\ \A j \in 1 .. 4 : j < p => Services[j] \notin running[t]
  <2>1. CASE c \in DOMAIN calls[t]
    BY <2>1 DEF Stopped, Level, Over
  <2>2. CASE c \notin DOMAIN calls[t]
    BY <2>2
  <2>q. QED  BY <2>1, <2>2
<1>3. "leaderElection" \in running[t] <=> elector[t] # "none"
  BY <1>1 DEF Election, Leaving
<1>4. "autoRenew" \in running[t] /\ "syncStorage" \in options => Leads(t)
  BY DEF Election
<1>5. /\ "syncStorage" \in running[t] => "syncStorage" \in options
      /\ ears[t] = IF "syncStorage" \in running[t] THEN {"current"} ELSE {}
  BY <1>1 DEF Channel, Closing
\* What becomes of the services, and where the call goes on.
<1>6. \E g \in 2 .. 10 :
         /\ GoOn(t, "stop", c, g)
         /\ g # 7
         /\ \A j \in 1 .. 4 : j < Level(g) => Services[j] \notin running'[t]
         /\ "leaderElection" \in running'[t] <=> elector'[t] # "none"
         /\ g = Dying => elector'[t] = "dead"
         /\ g # Leaving
         /\ "autoRenew" \in running'[t] /\ "syncStorage" \in options => Leads(t)'
         /\ "syncStorage" \in running'[t] => "syncStorage" \in options
         /\ ears'[t] = IF "syncStorage" \in running'[t] /\ g # Closing
                       THEN {"current"} ELSE {}
  <2>1. CASE StopsChannel(t, c, p)
    <3>1. /\ GoOn(t, "stop", c, 8)
          /\ "syncStorage" \in running[t] /\ p = 2
          /\ ears'[t] = ears[t] \ {"current"}
          /\ running'[t] = running[t] /\ elector'[t] = elector[t]
      BY <1>0, <2>1 DEF StopsChannel, Closing
    <3>2. ears'[t] = {}  BY <1>5, <3>1
    <3>3. Leads(t)' <=> Leads(t)  BY <3>1 DEF Leads
    <3>4. Level(8) = 2  BY DEF Level, Closing, Returned
    <3>q. QED
      BY <1>2, <1>3, <1>4, <1>5, <3>1, <3>2, <3>3, <3>4 DEF Closing, Dying, Leaving
  <2>2. CASE StopsElection(t, c, p)
    <3>1. elector[t] # "none"
      BY <1>3, <2>2 DEF StopsElection
    <3>2. /\ GoOn(t, "stop", c, 9)
          /\ "leaderElection" \in running[t] /\ p = 3
          /\ elector'[t] = "dead"
          /\ running'[t] = running[t] /\ ears'[t] = ears[t]
      BY <1>0, <2>2, <3>1 DEF StopsElection, Dying
    <3>3. "autoRenew" \notin running[t]
      BY <1>2, <3>2, ServicesAre
    <3>4. Level(9) = 3  BY DEF Level, Closing, Returned
    <3>q. QED  BY <1>2, <1>5, <3>2, <3>3, <3>4 DEF Closing, Dying, Leaving
  <2>3. CASE StopsOne(t, c, p)
    <3>1. /\ p = 2 => "syncStorage" \notin running[t]
          /\ p = 3 => "leaderElection" \notin running[t]
          /\ GoOn(t, "stop", c, p + 1)
          /\ running'[t] = running[t] \ {IF p = 5 THEN "none" ELSE Services[p]}
          /\ elector'[t] = elector[t] /\ ears'[t] = ears[t]
      BY <1>0, <2>3 DEF StopsOne
    <3>2. Leads(t)' <=> Leads(t)  BY <3>1 DEF Leads
    <3>3. /\ p + 1 \in 2 .. 6
          /\ Level(p + 1) = IF p = 5 THEN 5 ELSE p + 1
      BY DEF Level, Returned
    <3>4. \A j \in 1 .. 4 : j < Level(p + 1) => Services[j] \notin running'[t]
      <4> SUFFICES ASSUME NEW j \in 1 .. 4, j < Level(p + 1)
                   PROVE  Services[j] \notin running'[t]
        OBVIOUS
      <4>1. CASE j < p  BY <1>2, <3>1, <4>1
      <4>2. CASE j = p  BY <3>1, <4>2
      <4>3. j < p \/ j = p  BY <3>3
      <4>q. QED  BY <4>1, <4>2, <4>3
    <3>5. /\ "leaderElection" \in running'[t] <=> "leaderElection" \in running[t]
          /\ "syncStorage" \in running'[t] <=> "syncStorage" \in running[t]
      <4>1. CASE p = 1  BY <3>1, <4>1, ServicesAre
      <4>2. CASE p = 2  BY <3>1, <4>2, ServicesAre
      <4>3. CASE p = 3  BY <3>1, <4>3, ServicesAre
      <4>4. CASE p = 4  BY <3>1, <4>4, ServicesAre
      <4>5. CASE p = 5  BY <3>1, <4>5
      <4>q. QED  BY <4>1, <4>2, <4>3, <4>4, <4>5
    <3>6. "autoRenew" \in running'[t] => "autoRenew" \in running[t]  BY <3>1
    <3>7. /\ p + 1 \in 2 .. 10
          /\ p + 1 # 7 /\ p + 1 # 8 /\ p + 1 # 9 /\ p + 1 # 10
      OBVIOUS
    <3>q. QED
      BY <1>3, <1>4, <1>5, <3>1, <3>2, <3>4, <3>5, <3>6, <3>7
         DEF Closing, Dying, Leaving
  <2>q. QED  BY <2>1, <2>2, <2>3, StopEffect
<1>7. PICK g \in 2 .. 10 :
         /\ GoOn(t, "stop", c, g)
         /\ g # 7
         /\ \A j \in 1 .. 4 : j < Level(g) => Services[j] \notin running'[t]
         /\ "leaderElection" \in running'[t] <=> elector'[t] # "none"
         /\ g = Dying => elector'[t] = "dead"
         /\ g # Leaving
         /\ "autoRenew" \in running'[t] /\ "syncStorage" \in options => Leads(t)'
         /\ "syncStorage" \in running'[t] => "syncStorage" \in options
         /\ ears'[t] = IF "syncStorage" \in running'[t] /\ g # Closing
                       THEN {"current"} ELSE {}
  BY <1>6
<1>8. /\ DOMAIN calls'[t] = DOMAIN calls[t] \cup {c}
      /\ Op(t, c)' = "stop" /\ At(t, c)' = g
      /\ \A d \in DOMAIN calls'[t] \ {c} : At(t, d)' = Over
      /\ \A d : IsLast(t, d)' <=> d = c
  <2>1. Went(t, c, "stop", g)  BY <1>7, Going
  <2>2. CASE c \in DOMAIN calls[t]
    <3>1. \A d : IsLast(t, d)' <=> IsLast(t, d)  BY <2>1, <2>2, LastKept
    <3>2. IsLast(t, c)  BY <2>2 DEF Alone, Over
    <3>3. \A d : IsLast(t, d) <=> d = c  BY <1>1, <3>2, LastIsOne
    <3>q. QED  BY <2>1, <3>1, <3>3 DEF Went, Op, At
  <2>3. CASE c \notin DOMAIN calls[t]
    <3>1. \A d : IsLast(t, d)' <=> d = c  BY <1>1, <2>1, <2>3, LastIsNew
    <3>q. QED  BY <2>1, <3>1 DEF Went, Op, At
  <2>q. QED  BY <2>2, <2>3
<1>9. g # Over  BY DEF Over
<1>10. Alone(t)'  BY <1>8 DEF Alone
<1>11. Together(t)'  BY <1>8 DEF Together
<1>12. Election(t)'
  BY <1>7, <1>8 DEF Election, Over, Dying, Leaving
<1>13. Channel(t)'
  BY <1>7, <1>8 DEF Channel, Over, Closing
<1>14. Stopped(t)'
  BY <1>2, <1>7, <1>8, <1>9 DEF Stopped
<1>15. Started(t)' /\ Complete(t)'
  BY <1>8 DEF Started, Complete
<1>q. QED  BY <1>10, <1>11, <1>12, <1>13, <1>14, <1>15

\* The services of the tab are as they were.
SameServices(t) == /\ running'[t] = running[t]
                   /\ elector'[t] = elector[t]
                   /\ ears'[t] = ears[t]
                   /\ options' = options

\* What can start stays the same while the services do.
LEMMA SameDone ==
    ASSUME NEW t \in Tabs, SameServices(t), NEW p, Done(t, p)
    PROVE  Done(t, p)'
<1>1. Leads(t)' => Leads(t)  BY DEF Leads, SameServices
<1>q. QED  BY <1>1, StillCannot DEF SameServices

\* start() in a tab that is started has only the token manager to start.
LEMMA StartAgain ==
    ASSUME TypeOK, NEW t \in Tabs, Places(t), TabOK(t), NEW c \in Nat,
           c = Len(calls[t]) + 1, GoOn(t, "start", c, Watch),
           ~Underway(t, {"start", "stop"}), started[t],
           SameServices(t), started'[t] = started[t], watching'[t] = watching[t]
    PROVE  TabOK(t)'
<1> USE DEF TabOK
<1>1. /\ DOMAIN calls[t] = 1 .. Len(calls[t]) /\ Len(calls[t]) \in Nat
      /\ \A d \in DOMAIN calls[t] : Op(t, d) \in {"start", "stop", "lead"}
  BY CallsAre
<1>2. \A d \in DOMAIN calls[t] : At(t, d) # Over => Op(t, d) = "lead"
  BY <1>1 DEF Underway, Op, At
<1>3. c \notin DOMAIN calls[t]  BY <1>1
<1>4. /\ Went(t, c, "start", 7)
      /\ DOMAIN calls'[t] = DOMAIN calls[t] \cup {c}
      /\ Op(t, c)' = "start" /\ At(t, c)' = 7
      /\ \A d \in DOMAIN calls[t] : Op(t, d)' = Op(t, d) /\ At(t, d)' = At(t, d)
  <2>1. Went(t, c, "start", 7)  BY <1>3, Going DEF CanGoOn, Watch
  <2>q. QED  BY <1>3, <2>1 DEF Went, Op, At
<1>5. \A d : IsLast(t, d)' <=> d = c
  BY <1>1, <1>3, <1>4, LastIsNew
<1>6. PICK l \in DOMAIN calls[t] : IsLast(t, l) /\ Op(t, l) = "start"
  <2>1. PICK l \in DOMAIN calls[t] :
            IsLast(t, l) /\ ~(Op(t, l) = "stop" /\ At(t, l) = Over)
    BY DEF Stopped
  <2>2. Op(t, l) # "lead"  BY <2>1 DEF IsLast
  <2>q. QED  BY <1>1, <1>2, <2>1, <2>2
<1>7. Alone(t)'
  BY <1>2, <1>4 DEF Alone
<1>8. Together(t)'
  <2> SUFFICES ASSUME NEW d \in DOMAIN calls'[t], At(t, d)' # Over
               PROVE  /\ Op(t, d)' = "start" => IsLast(t, d)'
                      /\ Op(t, d)' = "lead" =>
                            /\ started'[t]
                            /\ \E e \in DOMAIN calls'[t] : IsLast(t, e)' /\ Op(t, e)' = "start"
                            /\ \A e \in DOMAIN calls'[t] :
                                  At(t, e)' # Over => e = d \/ At(t, e)' = Watch
    BY DEF Together
  <2>1. CASE d = c  BY <1>4, <1>5, <2>1
  <2>2. CASE d # c
    <3>1. d \in DOMAIN calls[t] /\ At(t, d) # Over /\ Op(t, d) = "lead"
      BY <1>2, <1>4, <2>2
    <3>2. \A e \in DOMAIN calls[t] : At(t, e) # Over => e = d \/ At(t, e) = Watch
      BY <3>1 DEF Together
    <3>q. QED  BY <1>4, <1>5, <3>1, <3>2 DEF Watch
  <2>q. QED  BY <2>1, <2>2
<1>9. Election(t)' /\ Channel(t)'
  BY <1>4 DEF Election, Channel, SameServices, Leads, Leaving, Dying, Closing
<1>10. Stopped(t)'
  <2>1. ~(\A d \in DOMAIN calls'[t] : IsLast(t, d)' => Op(t, d)' = "stop" /\ At(t, d)' = Over)
    BY <1>4, <1>5
  <2>q. QED  BY <1>2, <1>4, <2>1 DEF Stopped
<1>11. Started(t)'
  BY <1>4, <1>5 DEF Started, Over, Watch
<1>12. Complete(t)'
  <2>1. \A d \in DOMAIN calls'[t] : At(t, d)' \in 1 .. 5 => Done(t, At(t, d))'
    <3> SUFFICES ASSUME NEW d \in DOMAIN calls'[t], At(t, d)' \in 1 .. 5
                 PROVE  Done(t, At(t, d))'
      OBVIOUS
    <3>1. d \in DOMAIN calls[t] /\ At(t, d)' = At(t, d)  BY <1>4
    <3>2. Done(t, At(t, d))  BY <1>6, <3>1 DEF Complete
    <3>3. \A p : Done(t, p) => Done(t, p)'  BY SameDone
    <3>q. QED  BY <3>1, <3>2, <3>3 DEF Done
  <2>2. (\A d \in DOMAIN calls'[t] : At(t, d)' \notin 1 .. 5) => Done(t, 5)'
    BY <1>4, <1>6, SameDone DEF Complete
  <2>q. QED  BY <2>1, <2>2 DEF Complete
<1>q. QED  BY <1>7, <1>8, <1>9, <1>10, <1>11, <1>12

\* start() is over but for the token manager, or altogether.
LEMMA StartFinishes ==
    ASSUME TypeOK, NEW t \in Tabs, Places(t), TabOK(t), NEW c \in DOMAIN calls[t],
           CanGoOn(t, c), Op(t, c) = "start",
           SameServices(t),
           \/ /\ At(t, c) = Returned /\ GoOn(t, "start", c, Watch)
              /\ started'[t] = TRUE /\ watching'[t] = watching[t]
           \/ /\ At(t, c) = Watch /\ GoOn(t, "start", c, Over)
              /\ started'[t] = started[t] /\ watching'[t] = TRUE
    PROVE  TabOK(t)'
<1> USE DEF TabOK
<1>1. /\ DOMAIN calls[t] = 1 .. Len(calls[t]) /\ Len(calls[t]) \in Nat
      /\ DOMAIN calls[t] \subseteq Nat
      /\ \A d \in DOMAIN calls[t] : Op(t, d) \in {"start", "stop", "lead"}
  BY CallsAre
<1>2. PICK g \in {0, 7} :
          /\ GoOn(t, "start", c, g)
          /\ g = 7 => At(t, c) = 6
          /\ g = 0 => At(t, c) = 7 /\ watching'[t] = TRUE /\ started'[t] = started[t]
          /\ started[t] => started'[t]
          /\ At(t, c) = 6 => started'[t]
  BY DEF Over, Watch, Returned
<1>3. /\ Went(t, c, "start", g)
      /\ DOMAIN calls'[t] = DOMAIN calls[t]
      /\ At(t, c)' = g
      /\ \A d \in DOMAIN calls[t] \ {c} : At(t, d)' = At(t, d)
      /\ \A d \in DOMAIN calls[t] : Op(t, d)' = Op(t, d)
  <2>1. Went(t, c, "start", g)  BY <1>1, <1>2, Going
  <2>q. QED  BY <2>1 DEF Went, Op, At
<1>4. \A d : IsLast(t, d)' <=> d = c
  <2>1. \A d : IsLast(t, d)' <=> IsLast(t, d)  BY <1>1, <1>3, LastKept
  <2>2. IsLast(t, c)  BY <1>2 DEF Together, Over
  <2>q. QED  BY <1>1, <2>1, <2>2, LastIsOne
<1>5. At(t, c) \in {6, 7} /\ At(t, c) # Over  BY <1>2 DEF Over
<1>6. \A d \in DOMAIN calls[t] : Op(t, d) = "stop" => At(t, d) = Over
  BY <1>5 DEF Alone
<1>7. Alone(t)'
  BY <1>3, <1>6 DEF Alone
<1>8. Together(t)'
  <2> SUFFICES ASSUME NEW d \in DOMAIN calls[t], At(t, d)' # Over
               PROVE  /\ Op(t, d) = "start" => IsLast(t, d)'
                      /\ Op(t, d) = "lead" =>
                            /\ started'[t]
                            /\ \E e \in DOMAIN calls[t] : IsLast(t, e)' /\ Op(t, e)' = "start"
                            /\ \A e \in DOMAIN calls[t] :
                                  At(t, e)' # Over => e = d \/ At(t, e)' = Watch
    BY <1>3 DEF Together
  <2>1. CASE d = c  BY <1>4, <2>1
  <2>2. CASE d # c
    <3>1. At(t, d) # Over  BY <1>3, <2>2
    <3>2. Op(t, d) # "start"
      <4>1. IsLast(t, c)  BY <1>5 DEF Together
      <4>2. Op(t, d) = "start" => IsLast(t, d)  BY <3>1 DEF Together
      <4>q. QED  BY <1>1, <2>2, <4>1, <4>2, LastIsOne
    <3>3. Op(t, d) = "lead" =>
              /\ started[t]
              /\ \A e \in DOMAIN calls[t] : At(t, e) # Over => e = d \/ At(t, e) = Watch
      BY <3>1 DEF Together
    <3>4. \E e \in DOMAIN calls[t] : IsLast(t, e)' /\ Op(t, e)' = "start"
      BY <1>3, <1>4
    <3>5. At(t, c)' # Over => At(t, c)' = Watch  BY <1>2, <1>3 DEF Over, Watch
    <3>q. QED  BY <1>2, <1>3, <3>2, <3>3, <3>4, <3>5
  <2>q. QED  BY <2>1, <2>2
<1>9. Election(t)' /\ Channel(t)'
  <2>1. \A d \in DOMAIN calls[t] : /\ At(t, d)' = Leaving <=> At(t, d) = Leaving
                                   /\ At(t, d)' = Dying <=> At(t, d) = Dying
                                   /\ At(t, d)' = Closing <=> At(t, d) = Closing
    BY <1>2, <1>3, <1>5 DEF Leaving, Dying, Closing
  <2>q. QED  BY <1>3, <2>1 DEF Election, Channel, SameServices, Leads
<1>10. Stopped(t)'
  <2>1. ~(\A d \in DOMAIN calls'[t] : IsLast(t, d)' => Op(t, d)' = "stop" /\ At(t, d)' = Over)
    BY <1>3, <1>4
  <2>q. QED  BY <1>3, <1>6, <2>1 DEF Stopped
<1>11. Started(t)'
  <2>1. IsLast(t, c)  BY <1>5 DEF Together
  <2>2. At(t, c)' \in {Over, Watch} => started'[t]
    BY <1>2, <1>5, <2>1 DEF Started, Over, Watch
  <2>3. At(t, c)' = Over => watching'[t]
    BY <1>2, <1>3 DEF Over
  <2>q. QED  BY <1>4, <2>2, <2>3 DEF Started
<1>12. Complete(t)'
  <2>0. IsLast(t, c) /\ c \in DOMAIN calls[t]  BY <1>5 DEF Together
  <2>1. \A d \in DOMAIN calls'[t] : At(t, d)' \in 1 .. 5 => Done(t, At(t, d))'
    <3> SUFFICES ASSUME NEW d \in DOMAIN calls[t], At(t, d)' \in 1 .. 5
                 PROVE  Done(t, At(t, d))'
      BY <1>3
    <3>1. At(t, d)' = At(t, d)  BY <1>2, <1>3
    <3>2. Done(t, At(t, d))  BY <2>0, <3>1 DEF Complete
    <3>3. \A p : Done(t, p) => Done(t, p)'  BY SameDone
    <3>q. QED  BY <3>1, <3>2, <3>3 DEF Done
  <2>2. (\A d \in DOMAIN calls'[t] : At(t, d)' \notin 1 .. 5) => Done(t, 5)'
    BY <1>3, <1>5, <2>0, SameDone DEF Complete
  <2>q. QED  BY <2>1, <2>2 DEF Complete
<1>q. QED  BY <1>7, <1>8, <1>9, <1>10, <1>11, <1>12

\* stop() is over.
LEMMA StopFinishes ==
    ASSUME TypeOK, NEW t \in Tabs, Places(t), TabOK(t), NEW c \in DOMAIN calls[t],
           CanGoOn(t, c), Op(t, c) = "stop", At(t, c) = Returned,
           GoOn(t, "stop", c, Over), SameServices(t),
           started'[t] = FALSE, watching'[t] = watching[t]
    PROVE  TabOK(t)'
<1> USE DEF TabOK
<1>1. /\ DOMAIN calls[t] \subseteq Nat
      /\ At(t, c) = 6 /\ At(t, c) # Over
  BY CallsAre DEF Returned, Over
<1>2. /\ IsLast(t, c)
      /\ \A d \in DOMAIN calls[t] \ {c} : At(t, d) = Over
      /\ ~watching[t]
      /\ running[t] = {}
  <2>1. Level(6) = 5  BY DEF Level, Returned
  <2>2. \A j \in 1 .. 4 : Services[j] \notin running[t]
    BY <1>1, <2>1 DEF Stopped
  <2>3. running[t] \subseteq {Services[i] : i \in 1 .. 4}
    BY DEF TypeOK
  <2>4. running[t] = {}  BY <2>2, <2>3
  <2>q. QED  BY <1>1, <2>4 DEF Alone, Stopped
<1>3. /\ Went(t, c, "stop", 0)
      /\ DOMAIN calls'[t] = DOMAIN calls[t]
      /\ \A d \in DOMAIN calls[t] : Op(t, d)' = Op(t, d) /\ At(t, d)' = Over
  <2>1. Went(t, c, "stop", 0)  BY <1>1, Going DEF Over
  <2>q. QED  BY <1>2, <2>1 DEF Went, Op, At, Over
<1>4. \A d : IsLast(t, d)' <=> d = c
  <2>1. \A d : IsLast(t, d)' <=> IsLast(t, d)  BY <1>1, <1>3, LastKept
  <2>q. QED  BY <1>1, <1>2, <2>1, LastIsOne
<1>5. Alone(t)' /\ Together(t)'
  BY <1>3 DEF Alone, Together
<1>6. Election(t)'
  <2>1. "leaderElection" \in running[t] <=> elector[t] # "none"
    BY <1>1, <1>2 DEF Election, Over, Leaving
  <2>2. \A d \in DOMAIN calls'[t] : At(t, d)' # Leaving /\ At(t, d)' # Dying
    BY <1>3 DEF Over, Leaving, Dying
  <2>q. QED  BY <1>2, <2>1, <2>2 DEF Election, SameServices
<1>7. Channel(t)'
  <2>1. \A d \in DOMAIN calls'[t] : At(t, d)' # Closing
    BY <1>3 DEF Over, Closing
  <2>q. QED  BY <1>2, <2>1 DEF Channel, SameServices
<1>8. Stopped(t)'
  BY <1>2, <1>3 DEF Stopped, SameServices
<1>9. Started(t)' /\ Complete(t)'
  BY <1>3, <1>4 DEF Started, Complete
<1>q. QED  BY <1>5, <1>6, <1>7, <1>8, <1>9

\* A channel is closed, or an elector dead.
LEMMA ClosedMoves ==
    ASSUME TypeOK, NEW t \in Tabs, Places(t), TabOK(t), NEW c \in DOMAIN calls[t],
           Closed(t, c)
    PROVE  TabOK(t)'
<1> USE DEF TabOK
<1>0. /\ running \in [Tabs -> SUBSET {Services[i] : i \in 1 .. 4}]
      /\ elector \in [Tabs -> {"none", "candidate", "leader", "dead"}]
      /\ ears \in [Tabs -> SUBSET {"current", "lost"}]
  BY DEF TypeOK
<1>1. /\ DOMAIN calls[t] \subseteq Nat
      /\ At(t, c) \in {8, 9, 10} /\ At(t, c) # Over
      /\ Op(t, c) = "stop"
      /\ c \in Nat /\ At(t, c) \notin 1 .. Watch
  <2>1. At(t, c) >= 8  BY DEF Closed, At, Closing
  <2>q. QED  BY <2>1, CallsAre DEF Over, Watch
<1>2. /\ IsLast(t, c)
      /\ \A d \in DOMAIN calls[t] \ {c} : At(t, d) = Over
      /\ ~watching[t]
      /\ \A j \in 1 .. 4 : j < Level(At(t, c)) => Services[j] \notin running[t]
  BY <1>1 DEF Alone, Stopped
<1>3. /\ started'[t] = started[t] /\ watching'[t] = watching[t] /\ options' = options
  BY DEF Closed
\* What becomes of the services, and where the call goes on.
<1>4. \E g \in {3, 4, 10} :
         /\ GoOn(t, "stop", c, g)
         /\ \A j \in 1 .. 4 : j < Level(g) => Services[j] \notin running'[t]
         /\ "leaderElection" \in running'[t] <=> elector'[t] # "none" \/ g = Leaving
         /\ g = Leaving => elector'[t] = "none"
         /\ "syncStorage" \in running'[t] => "syncStorage" \in options
         /\ ears'[t] = IF "syncStorage" \in running'[t] THEN {"current"} ELSE {}
  <2>0. /\ "leaderElection" \in running[t] <=> elector[t] # "none" \/ At(t, c) = 10
        /\ At(t, c) = 9 => elector[t] = "dead"
        /\ At(t, c) = 10 => elector[t] = "none"
        /\ "syncStorage" \in running[t] => "syncStorage" \in options
        /\ ears[t] = IF "syncStorage" \in running[t] /\ At(t, c) # 8
                     THEN {"current"} ELSE {}
    <3>1. /\ \A d \in DOMAIN calls[t] : At(t, d) = Leaving <=> d = c /\ At(t, c) = 10
          /\ \A d \in DOMAIN calls[t] : At(t, d) = Closing <=> d = c /\ At(t, c) = 8
      BY <1>2 DEF Over, Leaving, Closing
    <3>2. /\ "leaderElection" \in running[t] <=> elector[t] # "none" \/ At(t, c) = 10
          /\ At(t, c) = 9 => elector[t] = "dead"
          /\ At(t, c) = 10 => elector[t] = "none"
      BY <3>1 DEF Election, Dying, Leaving
    <3>q. QED  BY <3>1, <3>2 DEF Channel
  <2>1. CASE At(t, c) = 8
    <3>1. /\ running' = [running EXCEPT ![t] = @ \ {"syncStorage"}]
          /\ ears' = [ears EXCEPT ![t] = IF "current" \in @ THEN {"lost"} ELSE @]
          /\ GoOn(t, "stop", c, 3)
          /\ UNCHANGED elector
      BY <2>1 DEF Closed, At, Closing, Dying, Leaving
    <3>2. /\ running'[t] = running[t] \ {"syncStorage"}
          /\ ears'[t] = {}
          /\ elector'[t] = elector[t]
      BY <1>0, <2>0, <2>1, <3>1
    <3>3. Level(8) = 2 /\ Level(3) = 3  BY DEF Level, Closing, Returned
    <3>4. \A j \in 1 .. 4 : j < Level(3) => Services[j] \notin running'[t]
      <4> SUFFICES ASSUME NEW j \in 1 .. 4, j < Level(3)
                   PROVE  Services[j] \notin running'[t]
        OBVIOUS
      <4>1. CASE j = 1  BY <1>2, <2>1, <3>2, <3>3, <4>1
      <4>2. CASE j = 2  BY <3>2, <4>2, ServicesAre
      <4>q. QED  BY <3>3, <4>1, <4>2
    <3>q. QED  BY <2>0, <2>1, <3>1, <3>2, <3>4 DEF Leaving
  <2>2. CASE At(t, c) = 9
    <3>0. "leaderElection" \in running[t]  BY <2>0, <2>2
    <3>1. /\ elector' = [elector EXCEPT ![t] = "none"]
          /\ GoOn(t, "stop", c, 10)
          /\ UNCHANGED <<running, ears>>
      BY <2>2, <3>0 DEF Closed, At, Closing, Dying, Leaving
    <3>2. elector'[t] = "none" /\ running'[t] = running[t] /\ ears'[t] = ears[t]
      BY <1>0, <3>1
    <3>3. Level(9) = 3 /\ Level(10) = 3  BY DEF Level, Closing, Returned
    <3>q. QED  BY <1>2, <2>0, <2>2, <3>0, <3>1, <3>2, <3>3 DEF Leaving
  <2>3. CASE At(t, c) = 10
    <3>1. /\ running' = [running EXCEPT ![t] = @ \ {"leaderElection"}]
          /\ GoOn(t, "stop", c, 4)
          /\ UNCHANGED <<elector, ears>>
      BY <2>3 DEF Closed, At, Closing, Dying, Leaving
    <3>2. /\ running'[t] = running[t] \ {"leaderElection"}
          /\ elector'[t] = elector[t] /\ ears'[t] = ears[t]
      BY <1>0, <3>1
    <3>3. Level(10) = 3 /\ Level(4) = 4  BY DEF Level, Closing, Returned
    <3>4. \A j \in 1 .. 4 : j < Level(4) => Services[j] \notin running'[t]
      <4> SUFFICES ASSUME NEW j \in 1 .. 4, j < Level(4)
                   PROVE  Services[j] \notin running'[t]
        OBVIOUS
      <4>1. CASE j < 3  BY <1>2, <2>3, <3>2, <3>3, <4>1
      <4>2. CASE j = 3  BY <3>2, <4>2, ServicesAre
      <4>q. QED  BY <3>3, <4>1, <4>2
    <3>q. QED  BY <2>0, <2>3, <3>1, <3>2, <3>4 DEF Leaving
  <2>q. QED  BY <1>1, <2>1, <2>2, <2>3
<1>5. PICK g \in {3, 4, 10} :
         /\ GoOn(t, "stop", c, g)
         /\ \A j \in 1 .. 4 : j < Level(g) => Services[j] \notin running'[t]
         /\ "leaderElection" \in running'[t] <=> elector'[t] # "none" \/ g = Leaving
         /\ g = Leaving => elector'[t] = "none"
         /\ "syncStorage" \in running'[t] => "syncStorage" \in options
         /\ ears'[t] = IF "syncStorage" \in running'[t] THEN {"current"} ELSE {}
  BY <1>4
<1>6. /\ Went(t, c, "stop", g)
      /\ DOMAIN calls'[t] = DOMAIN calls[t]
      /\ At(t, c)' = g /\ Op(t, c)' = "stop"
      /\ \A d \in DOMAIN calls[t] \ {c} : At(t, d)' = Over
  <2>1. Went(t, c, "stop", g)  BY <1>1, <1>5, Going DEF CanGoOn
  <2>q. QED  BY <1>2, <2>1 DEF Went, Op, At
<1>7. \A d : IsLast(t, d)' <=> d = c
  <2>1. \A d : IsLast(t, d)' <=> IsLast(t, d)  BY <1>1, <1>6, LastKept
  <2>q. QED  BY <1>1, <1>2, <2>1, LastIsOne
<1>8. g # Over /\ g # Closing /\ g # Dying  BY DEF Over, Closing, Dying
<1>9. "autoRenew" \notin running'[t]
  <2>1. 1 < Level(g)  BY DEF Level, Closing, Returned
  <2>q. QED  BY <1>5, <2>1, ServicesAre
<1>10. Alone(t)' /\ Together(t)'
  BY <1>6, <1>7 DEF Alone, Together
<1>11. Election(t)'
  BY <1>5, <1>6, <1>8, <1>9 DEF Election, Over, Dying, Leaving
<1>12. Channel(t)'
  BY <1>3, <1>5, <1>6, <1>8 DEF Channel, Over, Closing
<1>13. Stopped(t)'
  BY <1>2, <1>3, <1>5, <1>6, <1>7, <1>8 DEF Stopped
<1>14. Started(t)' /\ Complete(t)'
  BY <1>6, <1>7 DEF Started, Complete
<1>q. QED  BY <1>10, <1>11, <1>12, <1>13, <1>14

\* A tab gains the leadership when its calls are over and the last one is a start().
LEMMA LeaderMoves ==
    ASSUME TypeOK, NEW t \in Tabs, InLine(t), Places(t), TabOK(t),
           ~Underway(t, {"stop"}), GainsLeadership(t)
    PROVE  TabOK(t)'
<1> USE DEF TabOK
<1>1. /\ DOMAIN calls[t] = 1 .. Len(calls[t]) /\ Len(calls[t]) \in Nat
      /\ DOMAIN calls[t] \subseteq Nat
      /\ elector \in [Tabs -> {"none", "candidate", "leader", "dead"}]
  BY CallsAre DEF TypeOK
<1>2. \A d \in DOMAIN calls[t] : At(t, d) = Over
  <2> SUFFICES ASSUME NEW d \in DOMAIN calls[t]  PROVE At(t, d) = Over
    OBVIOUS
  <2>1. At(t, d) \notin 1 .. 7
    BY DEF InLine, GainsLeadership, Watch
  <2>2. Op(t, d) = "stop" => At(t, d) = Over
    BY DEF Underway, Op, At
  <2>q. QED  BY <2>1, <2>2, CallsAre DEF Over
<1>c. PICK c \in Nat : c = Len(calls[t]) + 1
  BY <1>1
<1>3. /\ GoOn(t, "lead", c, 1)
      /\ elector[t] = "candidate" /\ elector'[t] = "leader"
      /\ running' = running /\ ears' = ears /\ options' = options
      /\ started' = started /\ watching' = watching
  BY <1>1, <1>c DEF GainsLeadership
<1>4. c \in Nat /\ c \notin DOMAIN calls[t] /\ CanGoOn(t, c)
  BY <1>1, <1>c DEF CanGoOn
<1>5. /\ Went(t, c, "lead", 1)
      /\ DOMAIN calls'[t] = DOMAIN calls[t] \cup {c}
      /\ Op(t, c)' = "lead" /\ At(t, c)' = 1
      /\ \A d \in DOMAIN calls[t] : Op(t, d)' = Op(t, d) /\ At(t, d)' = Over
  <2>1. Went(t, c, "lead", 1)  BY <1>3, <1>4, Going
  <2>q. QED  BY <1>2, <1>4, <2>1 DEF Went, Op, At
<1>6. \A d : IsLast(t, d)' <=> IsLast(t, d)
  BY <1>4, <1>5, LastKept
<1>7. "leaderElection" \in running[t] <=> elector[t] # "none"
  BY <1>2 DEF Election, Over, Leaving
<1>8. PICK l \in DOMAIN calls[t] : IsLast(t, l) /\ Op(t, l) = "start"
  <2>1. running[t] # {}  BY <1>3, <1>7
  <2>2. PICK l \in DOMAIN calls[t] :
            IsLast(t, l) /\ ~(Op(t, l) = "stop" /\ At(t, l) = Over)
    BY <2>1 DEF Stopped
  <2>3. Op(t, l) \in {"start", "stop", "lead"} /\ Op(t, l) # "lead"
    BY <2>2, CallsAre DEF IsLast
  <2>q. QED  BY <1>2, <2>2, <2>3
<1>9. started[t] /\ At(t, l) = Over
  BY <1>2, <1>8 DEF Started
<1>10. Alone(t)'
  BY <1>5 DEF Alone
<1>11. Together(t)'
  <2>1. started'[t]  BY <1>3, <1>9
  <2>2. l \in DOMAIN calls'[t] /\ IsLast(t, l)' /\ Op(t, l)' = "start"
    BY <1>5, <1>6, <1>8
  <2>q. QED  BY <1>5, <2>1, <2>2 DEF Together
<1>12. Election(t)'
  <2>1. \A d \in DOMAIN calls'[t] : At(t, d)' # Leaving /\ At(t, d)' # Dying
    BY <1>5 DEF Over, Leaving, Dying
  <2>q. QED  BY <1>3, <1>7, <2>1 DEF Election, Leads
<1>13. Channel(t)'
  <2>1. \A d \in DOMAIN calls'[t] : At(t, d)' # Closing
    BY <1>5 DEF Over, Closing
  <2>2. \A d \in DOMAIN calls[t] : At(t, d) # Closing
    BY <1>2 DEF Over, Closing
  <2>q. QED  BY <1>3, <2>1, <2>2 DEF Channel
<1>14. Stopped(t)'
  <2>1. ~(\A d \in DOMAIN calls'[t] : IsLast(t, d)' => Op(t, d)' = "stop" /\ At(t, d)' = Over)
    BY <1>5, <1>6, <1>8
  <2>q. QED  BY <1>5, <2>1 DEF Stopped
<1>15. Started(t)'
  <2> SUFFICES ASSUME NEW d \in DOMAIN calls'[t], IsLast(t, d)', Op(t, d)' = "start"
               PROVE  started'[t] /\ watching'[t]
    BY DEF Started
  <2>1. d \in DOMAIN calls[t] /\ IsLast(t, d) /\ Op(t, d) = "start"
    BY <1>5, <1>6
  <2>q. QED  BY <1>2, <1>3, <2>1 DEF Started
<1>16. Complete(t)'
  <2>1. \A d \in DOMAIN calls'[t] : At(t, d)' \in 1 .. 5 => At(t, d)' = 1
    BY <1>5 DEF Over
  <2>2. Done(t, 1)'  BY DEF Done
  <2>3. \A d \in DOMAIN calls'[t] : At(t, d)' \in 1 .. 5 => Done(t, At(t, d))'
    BY <2>1 DEF Done
  <2>4. ~(\A d \in DOMAIN calls'[t] : At(t, d)' \notin 1 .. 5)
    BY <1>5
  <2>q. QED  BY <2>3, <2>4 DEF Complete
<1>q. QED  BY <1>10, <1>11, <1>12, <1>13, <1>14, <1>15, <1>16

-------------------------------------------------------------------------------
(* The steps. *)

\* Where a call of that kind can go.
Legal(op, g) == /\ op = "start" => g \in {0} \cup 2 .. Watch
                /\ op = "lead" => g \in 0 .. 5
                /\ op = "stop" => g \in ({0} \cup 2 .. 10) \ {Watch}

\* The services of tab t may change, to what they can be.
Services1(t) ==
    /\ running' \in [Tabs -> SUBSET {Services[i] : i \in 1 .. 4}]
    /\ elector' \in [Tabs -> {"none", "candidate", "leader", "dead"}]
    /\ ears' \in [Tabs -> SUBSET {"current", "lost"}]
    /\ \A u \in Tabs \ {t} : /\ running'[u] = running[u]
                             /\ elector'[u] = elector[u]
                             /\ ears'[u] = ears[u]

\* The other variables of tab t may change, to what they can be.
Flags1(t) ==
    /\ options' = options
    /\ started' \in [Tabs -> BOOLEAN]
    /\ watching' \in [Tabs -> BOOLEAN]
    /\ overlap' \in [Tabs -> BOOLEAN]
    /\ made' \in 0 .. MaxCalls
    /\ \A u \in Tabs \ {t} : /\ started'[u] = started[u]
                             /\ watching'[u] = watching[u]
                             /\ overlap'[u] = overlap[u]

\* The call and the services keep their types in startServices().
LEMMA StartGoes ==
    ASSUME TypeOK, NEW t \in Tabs, NEW op \in {"start", "lead"}, NEW c,
           NEW p \in 1 .. 5, StartServices(t, op, c, p)
    PROVE  /\ \E g \in 0 .. 10 : GoOn(t, op, c, g) /\ Legal(op, g)
           /\ Services1(t)
<1>0. /\ running \in [Tabs -> SUBSET {Services[i] : i \in 1 .. 4}]
      /\ elector \in [Tabs -> {"none", "candidate", "leader", "dead"}]
      /\ ears \in [Tabs -> SUBSET {"current", "lost"}]
  BY DEF TypeOK
<1>1. CASE StartsNone(t, op, c, p)
  <2>1. GoOn(t, op, c, IF op = "start" THEN 6 ELSE 0) /\ UNCHANGED <<running, elector, ears>>
    BY <1>1 DEF StartsNone, Returned, Over
  <2>2. Services1(t)  BY <1>0, <2>1 DEF Services1
  <2>3. CASE op = "start"  BY <2>1, <2>2, <2>3 DEF Legal, Watch
  <2>4. CASE op = "lead"  BY <2>1, <2>2, <2>4 DEF Legal
  <2>q. QED  BY <2>3, <2>4
<1>2. ASSUME NEW m \in p .. 4, StartsOne(t, op, c, p, m)
      PROVE  /\ m + 1 \in 0 .. 10 /\ GoOn(t, op, c, m + 1) /\ Legal(op, m + 1)
             /\ Services1(t)
  <2>1. m + 1 \in 2 .. 5 /\ m \in 1 .. 4  OBVIOUS
  <2>2. Services[m] \in {Services[i] : i \in 1 .. 4}  BY <2>1
  <2>3. running' \in [Tabs -> SUBSET {Services[i] : i \in 1 .. 4}]
    <3>1. running[t] \cup {Services[m]} \in SUBSET {Services[i] : i \in 1 .. 4}
      BY <1>0, <2>2
    <3>q. QED  BY <1>0, <1>2, <3>1 DEF StartsOne
  <2>4. /\ elector' \in [Tabs -> {"none", "candidate", "leader", "dead"}]
        /\ ears' \in [Tabs -> SUBSET {"current", "lost"}]
    BY <1>0, <1>2 DEF StartsOne
  <2>5. Services1(t)  BY <1>0, <1>2, <2>3, <2>4 DEF StartsOne, Services1
  <2>q. QED  BY <1>2, <2>1, <2>5 DEF StartsOne, Legal, Watch
<1>3. StartsNone(t, op, c, p) \/ \E m \in p .. 4 : StartsOne(t, op, c, p, m)
  BY StartEffect
<1>q. QED  BY <1>1, <1>2, <1>3

\* The call and the services keep their types in stopServices().
LEMMA StopGoes ==
    ASSUME TypeOK, NEW t \in Tabs, NEW c, NEW p \in 1 .. 5, StopServices(t, c, p)
    PROVE  /\ \E g \in 0 .. 10 : GoOn(t, "stop", c, g) /\ Legal("stop", g)
           /\ Services1(t)
<1>0. /\ running \in [Tabs -> SUBSET {Services[i] : i \in 1 .. 4}]
      /\ elector \in [Tabs -> {"none", "candidate", "leader", "dead"}]
      /\ ears \in [Tabs -> SUBSET {"current", "lost"}]
  BY DEF TypeOK
<1>1. CASE StopsChannel(t, c, p)
  <2>1. GoOn(t, "stop", c, 8)  BY <1>1 DEF StopsChannel, Closing
  <2>2. Services1(t)  BY <1>0, <1>1 DEF StopsChannel, Services1
  <2>q. QED  BY <2>1, <2>2 DEF Legal, Watch
<1>2. CASE StopsElection(t, c, p)
  <2>1. \E g \in {9, 10} : GoOn(t, "stop", c, g)
    BY <1>2 DEF StopsElection, Leaving, Dying
  <2>2. Services1(t)  BY <1>0, <1>2 DEF StopsElection, Services1
  <2>q. QED  BY <2>1, <2>2 DEF Legal, Watch
<1>3. CASE StopsOne(t, c, p)
  <2>1. GoOn(t, "stop", c, p + 1) /\ p + 1 \in 2 .. 6
    BY <1>3 DEF StopsOne
  <2>2. running' \in [Tabs -> SUBSET {Services[i] : i \in 1 .. 4}]
    <3>1. \A s : running[t] \ {s} \in SUBSET {Services[i] : i \in 1 .. 4}
      BY <1>0
    <3>q. QED  BY <1>0, <1>3, <3>1 DEF StopsOne
  <2>3. Services1(t)  BY <1>0, <1>3, <2>2 DEF StopsOne, Services1
  <2>q. QED  BY <2>1, <2>3 DEF Legal, Watch
<1>q. QED  BY <1>1, <1>2, <1>3, StopEffect

\* A step of tab t keeps the invariant if it keeps that tab in order.
LEMMA TabSteps ==
    ASSUME IInv, NEW t \in Tabs, NEW c \in Nat, CanGoOn(t, c),
           NEW op \in {"start", "stop", "lead"},
           c \in DOMAIN calls[t] => op = Op(t, c),
           \E g \in 0 .. 10 : GoOn(t, op, c, g) /\ Legal(op, g),
           Services1(t), Flags1(t),
           ~overlap'[t] => TabOK(t)'
    PROVE  IInv'
<1>1. TypeOK /\ InLine(t) /\ Places(t)  BY DEF IInv
<1>2. PICK g \in 0 .. 10 : GoOn(t, op, c, g) /\ Legal(op, g)
  OBVIOUS
<1>3. /\ Went(t, c, op, g)
      /\ calls' \in [Tabs -> Seq(Calls)]
      /\ \A u \in Tabs \ {t} : calls'[u] = calls[u]
  BY <1>1, <1>2, Going
<1>4. /\ InLine(t)'
      /\ jobs' \in [Tabs -> Seq(Nat)]
      /\ \A u \in Tabs : jobs'[u] \in Seq(DOMAIN calls'[u])
      /\ \A u \in Tabs \ {t} : jobs'[u] = jobs[u]
  BY <1>1, <1>2, Queued
<1>5. Places(t)'
  BY <1>1, <1>2, <1>3, PlacesKept DEF Legal
<1>6. TypeOK'
  <2>1. options' \in OptionSets  BY <1>1 DEF TypeOK, Flags1
  <2>q. QED  BY <1>3, <1>4, <2>1 DEF TypeOK, Services1, Flags1
<1>7. Here(t)'
  BY <1>4, <1>5 DEF Here
<1>8. ASSUME NEW u \in Tabs \ {t}  PROVE Here(u)'
  <2>1. Here(u)  BY DEF IInv, Here
  <2>2. Same(u) /\ options' = options
    BY <1>3, <1>4 DEF Same, Services1, Flags1
  <2>q. QED  BY <2>1, <2>2, OtherTabs
<1>9. \A u \in Tabs : Here(u)'
  BY <1>7, <1>8
<1>q. QED  BY <1>6, <1>9 DEF IInv, Here

\* start() keeps the invariant.
LEMMA StartSteps ==
    ASSUME ServicesAssumption, IInv, NEW t \in Tabs, Start(t)
    PROVE  IInv'
<1>0. /\ TypeOK /\ InLine(t) /\ Places(t) /\ (~overlap[t] => TabOK(t))
      /\ DOMAIN calls[t] = 1 .. Len(calls[t]) /\ Len(calls[t]) \in Nat
      /\ \A d \in DOMAIN calls[t] : Op(t, d) \in {"start", "stop", "lead"}
  BY CallsAre DEF IInv
<1>1. PICK c \in Nat : c = Len(calls[t]) + 1
  BY <1>0
<1>2. /\ made < MaxCalls
      /\ IF started[t] THEN /\ GoOn(t, "start", c, Watch)
                            /\ UNCHANGED <<running, elector, ears>>
         ELSE StartServices(t, "start", c, 1)
      /\ made' = made + 1
      /\ overlap' = [overlap EXCEPT ![t] = @ \/ Underway(t, {"start", "stop"})]
      /\ UNCHANGED <<options, started, watching>>
  BY <1>1 DEF Start
<1>3. CanGoOn(t, c) /\ c \notin DOMAIN calls[t]
  BY <1>0, <1>1 DEF CanGoOn
<1>4. overlap'[t] = (overlap[t] \/ Underway(t, {"start", "stop"}))
  BY <1>0, <1>2 DEF TypeOK
<1>5. Flags1(t)
  <2>1. made' \in 0 .. MaxCalls
    BY <1>0, <1>2 DEF TypeOK, ServicesAssumption
  <2>2. overlap' \in [Tabs -> BOOLEAN] /\ \A u \in Tabs \ {t} : overlap'[u] = overlap[u]
    <3>1. Underway(t, {"start", "stop"}) \in BOOLEAN  BY DEF Underway
    <3>q. QED  BY <1>0, <1>2, <3>1 DEF TypeOK
  <2>q. QED  BY <1>0, <1>2, <2>1, <2>2 DEF TypeOK, Flags1
<1>6. CASE started[t]
  <2>1. GoOn(t, "start", c, 7) /\ UNCHANGED <<running, elector, ears>>
    BY <1>2, <1>6 DEF Watch
  <2>2. \E g \in 0 .. 10 : GoOn(t, "start", c, g) /\ Legal("start", g)
    BY <2>1 DEF Legal, Watch
  <2>3. Services1(t)  BY <1>0, <2>1 DEF TypeOK, Services1
  <2>4. ASSUME ~overlap'[t]  PROVE TabOK(t)'
    <3>1. TabOK(t) /\ ~Underway(t, {"start", "stop"})  BY <1>0, <1>4, <2>4
    <3>2. SameServices(t) /\ started'[t] = started[t] /\ watching'[t] = watching[t]
      BY <1>2, <2>1 DEF SameServices
    <3>q. QED  BY <1>0, <1>1, <1>6, <2>1, <3>1, <3>2, StartAgain DEF Watch
  <2>q. QED  BY <1>3, <1>5, <2>2, <2>3, <2>4, TabSteps
<1>7. CASE ~started[t]
  <2>1. StartServices(t, "start", c, 1)  BY <1>2, <1>7
  <2>2. /\ \E g \in 0 .. 10 : GoOn(t, "start", c, g) /\ Legal("start", g)
        /\ Services1(t)
    BY <1>0, <2>1, StartGoes
  <2>3. ASSUME ~overlap'[t]  PROVE TabOK(t)'
    <3>1. TabOK(t) /\ ~Underway(t, {"start", "stop"})  BY <1>0, <1>4, <2>3
    <3>2. \A d \in DOMAIN calls[t] : At(t, d) = Over
      <4> SUFFICES ASSUME NEW d \in DOMAIN calls[t], At(t, d) # Over  PROVE FALSE
        OBVIOUS
      <4>1. Op(t, d) = "lead"  BY <1>0, <3>1 DEF Underway, Op, At
      <4>q. QED  BY <1>7, <3>1, <4>1 DEF TabOK, Together
    <3>3. Idle(t)  BY <3>2 DEF Idle, At
    <3>4. options' = options /\ started'[t] = started[t] /\ watching'[t] = watching[t]
      BY <1>2
    <3>q. QED  BY <1>0, <1>3, <2>1, <3>1, <3>2, <3>3, <3>4, StartMoves
  <2>q. QED  BY <1>3, <1>5, <2>2, <2>3, TabSteps
<1>q. QED  BY <1>6, <1>7

\* stop() keeps the invariant.
LEMMA StopSteps ==
    ASSUME ServicesAssumption, IInv, NEW t \in Tabs, Stop(t)
    PROVE  IInv'
<1>0. /\ TypeOK /\ InLine(t) /\ Places(t) /\ (~overlap[t] => TabOK(t))
      /\ DOMAIN calls[t] = 1 .. Len(calls[t]) /\ Len(calls[t]) \in Nat
  BY CallsAre DEF IInv
<1>1. PICK c \in Nat : c = Len(calls[t]) + 1
  BY <1>0
<1>2. /\ made < MaxCalls
      /\ watching' = [watching EXCEPT ![t] = FALSE]
      /\ StopServices(t, c, 1)
      /\ made' = made + 1
      /\ overlap' = [overlap EXCEPT ![t] = @ \/ ~Idle(t)]
      /\ UNCHANGED <<options, started>>
  BY <1>1 DEF Stop
<1>3. CanGoOn(t, c) /\ c \notin DOMAIN calls[t]
  BY <1>0, <1>1 DEF CanGoOn
<1>4. overlap'[t] = (overlap[t] \/ ~Idle(t)) /\ watching'[t] = FALSE
  BY <1>0, <1>2 DEF TypeOK
<1>5. Flags1(t)
  <2>1. made' \in 0 .. MaxCalls
    BY <1>0, <1>2 DEF TypeOK, ServicesAssumption
  <2>2. overlap' \in [Tabs -> BOOLEAN] /\ \A u \in Tabs \ {t} : overlap'[u] = overlap[u]
    <3>1. Idle(t) \in BOOLEAN  BY DEF Idle
    <3>q. QED  BY <1>0, <1>2, <3>1 DEF TypeOK
  <2>3. watching' \in [Tabs -> BOOLEAN] /\ \A u \in Tabs \ {t} : watching'[u] = watching[u]
    BY <1>0, <1>2 DEF TypeOK
  <2>q. QED  BY <1>0, <1>2, <2>1, <2>2, <2>3 DEF TypeOK, Flags1
<1>6. /\ \E g \in 0 .. 10 : GoOn(t, "stop", c, g) /\ Legal("stop", g)
      /\ Services1(t)
  BY <1>0, <1>2, StopGoes
<1>7. ASSUME ~overlap'[t]  PROVE TabOK(t)'
  <2>1. TabOK(t) /\ Idle(t)  BY <1>0, <1>4, <1>7
  <2>2. \A d \in DOMAIN calls[t] : At(t, d) = Over  BY <2>1 DEF Idle, At
  <2>3. options' = options /\ started'[t] = started[t]  BY <1>2
  <2>4. PICK q \in 1 .. 5 : q = 1  OBVIOUS
  <2>5. StopServices(t, c, q)  BY <1>2, <2>4
  <2>6. \/ c \in DOMAIN calls[t] /\ At(t, c) = q /\ watching'[t] = watching[t]
        \/ c \notin DOMAIN calls[t] /\ q = 1 /\ watching'[t] = FALSE
    BY <1>3, <1>4, <2>4
  <2>q. QED  BY <1>0, <1>3, <2>1, <2>2, <2>3, <2>5, <2>6, StopMoves
<1>q. QED  BY <1>3, <1>5, <1>6, <1>7, TabSteps

\* A microtask keeps the invariant.
LEMMA ContinueSteps ==
    ASSUME IInv, NEW t \in Tabs, Continue(t)
    PROVE  IInv'
<1>0. /\ TypeOK /\ InLine(t) /\ Places(t) /\ (~overlap[t] => TabOK(t))
      /\ DOMAIN calls[t] \subseteq Nat
      /\ jobs[t] \in Seq(DOMAIN calls[t]) /\ jobs[t] # <<>>
  BY CallsAre DEF IInv, TypeOK, Continue
<1>1. PICK c \in DOMAIN calls[t] : c = Head(jobs[t])
  BY <1>0, HeadTailProperties
<1>2. At(t, c) \in 1 .. 7
  <2>1. 1 \in DOMAIN jobs[t] /\ jobs[t][1] = c  BY <1>0, <1>1
  <2>q. QED  BY <1>0, <2>1 DEF InLine, Watch
<1>3. CanGoOn(t, c) /\ c \in Nat /\ Op(t, c) \in {"start", "stop", "lead"}
  BY <1>0, <1>1, CallsAre DEF CanGoOn
<1>4. /\ CASE At(t, c) <= 5 /\ Op(t, c) = "stop" ->
                 StopServices(t, c, At(t, c)) /\ UNCHANGED <<started, watching>>
            [] At(t, c) = 1 /\ Op(t, c) = "lead" /\ ~started[t] ->
                 /\ GoOn(t, Op(t, c), c, Over)
                 /\ UNCHANGED <<running, elector, ears, started, watching>>
            [] At(t, c) <= 5 /\ Op(t, c) # "stop"
               /\ (Op(t, c) = "lead" /\ At(t, c) = 1 => started[t]) ->
                 StartServices(t, Op(t, c), c, At(t, c)) /\ UNCHANGED <<started, watching>>
            [] At(t, c) = Returned ->
                 /\ started' = [started EXCEPT ![t] = Op(t, c) = "start"]
                 /\ GoOn(t, Op(t, c), c, IF Op(t, c) = "start" THEN Watch ELSE Over)
                 /\ UNCHANGED <<running, elector, ears, watching>>
            [] At(t, c) = Watch ->
                 /\ watching' = [watching EXCEPT ![t] = TRUE]
                 /\ GoOn(t, Op(t, c), c, Over)
                 /\ UNCHANGED <<running, elector, ears, started>>
      /\ UNCHANGED <<options, made, overlap>>
  BY <1>1 DEF Continue, Op, At
<1>5. options' = options /\ made' = made /\ overlap' = overlap
  BY <1>4
<1>6. ~overlap'[t] => TabOK(t)  BY <1>0, <1>5
\* A stop() stops the next service.
<1>7. CASE Op(t, c) = "stop" /\ At(t, c) \in 1 .. 5
  <2>1. /\ StopServices(t, c, At(t, c))
        /\ started' = started /\ watching' = watching
    <3>1. At(t, c) <= 5 /\ Op(t, c) # "lead" /\ At(t, c) # Returned /\ At(t, c) # Watch
      BY <1>7 DEF Returned, Watch
    <3>q. QED  BY <1>4, <1>7, <3>1
  <2>2. PICK q \in 1 .. 5 : q = At(t, c)  BY <1>7
  <2>3. /\ \E g \in 0 .. 10 : GoOn(t, "stop", c, g) /\ Legal("stop", g)
        /\ Services1(t)
    BY <1>0, <2>1, <2>2, StopGoes
  <2>4. Flags1(t)  BY <1>0, <1>5, <2>1 DEF TypeOK, Flags1
  <2>5. ASSUME TabOK(t)  PROVE TabOK(t)'
    <3>1. \A d \in DOMAIN calls[t] \ {c} : At(t, d) = Over
      BY <1>2, <1>7, <2>5 DEF TabOK, Alone, Over
    <3>q. QED  BY <1>0, <1>3, <1>5, <1>7, <2>1, <2>2, <2>5, <3>1, StopMoves
  <2>q. QED  BY <1>3, <1>6, <1>7, <2>3, <2>4, <2>5, TabSteps
\* onLeader() in a tab that is stopped: some calls overlapped.
<1>8. CASE Op(t, c) = "lead" /\ At(t, c) = 1 /\ ~started[t]
  <2>1. /\ GoOn(t, "lead", c, 0)
        /\ running' = running /\ elector' = elector /\ ears' = ears
        /\ started' = started /\ watching' = watching
    <3>1. At(t, c) <= 5 /\ Op(t, c) # "stop" /\ At(t, c) # Returned /\ At(t, c) # Watch
      BY <1>8 DEF Returned, Watch
    <3>q. QED  BY <1>4, <1>8, <3>1 DEF Over
  <2>2. \E g \in 0 .. 10 : GoOn(t, "lead", c, g) /\ Legal("lead", g)
    BY <2>1 DEF Legal
  <2>3. Services1(t) /\ Flags1(t)
    BY <1>0, <1>5, <2>1 DEF TypeOK, Services1, Flags1
  <2>4. ~TabOK(t)
    BY <1>8 DEF TabOK, Together, Over
  <2>q. QED  BY <1>3, <1>6, <1>8, <2>2, <2>3, <2>4, TabSteps
\* A start() or onLeader() starts the next service.
<1>9. CASE /\ Op(t, c) \in {"start", "lead"} /\ At(t, c) \in 1 .. 5
           /\ Op(t, c) = "lead" /\ At(t, c) = 1 => started[t]
  <2>1. /\ StartServices(t, Op(t, c), c, At(t, c))
        /\ started' = started /\ watching' = watching
    <3>1. At(t, c) <= 5 /\ Op(t, c) # "stop" /\ At(t, c) # Returned /\ At(t, c) # Watch
      BY <1>9 DEF Returned, Watch
    <3>2. ~(At(t, c) = 1 /\ Op(t, c) = "lead" /\ ~started[t])
      BY <1>9
    <3>q. QED  BY <1>4, <1>9, <3>1, <3>2
  <2>2. PICK q \in 1 .. 5 : q = At(t, c)  BY <1>9
  <2>3. PICK op \in {"start", "lead"} : op = Op(t, c)  BY <1>9
  <2>4. /\ \E g \in 0 .. 10 : GoOn(t, op, c, g) /\ Legal(op, g)
        /\ Services1(t)
    BY <1>0, <2>1, <2>2, <2>3, StartGoes
  <2>5. Flags1(t)  BY <1>0, <1>5, <2>1 DEF TypeOK, Flags1
  <2>6. ASSUME TabOK(t)  PROVE TabOK(t)'
    <3>1. \A d \in DOMAIN calls[t] \ {c} : At(t, d) \in {Over, Watch}
      <4> SUFFICES ASSUME NEW d \in DOMAIN calls[t], d # c, At(t, d) # Over
                   PROVE  At(t, d) = Watch
        OBVIOUS
      <4>0. At(t, c) # Over /\ At(t, c) # Watch  BY <1>9 DEF Over, Watch
      <4>1. CASE Op(t, c) = "lead"
        BY <2>6, <4>0, <4>1 DEF TabOK, Together
      <4>2. CASE Op(t, c) = "start"
        <5>1. IsLast(t, c)  BY <2>6, <4>0, <4>2 DEF TabOK, Together
        <5>2. Op(t, d) # "stop"
          BY <2>6, <4>0 DEF TabOK, Alone
        <5>3. Op(t, d) # "start"
          <6>1. Op(t, d) = "start" => IsLast(t, d)  BY <2>6 DEF TabOK, Together
          <6>q. QED  BY <1>0, <5>1, <6>1, LastIsOne
        <5>4. Op(t, d) = "lead"  BY <1>0, <5>2, <5>3, CallsAre
        <5>q. QED  BY <2>6, <4>0, <5>4 DEF TabOK, Together
      <4>q. QED  BY <1>9, <4>1, <4>2
    <3>q. QED  BY <1>0, <1>3, <1>5, <2>1, <2>2, <2>3, <2>6, <3>1, StartMoves
  <2>q. QED  BY <1>3, <1>6, <2>3, <2>4, <2>5, <2>6, TabSteps
\* startServices() or stopServices() has returned.
<1>10. CASE At(t, c) = 6
  <2>0. Op(t, c) \in {"start", "stop"}  BY SMTT(30), <1>0, <1>10, <1>3, CallsAre
  <2>1. /\ started' = [started EXCEPT ![t] = Op(t, c) = "start"]
        /\ GoOn(t, Op(t, c), c, IF Op(t, c) = "start" THEN 7 ELSE 0)
        /\ running' = running /\ elector' = elector /\ ears' = ears /\ watching' = watching
    <3>1. /\ ~(At(t, c) <= 5)
          /\ At(t, c) # 1
          /\ At(t, c) = Returned /\ At(t, c) # Watch
      BY <1>10 DEF Returned, Watch
    <3>q. QED  BY <1>4, <3>1 DEF Over, Watch
  <2>2. SameServices(t)  BY <1>5, <2>1 DEF SameServices
  <2>3. Services1(t) /\ Flags1(t)
    <3>1. started' \in [Tabs -> BOOLEAN] /\ \A u \in Tabs \ {t} : started'[u] = started[u]
      BY <1>0, <2>1 DEF TypeOK
    <3>q. QED  BY <1>0, <1>5, <2>1, <3>1 DEF TypeOK, Services1, Flags1
  <2>4. CASE Op(t, c) = "start"
    <3>1. started'[t] = TRUE /\ watching'[t] = watching[t]
      BY <1>0, <2>1, <2>4 DEF TypeOK
    <3>2. GoOn(t, "start", c, 7)  BY <2>1, <2>4
    <3>3. TabOK(t) => TabOK(t)'
      BY <1>0, <1>3, <1>10, <2>2, <2>4, <3>1, <3>2, StartFinishes DEF Returned, Watch
    <3>4. \E g \in 0 .. 10 : GoOn(t, "start", c, g) /\ Legal("start", g)
      BY <3>2 DEF Legal, Watch
    <3>q. QED  BY <1>3, <1>6, <2>3, <2>4, <3>3, <3>4, TabSteps
  <2>5. CASE Op(t, c) = "stop"
    <3>1. started'[t] = FALSE /\ watching'[t] = watching[t]
      BY <1>0, <2>1, <2>5 DEF TypeOK
    <3>2. GoOn(t, "stop", c, 0)  BY <2>1, <2>5
    <3>3. TabOK(t) => TabOK(t)'
      BY <1>0, <1>3, <1>10, <2>2, <2>5, <3>1, <3>2, StopFinishes DEF Returned, Over
    <3>4. \E g \in 0 .. 10 : GoOn(t, "stop", c, g) /\ Legal("stop", g)
      BY <3>2 DEF Legal, Watch
    <3>q. QED  BY <1>3, <1>6, <2>3, <2>5, <3>3, <3>4, TabSteps
  <2>q. QED  BY <2>0, <2>4, <2>5
\* start() starts the token manager.
<1>11. CASE At(t, c) = 7
  <2>0. Op(t, c) = "start"  BY <1>0, <1>11, <1>3, CallsAre
  <2>1. /\ watching' = [watching EXCEPT ![t] = TRUE]
        /\ GoOn(t, "start", c, 0)
        /\ running' = running /\ elector' = elector /\ ears' = ears /\ started' = started
    <3>1. /\ ~(At(t, c) <= 5)
          /\ At(t, c) # 1
          /\ At(t, c) # Returned /\ At(t, c) = Watch
      BY <1>11 DEF Returned, Watch
    <3>q. QED  BY <1>4, <2>0, <3>1 DEF Over
  <2>2. SameServices(t)  BY <1>5, <2>1 DEF SameServices
  <2>3. Services1(t) /\ Flags1(t)
    <3>1. watching' \in [Tabs -> BOOLEAN] /\ \A u \in Tabs \ {t} : watching'[u] = watching[u]
      BY <1>0, <2>1 DEF TypeOK
    <3>q. QED  BY <1>0, <1>5, <2>1, <3>1 DEF TypeOK, Services1, Flags1
  <2>4. started'[t] = started[t] /\ watching'[t] = TRUE
    BY <1>0, <2>1 DEF TypeOK
  <2>5. TabOK(t) => TabOK(t)'
    BY <1>0, <1>3, <1>11, <2>0, <2>1, <2>2, <2>4, StartFinishes DEF Over, Watch
  <2>6. \E g \in 0 .. 10 : GoOn(t, "start", c, g) /\ Legal("start", g)
    BY <2>1 DEF Legal
  <2>q. QED  BY <1>3, <1>6, <2>0, <2>3, <2>5, <2>6, TabSteps
<1>q. QED  BY <1>2, <1>3, <1>7, <1>8, <1>9, <1>10, <1>11

\* A channel that is closed, or an elector that is dead, keeps the invariant.
LEMMA ClosedSteps ==
    ASSUME IInv, NEW t \in Tabs, NEW c \in DOMAIN calls[t], Closed(t, c)
    PROVE  IInv'
<1>0. /\ TypeOK /\ InLine(t) /\ Places(t) /\ (~overlap[t] => TabOK(t))
      /\ running \in [Tabs -> SUBSET {Services[i] : i \in 1 .. 4}]
      /\ elector \in [Tabs -> {"none", "candidate", "leader", "dead"}]
      /\ ears \in [Tabs -> SUBSET {"current", "lost"}]
  BY DEF IInv, TypeOK
<1>1. /\ At(t, c) \in {8, 9, 10}
      /\ Op(t, c) = "stop"
      /\ c \in Nat /\ CanGoOn(t, c)
  <2>1. At(t, c) >= 8  BY DEF Closed, At, Closing
  <2>2. Op(t, c) = "stop" /\ At(t, c) \in {8, 9, 10} /\ c \in Nat  BY <1>0, <2>1, CallsAre
  <2>q. QED  BY <2>2 DEF CanGoOn, Watch
<1>2. /\ \E g \in 0 .. 10 : GoOn(t, "stop", c, g) /\ Legal("stop", g)
      /\ Services1(t)
  <2>1. CASE At(t, c) = 8
    <3>1. /\ running' = [running EXCEPT ![t] = @ \ {"syncStorage"}]
          /\ ears' = [ears EXCEPT ![t] = IF "current" \in @ THEN {"lost"} ELSE @]
          /\ GoOn(t, "stop", c, 3)
          /\ elector' = elector
      BY <2>1 DEF Closed, At, Closing, Dying, Leaving
    <3>2. running[t] \ {"syncStorage"} \in SUBSET {Services[i] : i \in 1 .. 4}
      BY <1>0
    <3>3. Services1(t)  BY <1>0, <3>1, <3>2 DEF Services1
    <3>q. QED  BY <3>1, <3>3 DEF Legal, Watch
  <2>2. CASE At(t, c) = 9
    <3>1. /\ elector' = [elector EXCEPT ![t] = "none"]
          /\ \E g \in {4, 10} : GoOn(t, "stop", c, g)
          /\ running' = running /\ ears' = ears
      BY <2>2 DEF Closed, At, Closing, Dying, Leaving
    <3>2. Services1(t)  BY <1>0, <3>1 DEF Services1
    <3>q. QED  BY <3>1, <3>2 DEF Legal, Watch
  <2>3. CASE At(t, c) = 10
    <3>1. /\ running' = [running EXCEPT ![t] = @ \ {"leaderElection"}]
          /\ GoOn(t, "stop", c, 4)
          /\ elector' = elector /\ ears' = ears
      BY <2>3 DEF Closed, At, Closing, Dying, Leaving
    <3>2. running[t] \ {"leaderElection"} \in SUBSET {Services[i] : i \in 1 .. 4}
      BY <1>0
    <3>3. Services1(t)  BY <1>0, <3>1, <3>2 DEF Services1
    <3>q. QED  BY <3>1, <3>3 DEF Legal, Watch
  <2>q. QED  BY <1>1, <2>1, <2>2, <2>3
<1>3. UNCHANGED <<options, started, watching, made, overlap>>
  BY DEF Closed
<1>4. Flags1(t)  BY <1>0, <1>3 DEF TypeOK, Flags1
<1>5. ~overlap'[t] => TabOK(t)'
  BY <1>0, <1>3, ClosedMoves
<1>q. QED  BY <1>1, <1>2, <1>4, <1>5, TabSteps

\* A tab that gains the leadership keeps the invariant.
LEMMA LeaderSteps ==
    ASSUME IInv, NEW t \in Tabs, GainsLeadership(t)
    PROVE  IInv'
<1>0. /\ TypeOK /\ InLine(t) /\ Places(t) /\ (~overlap[t] => TabOK(t))
      /\ DOMAIN calls[t] = 1 .. Len(calls[t]) /\ Len(calls[t]) \in Nat
  BY CallsAre DEF IInv
<1>1. PICK c \in Nat : c = Len(calls[t]) + 1
  BY <1>0
<1>2. /\ elector' = [elector EXCEPT ![t] = "leader"]
      /\ GoOn(t, "lead", c, 1)
      /\ overlap' = [overlap EXCEPT ![t] = @ \/ Underway(t, {"stop"})]
      /\ UNCHANGED <<options, running, started, watching, ears, made>>
  BY <1>1 DEF GainsLeadership
<1>3. CanGoOn(t, c) /\ c \notin DOMAIN calls[t]
  BY <1>0, <1>1 DEF CanGoOn
<1>4. overlap'[t] = (overlap[t] \/ Underway(t, {"stop"}))
  BY <1>0, <1>2 DEF TypeOK
<1>5. Flags1(t)
  <2>1. overlap' \in [Tabs -> BOOLEAN] /\ \A u \in Tabs \ {t} : overlap'[u] = overlap[u]
    <3>1. (overlap[t] \/ Underway(t, {"stop"})) \in BOOLEAN  OBVIOUS
    <3>q. QED  BY <1>0, <1>2, <3>1 DEF TypeOK
  <2>q. QED  BY <1>0, <1>2, <2>1 DEF TypeOK, Flags1
<1>6. Services1(t)
  BY <1>0, <1>2 DEF TypeOK, Services1
<1>7. \E g \in 0 .. 10 : GoOn(t, "lead", c, g) /\ Legal("lead", g)
  BY <1>2 DEF Legal
<1>8. ~overlap'[t] => TabOK(t)'
  BY <1>0, <1>4, LeaderMoves
<1>q. QED  BY <1>3, <1>5, <1>6, <1>7, <1>8, TabSteps

\* Nothing runs in a tab without calls.
LEMMA UnloadSteps ==
    ASSUME IInv, NEW t \in Tabs, Unload(t)
    PROVE  IInv'
<1>0. TypeOK  BY DEF IInv
<1>1. /\ running' = [running EXCEPT ![t] = {}]
      /\ started' = [started EXCEPT ![t] = FALSE]
      /\ watching' = [watching EXCEPT ![t] = FALSE]
      /\ elector' = [elector EXCEPT ![t] = "none"]
      /\ ears' = [ears EXCEPT ![t] = {}]
      /\ calls' = [calls EXCEPT ![t] = <<>>]
      /\ jobs' = [jobs EXCEPT ![t] = <<>>]
      /\ overlap' = [overlap EXCEPT ![t] = FALSE]
      /\ UNCHANGED <<options, made>>
  BY DEF Unload
<1>2. /\ running'[t] = {} /\ started'[t] = FALSE /\ watching'[t] = FALSE
      /\ elector'[t] = "none" /\ ears'[t] = {} /\ calls'[t] = <<>> /\ jobs'[t] = <<>>
      /\ \A u \in Tabs \ {t} : Same(u)
  BY <1>0, <1>1 DEF TypeOK, Same
<1>3. DOMAIN calls'[t] = {} /\ DOMAIN jobs'[t] = {}
  BY <1>2
<1>4. TypeOK'
  <2>1. /\ running' \in [Tabs -> SUBSET {Services[i] : i \in 1 .. 4}]
        /\ started' \in [Tabs -> BOOLEAN]
        /\ watching' \in [Tabs -> BOOLEAN]
        /\ overlap' \in [Tabs -> BOOLEAN]
    BY <1>0, <1>1 DEF TypeOK
  <2>2. /\ elector' \in [Tabs -> {"none", "candidate", "leader", "dead"}]
        /\ ears' \in [Tabs -> SUBSET {"current", "lost"}]
    BY <1>0, <1>1 DEF TypeOK
  <2>3. \A S : <<>> \in Seq(S)  OBVIOUS
  <2>4. calls' \in [Tabs -> Seq(Calls)] /\ jobs' \in [Tabs -> Seq(Nat)]
    BY <1>0, <1>1, <2>3 DEF TypeOK
  <2>5. ASSUME NEW u \in Tabs  PROVE jobs'[u] \in Seq(DOMAIN calls'[u])
    <3>1. CASE u = t  BY <1>2, <2>3, <3>1
    <3>2. CASE u # t
      <4>1. jobs[u] \in Seq(DOMAIN calls[u])  BY <1>0 DEF TypeOK
      <4>2. jobs'[u] = jobs[u] /\ calls'[u] = calls[u]  BY <1>2, <3>2 DEF Same
      <4>q. QED  BY <4>1, <4>2
    <3>q. QED  BY <3>1, <3>2
  <2>q. QED  BY <1>0, <1>1, <2>1, <2>2, <2>4, <2>5 DEF TypeOK
<1>5. Here(t)'
  <2>1. InLine(t)' /\ Places(t)'  BY <1>3 DEF InLine, Places
  <2>2. Alone(t)' /\ Together(t)' /\ Started(t)' /\ Complete(t)'
    BY <1>3 DEF Alone, Together, Started, Complete
  <2>3. Election(t)' /\ Channel(t)' /\ Stopped(t)'
    BY <1>2, <1>3 DEF Election, Channel, Stopped
  <2>q. QED  BY <2>1, <2>2, <2>3 DEF Here, TabOK
<1>6. ASSUME NEW u \in Tabs \ {t}  PROVE Here(u)'
  <2>1. Here(u)  BY DEF IInv, Here
  <2>q. QED  BY <1>1, <1>2, <2>1, OtherTabs
<1>7. \A u \in Tabs : Here(u)'  BY <1>5, <1>6
<1>q. QED  BY <1>4, <1>7 DEF IInv, Here

-------------------------------------------------------------------------------
(* The specification. *)

\* The invariant holds when the tabs are opened.
LEMMA InitIInv == ServicesAssumption /\ Init => IInv
<1> SUFFICES ASSUME ServicesAssumption, Init  PROVE IInv
  OBVIOUS
<1>1. TypeOK
  <2>1. \A S : <<>> \in Seq(S)  OBVIOUS
  <2>2. made \in 0 .. MaxCalls  BY DEF Init, ServicesAssumption
  <2>q. QED  BY <2>1, <2>2 DEF Init, TypeOK
<1>2. ASSUME NEW t \in Tabs  PROVE InLine(t) /\ Places(t) /\ TabOK(t)
  <2>1. /\ DOMAIN calls[t] = {} /\ DOMAIN jobs[t] = {}
        /\ running[t] = {} /\ ~started[t] /\ ~watching[t]
        /\ elector[t] = "none" /\ ears[t] = {}
    BY DEF Init
  <2>2. InLine(t) /\ Places(t)  BY <2>1 DEF InLine, Places
  <2>3. Alone(t) /\ Together(t) /\ Started(t) /\ Complete(t)
    BY <2>1 DEF Alone, Together, Started, Complete
  <2>4. Election(t) /\ Channel(t) /\ Stopped(t)
    BY <2>1 DEF Election, Channel, Stopped
  <2>q. QED  BY <2>2, <2>3, <2>4 DEF TabOK
<1>q. QED  BY <1>1, <1>2 DEF IInv

\* Every step keeps it.
LEMMA StepIInv == ServicesAssumption /\ IInv /\ [Next]_vars => IInv'
<1> SUFFICES ASSUME ServicesAssumption, IInv, [Next]_vars  PROVE IInv'
  OBVIOUS
<1>1. CASE UNCHANGED vars
  <2>1. ASSUME NEW u \in Tabs  PROVE Here(u)'
    <3>1. Here(u)  BY DEF IInv, Here
    <3>2. Same(u) /\ options' = options  BY <1>1 DEF vars, Same
    <3>q. QED  BY <3>1, <3>2, OtherTabs
  <2>2. TypeOK'  BY <1>1 DEF IInv, TypeOK, vars
  <2>q. QED  BY <2>1, <2>2 DEF IInv, Here
<1>2. CASE Next
  <2>1. PICK t \in Tabs : \/ Start(t) \/ Stop(t)
                          \/ Continue(t)
                          \/ \E c \in DOMAIN calls[t] : Closed(t, c)
                          \/ GainsLeadership(t)
                          \/ Unload(t)
    BY <1>2 DEF Next
  <2>2. CASE Start(t)  BY <2>2, StartSteps
  <2>3. CASE Stop(t)  BY <2>3, StopSteps
  <2>4. CASE Continue(t)  BY <2>4, ContinueSteps
  <2>5. CASE \E c \in DOMAIN calls[t] : Closed(t, c)  BY <2>5, ClosedSteps
  <2>6. CASE GainsLeadership(t)  BY <2>6, LeaderSteps
  <2>7. CASE Unload(t)  BY <2>7, UnloadSteps
  <2>q. QED  BY <2>1, <2>2, <2>3, <2>4, <2>5, <2>6, <2>7
<1>q. QED  BY <1>1, <1>2

\* In every tab the queue holds the calls that wait for a microtask, and a tab
\* whose calls do not overlap is in order at every await (lib/core/ServiceManager).
THEOREM Invariant == ServicesAssumption => (Spec => []IInv)
<1> SUFFICES ASSUME ServicesAssumption  PROVE Spec => []IInv
  OBVIOUS
<1>1. Init => IInv  BY InitIInv
<1>2. IInv /\ [Next]_vars => IInv'  BY StepIInv
<1>q. QED  BY <1>1, <1>2, PTL DEF Spec

\* Every variable keeps its type, and only calls that were made are in a queue.
THEOREM TypeCorrect == ServicesAssumption => (Spec => []TypeOK)
<1>1. IInv => TypeOK  BY DEF IInv
<1>q. QED  BY <1>1, Invariant, PTL

\* With syncStorage an AutoRenewService runs in the leading tab, or in one whose
\* calls overlapped (AutoRenewService.requiresLeadership).
THEOREM LeaderRenews == ServicesAssumption => (Spec => []OnlyLeaderRenews)
<1>1. IInv => OnlyLeaderRenews
  <2> SUFFICES ASSUME IInv, "syncStorage" \in options, NEW t \in Tabs,
                      "autoRenew" \in running[t], ~overlap[t]
               PROVE  Leads(t)
    BY Zenon DEF OnlyLeaderRenews
  <2>1. TabOK(t)  BY DEF IInv
  <2>q. QED  BY <2>1 DEF TabOK, Election
<1>q. QED  BY <1>1, Invariant, PTL

\* A set of places in a sequence has a last one.
LEMMA MaxIsLast ==
    ASSUME NEW n \in Nat, NEW S \in SUBSET (1 .. n), S # {}
    PROVE  Max(S) \in S /\ \A i \in S : i <= Max(S)
<1> DEFINE R == OpToRel(<, Nat)
           T == {n - i : i \in S}
<1>1. T \subseteq Nat /\ T # {}
  <2>1. ASSUME NEW i \in S  PROVE n - i \in Nat  OBVIOUS
  <2>2. T \subseteq Nat  BY <2>1
  <2>3. PICK i \in S : TRUE  OBVIOUS
  <2>4. n - i \in T  BY <2>3
  <2>q. QED  BY <2>2, <2>4
<1>2. \E x \in T : \A y \in T : ~(<<y, x>> \in R)
  <2>1. IsWellFoundedOn(R, Nat)  BY NatLessThanWellFounded
  <2> HIDE DEF R, T
  <2>q. QED  BY <1>1, <2>1, WFMin
<1>3. PICK x \in T : \A y \in T : ~(<<y, x>> \in R)
  BY <1>2
<1>4. \A y \in T : ~(y < x)
  BY <1>1, <1>3 DEF OpToRel
<1>5. PICK m \in S : x = n - m
  OBVIOUS
<1>6. \A i \in S : m >= i
  <2> SUFFICES ASSUME NEW i \in S  PROVE m >= i
    OBVIOUS
  <2>1. n - i \in T  OBVIOUS
  <2>2. ~(n - i < n - m)  BY <1>4, <1>5, <2>1
  <2>q. QED  BY <2>2
<1>7. Max(S) \in S /\ \A i \in S : Max(S) >= i
  BY <1>6 DEF Max
<1>q. QED  BY <1>7

\* LastCall finds the last call of the application, and 0 if there is none.
LEMMA LastCallIs ==
    ASSUME TypeOK, NEW t \in Tabs
    PROVE  \/ LastCall(t) = 0 /\ \A c \in DOMAIN calls[t] : Op(t, c) = "lead"
           \/ LastCall(t) # 0 /\ IsLast(t, LastCall(t))
<1>1. calls[t] \in Seq(Calls)  BY DEF TypeOK
<1>2. Len(calls[t]) \in Nat /\ DOMAIN calls[t] = 1 .. Len(calls[t])  BY <1>1
<1> DEFINE I == {i \in 1 .. Len(calls[t]) : calls[t][i].op # "lead"}
<1>3. LastCall(t) = IF I # {} THEN Max(I) ELSE 0
  BY DEF LastCall, SelectLastInSeq
<1>4. CASE I = {}
  BY <1>2, <1>3, <1>4 DEF Op
<1>5. CASE I # {}
  <2>1. I \in SUBSET (1 .. Len(calls[t]))  OBVIOUS
  <2>2. Max(I) \in I /\ \A i \in I : i <= Max(I)
    <3> HIDE DEF I
    <3>q. QED  BY <1>2, <1>5, <2>1, MaxIsLast
  <2>3. LastCall(t) = Max(I)  BY <1>3, <1>5
  <2>q. QED  BY <1>2, <2>2, <2>3 DEF IsLast, Op
<1>q. QED  BY <1>4, <1>5

\* When calls do not overlap, the last one decides what runs: after a start() that
\* is all that can, after a stop() it is nothing (start, stop of lib/core/mixin).
THEOREM LastDecides == ServicesAssumption => (Spec => []LastCallDecides)
<1>1. IInv => LastCallDecides
  <2> SUFFICES ASSUME IInv, NEW t \in Tabs, Idle(t), calls[t] # <<>>, ~overlap[t]
               PROVE  IF LastCall(t) # 0 /\ calls[t][LastCall(t)].op = "start"
                      THEN /\ started[t] /\ watching[t]
                           /\ \A i \in 1 .. 4 : ~CanStartService(t, Services[i])
                           /\ "current" \in ears[t] <=> "syncStorage" \in options
                      ELSE /\ ~started[t] /\ ~watching[t]
                           /\ running[t] = {} /\ ears[t] = {} /\ elector[t] = "none"
    BY DEF LastCallDecides
  <2>1. TypeOK /\ TabOK(t)  BY DEF IInv
  <2>2. \A c \in DOMAIN calls[t] : At(t, c) = 0
    BY DEF Idle, At, Over
  <2>3. ears[t] = IF "syncStorage" \in running[t] THEN {"current"} ELSE {}
    BY <2>1, <2>2 DEF TabOK, Channel, Closing
  <2>4. CASE LastCall(t) # 0 /\ calls[t][LastCall(t)].op = "start"
    <3>1. PICK l \in DOMAIN calls[t] : l = LastCall(t) /\ IsLast(t, l) /\ Op(t, l) = "start"
      BY <2>1, <2>4, LastCallIs DEF IsLast, Op
    <3>2. started[t] /\ watching[t]
      BY <2>1, <2>2, <3>1 DEF TabOK, Started, Over, Watch
    <3>3. Done(t, 5)
      BY <2>1, <2>2, <3>1 DEF TabOK, Complete
    <3>4. \A i \in 1 .. 4 : ~CanStartService(t, Services[i])
      BY <3>3 DEF Done
    <3>5. "syncStorage" \in running[t] <=> "syncStorage" \in options
      <4>1. ~CanStartService(t, "syncStorage")
        BY <3>4, ServicesAre
      <4>2. "syncStorage" \in options => "syncStorage" \in running[t]
        BY <4>1 DEF CanStartService, CanStart, RequiresLeadership
      <4>q. QED  BY <2>1, <4>2 DEF TabOK, Channel
    <3>q. QED  BY <2>3, <2>4, <3>2, <3>4, <3>5
  <2>5. CASE ~(LastCall(t) # 0 /\ calls[t][LastCall(t)].op = "start")
    <3>1. \A c \in DOMAIN calls[t] : IsLast(t, c) => Op(t, c) = "stop"
      <4> SUFFICES ASSUME NEW c \in DOMAIN calls[t], IsLast(t, c)
                   PROVE  Op(t, c) = "stop"
        OBVIOUS
      <4>1. Op(t, c) \in {"start", "stop"}
        <5>1. Places(t)  BY DEF IInv
        <5>q. QED  BY <2>1, <5>1, CallsAre DEF IsLast
      <4>2. LastCall(t) # 0 /\ IsLast(t, LastCall(t))
        BY <2>1, LastCallIs DEF IsLast
      <4>3. LastCall(t) = c
        <5>1. Places(t)  BY DEF IInv
        <5>2. DOMAIN calls[t] \subseteq Nat  BY <2>1, <5>1, CallsAre
        <5>q. QED  BY <4>2, <5>2, LastIsOne
      <4>q. QED  BY <2>5, <4>1, <4>2, <4>3 DEF Op
    <3>2. ~started[t] /\ ~watching[t] /\ running[t] = {}
      BY <2>1, <2>2, <3>1 DEF TabOK, Stopped, Over
    <3>3. elector[t] = "none"
      BY <2>1, <3>2 DEF TabOK, Election
    <3>q. QED  BY <2>3, <2>5, <3>2, <3>3
  <2>q. QED  BY <2>4, <2>5
<1>q. QED  BY <1>1, Invariant, PTL
===============================================================================
