----------------------------- MODULE SignInProofs -----------------------------
(* What holds of the ways to sign in for any number of tabs, calls,             *)
(* interactions, key pairs and transactions: the modules that MCSignIn runs one *)
(* at a time.  A step of it is a step of one and leaves the variables of the    *)
(* others alone, so each is proved about on its own.                            *)
EXTENDS MCSignIn, TLAPS, SequenceTheorems

-------------------------------------------------------------------------------
(* IdxTransactions.  That nothing of a finished interaction comes back needs to *)
(* know that no call still holds it, and that interactions are numbered in the  *)
(* order they are begun, so that a new one is never a finished one.             *)

IdxRuns == [stage : {"none", "interact", "introspect", "remediate", "exchange"},
            tab : Tabs, op : {"start", "run", "cancel"},
            meta : IT!Interactions, code : IT!Interactions]

Sound(r) == /\ r \in IdxRuns
            /\ r.stage \in {"remediate", "exchange"} => r.code = r.meta
            /\ r.stage \in {"introspect", "remediate", "exchange"} => r.meta # 0
            /\ r.meta <= begun
            /\ r.meta \notin gone

\* An interaction that was begun and is not over, or none.
Begun(i) == i \in IT!Interactions /\ i <= begun /\ i \notin gone

IdxInv == /\ begun \in IT!Interactions
          /\ runs \in 0 .. MaxRuns
          /\ gone \subseteq 1 .. begun
          /\ run \in [Calls -> IdxRuns]
          /\ \A c \in Calls : Sound(run[c])
          /\ session \in [Tabs -> IT!Interactions]
          /\ response \in [Tabs -> IT!Interactions]
          /\ shared \subseteq 1 .. MaxInteractions
          /\ \A t \in Tabs : Begun(session[t]) /\ response[t] \notin gone
          /\ \A i \in shared : Begun(i)

\* The invariant says what is claimed.
LEMMA IdxInvSays == IdxInv => IT!TypeOK /\ IT!CodeWithItsVerifier /\ IT!FinishedLeavesNothing
<1> SUFFICES ASSUME IdxInv
             PROVE  IT!TypeOK /\ IT!CodeWithItsVerifier /\ IT!FinishedLeavesNothing
  OBVIOUS
<1>1. gone \subseteq 1 .. MaxInteractions
  BY BoundsAssumption DEF IdxInv, IT!Interactions
<1>2. IT!TypeOK  BY <1>1 DEF IdxInv, IT!TypeOK, IdxRuns
<1>3. IT!CodeWithItsVerifier  BY DEF IdxInv, Sound, IT!CodeWithItsVerifier
<1>4. IT!FinishedLeavesNothing  BY DEF IdxInv, Begun, IT!FinishedLeavesNothing
<1>q. QED  BY <1>2, <1>3, <1>4

\* No call is sound at all times.
LEMMA NoRunSound ==
    ASSUME begun \in Nat, gone \subseteq 1 .. begun
    PROVE  Sound(IT!NoRun)
<1>1. (CHOOSE t \in Tabs : TRUE) \in Tabs  BY BoundsAssumption
<1>2. 0 \in IT!Interactions  BY BoundsAssumption DEF IT!Interactions
<1>3. 0 \notin gone /\ 0 <= begun  OBVIOUS
<1>q. QED  BY <1>1, <1>2, <1>3 DEF IT!NoRun, Sound, IdxRuns

\* The invariant holds at first.
LEMMA IdxInit == IT!Init => IdxInv
<1> SUFFICES ASSUME IT!Init  PROVE IdxInv
  OBVIOUS
<1>1. begun = 0 /\ gone = {} /\ 0 \in IT!Interactions /\ runs \in 0 .. MaxRuns
  BY BoundsAssumption DEF IT!Init, IT!Interactions
<1>2. Sound(IT!NoRun)  BY <1>1, NoRunSound
<1>3. IT!NoRun \in IdxRuns  BY <1>2 DEF Sound
<1>4. Begun(0)  BY <1>1 DEF Begun
<1>q. QED  BY <1>1, <1>2, <1>3, <1>4 DEF IT!Init, IdxInv

\* A call goes on, soundly, and no interaction ends.
LEMMA IdxGoesOn ==
    ASSUME IdxInv, NEW c \in Calls, NEW r, Sound(r),
           run' = [run EXCEPT ![c] = r],
           begun' = begun, gone' = gone
    PROVE  run' \in [Calls -> IdxRuns] /\ \A d \in Calls : Sound(run[d])'
<1>1. run' \in [Calls -> IdxRuns]  BY DEF IdxInv, Sound
<1>2. \A d \in Calls : run'[d] = IF d = c THEN r ELSE run[d]  BY DEF IdxInv
<1>3. ASSUME NEW d \in Calls  PROVE Sound(run[d])'
  <2>1. Sound(run[d])  BY DEF IdxInv
  <2>q. QED  BY <1>2, <2>1 DEF Sound
<1>q. QED  BY <1>1, <1>3

\* introspect() of a saved interaction is sound.
LEMMA IntrospectSound ==
    ASSUME IdxInv, NEW c \in Calls, NEW t \in Tabs, NEW op \in {"run", "cancel"},
           NEW i, Begun(i), i # 0, IT!Introspect(c, t, op, i)
    PROVE  \E r : Sound(r) /\ run' = [run EXCEPT ![c] = r]
<1>1. 0 \in IT!Interactions  BY BoundsAssumption DEF IT!Interactions
<1>2. CASE response[t] = i
  <2> DEFINE r == [stage |-> "remediate", tab |-> t, op |-> op, meta |-> i, code |-> i]
  <2>1. Sound(r)  BY <1>1 DEF Begun, Sound, IdxRuns
  <2>2. run' = [run EXCEPT ![c] = r]  BY <1>2 DEF IT!Introspect, IT!Under
  <2>q. QED  BY <2>1, <2>2
<1>3. CASE response[t] # i
  <2> DEFINE r == [stage |-> "introspect", tab |-> t, op |-> op, meta |-> i, code |-> 0]
  <2>1. Sound(r)  BY <1>1 DEF Begun, Sound, IdxRuns
  <2>2. run' = [run EXCEPT ![c] = r]  BY <1>3 DEF IT!Introspect, IT!Under
  <2>q. QED  BY <2>1, <2>2
<1>q. QED  BY <1>2, <1>3

\* What clear() leaves of the storages.
LEMMA IdxClears ==
    ASSUME IdxInv, NEW t \in Tabs, NEW keepShared \in BOOLEAN, IT!Clear(t, keepShared)
    PROVE  /\ session' \in [Tabs -> IT!Interactions]
           /\ response' \in [Tabs -> IT!Interactions]
           /\ shared' \subseteq shared
           /\ ~keepShared => session[t] \notin shared'
           /\ session'[t] = 0 /\ response'[t] = 0
           /\ \A u \in Tabs \ {t} : session'[u] = session[u] /\ response'[u] = response[u]
<1>1. 0 \in IT!Interactions  BY BoundsAssumption DEF IT!Interactions
<1>2. /\ session' = [session EXCEPT ![t] = 0]
      /\ response' = [response EXCEPT ![t] = 0]
      /\ shared' = IF keepShared THEN shared ELSE shared \ {session[t]}
  BY DEF IT!Clear
<1>q. QED  BY <1>1, <1>2 DEF IdxInv

\* A call of the application that clears what is saved keeps the invariant.
LEMMA IdxBegins ==
    ASSUME IdxInv, NEW c \in Calls, NEW t \in Tabs, NEW op \in {"start", "run"},
           IT!NewRun(c), IT!Clear(t, FALSE), IT!Under(c, "interact", t, op, 0, 0),
           begun' = begun, gone' = gone
    PROVE  IdxInv'
<1> DEFINE r == [stage |-> "interact", tab |-> t, op |-> op, meta |-> 0, code |-> 0]
<1>1. 0 \in IT!Interactions /\ begun \in Nat /\ 0 \notin gone
  BY BoundsAssumption DEF IT!Interactions, IdxInv
<1>2. Sound(r)  BY <1>1 DEF Sound, IdxRuns
<1>3. run' = [run EXCEPT ![c] = r]  BY DEF IT!Under
<1>4. run' \in [Calls -> IdxRuns] /\ \A d \in Calls : Sound(run[d])'
  <2> HIDE DEF r
  <2>q. QED  BY <1>2, <1>3, IdxGoesOn
<1>5. /\ session' \in [Tabs -> IT!Interactions]
      /\ response' \in [Tabs -> IT!Interactions]
      /\ shared' \subseteq shared
      /\ session'[t] = 0 /\ response'[t] = 0
      /\ \A u \in Tabs \ {t} : session'[u] = session[u] /\ response'[u] = response[u]
  BY IdxClears
<1>6. runs' \in 0 .. MaxRuns  BY BoundsAssumption DEF IdxInv, IT!NewRun
<1>7. \A u \in Tabs : Begun(session[u])' /\ response'[u] \notin gone'
  BY <1>1, <1>5 DEF IdxInv, Begun
<1>8. shared' \subseteq 1 .. MaxInteractions /\ \A i \in shared' : Begun(i)'
  BY <1>5 DEF IdxInv, Begun
<1>q. QED  BY <1>4, <1>5, <1>6, <1>7, <1>8 DEF IdxInv

\* A call of the application that resumes what is saved keeps the invariant.
LEMMA IdxResumes ==
    ASSUME IdxInv, NEW c \in Calls, NEW t \in Tabs, NEW op \in {"run", "cancel"},
           NEW i, Begun(i), i # 0, IT!NewRun(c), IT!Introspect(c, t, op, i),
           UNCHANGED <<session, response, shared, begun, gone>>
    PROVE  IdxInv'
<1>1. PICK r : Sound(r) /\ run' = [run EXCEPT ![c] = r]  BY IntrospectSound
<1>2. run' \in [Calls -> IdxRuns] /\ \A d \in Calls : Sound(run[d])'
  BY <1>1, IdxGoesOn
<1>3. runs' \in 0 .. MaxRuns  BY BoundsAssumption DEF IdxInv, IT!NewRun
<1>q. QED  BY <1>2, <1>3 DEF IdxInv, Begun

\* What Ends, Save and the requests do to a call keeps it sound.
LEMMA IdxEnds ==
    ASSUME IdxInv, NEW c \in Calls, IT!Ends(c), begun' = begun, gone' = gone
    PROVE  run' \in [Calls -> IdxRuns] /\ \A d \in Calls : Sound(run[d])'
<1>1. begun \in Nat /\ gone \subseteq 1 .. begun
  BY BoundsAssumption DEF IdxInv, IT!Interactions
<1>q. QED  BY <1>1, NoRunSound, IdxGoesOn DEF IT!Ends

\* A run that ends and clears keeps the invariant, whether its interaction is
\* finished for good or another call or tab has it.
LEMMA IdxEndsClearing ==
    ASSUME IdxInv, NEW c \in Calls, NEW keepShared \in BOOLEAN,
           run[c].stage \in {"remediate", "exchange"},
           IT!EndsClearing(c, keepShared), begun' = begun, runs' = runs
    PROVE  IdxInv'
<1>1. PICK t \in Tabs : t = run[c].tab
  BY DEF IdxInv, IdxRuns
<1>2. PICK i : i = run[c].meta
  OBVIOUS
<1>3. /\ IT!Clear(t, keepShared)
      /\ run' = [run EXCEPT ![c] = IT!NoRun]
      /\ gone' = IF IT!Only(c, i) /\ ~keepShared THEN gone \cup {i} ELSE gone
  BY <1>1, <1>2 DEF IT!EndsClearing, IT!Ends
<1>4. /\ begun \in Nat /\ gone \subseteq 1 .. begun
      /\ i \in Nat /\ i # 0 /\ i <= begun
  BY <1>2, BoundsAssumption DEF IdxInv, Sound, IT!Interactions, IdxRuns
<1>5. /\ session' \in [Tabs -> IT!Interactions]
      /\ response' \in [Tabs -> IT!Interactions]
      /\ shared' \subseteq shared
      /\ ~keepShared => session[t] \notin shared'
      /\ session'[t] = 0 /\ response'[t] = 0
      /\ \A u \in Tabs \ {t} : session'[u] = session[u] /\ response'[u] = response[u]
  BY <1>3, IdxClears
<1>6. gone' \subseteq 1 .. begun'  BY <1>3, <1>4
<1>7. gone' \subseteq gone \cup {i}  BY <1>3
<1>8. CASE gone' = gone
  <2>1. run' \in [Calls -> IdxRuns] /\ \A d \in Calls : Sound(run[d])'
    BY <1>8, IdxEnds DEF IT!EndsClearing
  <2>2. \A u \in Tabs : Begun(session[u])' /\ response'[u] \notin gone'
    BY <1>4, <1>5, <1>8, BoundsAssumption DEF IdxInv, Begun, IT!Interactions
  <2>3. shared' \subseteq 1 .. MaxInteractions /\ \A j \in shared' : Begun(j)'
    BY <1>5, <1>8 DEF IdxInv, Begun
  <2>q. QED  BY <1>5, <1>6, <2>1, <2>2, <2>3 DEF IdxInv
<1>9. CASE gone' = gone \cup {i} /\ IT!Only(c, i) /\ ~keepShared
  <2>1. /\ session[t] = i
        /\ \A u \in Tabs \ {t} : session[u] # i /\ response[u] # i
        /\ \A d \in Calls \ {c} : run[d].meta # i
    BY <1>1, <1>9 DEF IT!Only
  <2>2. Sound(IT!NoRun)'
    <3>1. Sound(IT!NoRun)  BY <1>4, NoRunSound
    <3>2. IT!NoRun.meta = 0  BY DEF IT!NoRun
    <3>q. QED  BY <1>4, <1>6, <3>1, <3>2 DEF Sound
  <2>3. ASSUME NEW d \in Calls  PROVE Sound(run[d])'
    <3>1. CASE d = c
      <4>1. run'[d] = IT!NoRun  BY <1>3, <3>1 DEF IdxInv
      <4>q. QED  BY <2>2, <4>1 DEF Sound
    <3>2. CASE d # c
      <4>1. run'[d] = run[d] /\ run[d].meta # i /\ Sound(run[d])
        BY <1>3, <2>1, <3>2 DEF IdxInv
      <4>q. QED  BY <1>7, <4>1 DEF Sound
    <3>q. QED  BY <3>1, <3>2
  <2>4. run' \in [Calls -> IdxRuns]
    <3>1. IT!NoRun \in IdxRuns  BY <2>2 DEF Sound, IT!NoRun
    <3>q. QED  BY <1>3, <3>1 DEF IdxInv
  <2>5. \A u \in Tabs : Begun(session[u])' /\ response'[u] \notin gone'
    BY <1>4, <1>5, <1>6, <1>9, <2>1, BoundsAssumption DEF IdxInv, Begun, IT!Interactions
  <2>6. shared' \subseteq 1 .. MaxInteractions /\ \A j \in shared' : Begun(j)'
    BY <1>5, <1>9, <2>1 DEF IdxInv, Begun
  <2>q. QED  BY <1>5, <1>6, <2>3, <2>4, <2>5, <2>6 DEF IdxInv
<1>q. QED  BY <1>3, <1>8, <1>9

\* A run that saves the interaction it holds and ends keeps the invariant.
LEMMA IdxSaves ==
    ASSUME IdxInv, NEW c \in Calls, run[c].stage = "remediate",
           NEW saveResponse \in BOOLEAN,
           IT!Save(run[c].tab, run[c].meta, run[c].code, saveResponse),
           IT!Ends(c), begun' = begun, runs' = runs, gone' = gone
    PROVE  IdxInv'
<1>1. PICK t \in Tabs, i \in IT!Interactions :
          t = run[c].tab /\ i = run[c].meta /\ i = run[c].code /\ Begun(i) /\ i # 0
  BY DEF IdxInv, IdxRuns, Sound, Begun
<1>2. /\ session' = [session EXCEPT ![t] = i]
      /\ shared' = shared \cup {i}
      /\ response' = [response EXCEPT ![t] = IF saveResponse THEN i ELSE @]
  BY <1>1 DEF IT!Save
<1>3. run' \in [Calls -> IdxRuns] /\ \A d \in Calls : Sound(run[d])'
  BY IdxEnds
<1>4. i \in 1 .. MaxInteractions
  BY <1>1, BoundsAssumption DEF IT!Interactions
<1>q. QED  BY <1>1, <1>2, <1>3, <1>4 DEF IdxInv, Begun

\* Every step of a call of authClient.idx keeps the invariant.
LEMMA IdxStep == IdxInv /\ [IT!Next]_idxVars => IdxInv'
<1> SUFFICES ASSUME IdxInv, [IT!Next]_idxVars  PROVE IdxInv'
  OBVIOUS
<1>0. /\ begun \in Nat /\ gone \subseteq 1 .. begun /\ 0 \in IT!Interactions
      /\ \A c \in Calls : run[c] \in IdxRuns
  BY BoundsAssumption DEF IdxInv, IT!Interactions
<1>1. CASE UNCHANGED idxVars
  BY <1>1 DEF IdxInv, idxVars, Sound, Begun
<1>2. ASSUME NEW c \in Calls, NEW t \in Tabs, IT!StartTransaction(c, t)  PROVE IdxInv'
  BY <1>2, IdxBegins DEF IT!StartTransaction
<1>3. ASSUME NEW c \in Calls, NEW t \in Tabs, IT!Authenticate(c, t)  PROVE IdxInv'
  <2>1. Begun(session[t])  BY DEF IdxInv
  <2>2. CASE session[t] # 0 /\ IT!Introspect(c, t, "run", session[t]) /\ UNCHANGED IT!storages
    BY <1>3, <2>1, <2>2, IdxResumes DEF IT!Authenticate, IT!storages
  <2>3. CASE IT!Clear(t, FALSE) /\ IT!Under(c, "interact", t, "run", 0, 0)
    BY <1>3, <2>3, IdxBegins DEF IT!Authenticate
  <2>q. QED  BY <1>3, <2>2, <2>3 DEF IT!Authenticate
<1>4. ASSUME NEW c \in Calls, NEW t \in Tabs, NEW i \in IT!Interactions,
             IT!Proceed(c, t, i)
      PROVE  IdxInv'
  <2>1. PICK j : j = IT!Saved(t, i)  OBVIOUS
  <2>2. Begun(j) /\ j # 0
    BY <1>4, <2>1 DEF IT!Proceed, IT!Saved, IdxInv
  <2>q. QED  BY <1>4, <2>1, <2>2, IdxResumes DEF IT!Proceed, IT!storages
<1>5. ASSUME NEW c \in Calls, NEW t \in Tabs, IT!Cancel(c, t)  PROVE IdxInv'
  <2>1. Begun(session[t])  BY DEF IdxInv
  <2>q. QED  BY <1>5, <2>1, IdxResumes DEF IT!Cancel, IT!storages
<1>6. ASSUME NEW c \in Calls, IT!Rejects(c)  PROVE IdxInv'
  <2>1. run' \in [Calls -> IdxRuns] /\ \A d \in Calls : Sound(run[d])'
    BY <1>6, IdxEnds DEF IT!Rejects
  <2>q. QED  BY <1>6, <2>1 DEF IT!Rejects, IT!storages, IdxInv, Begun
<1>7. ASSUME NEW c \in Calls, IT!Interacted(c)  PROVE IdxInv'
  <2>1. PICK t \in Tabs, i \in IT!Interactions :
            t = run[c].tab /\ i = begun + 1 /\ begun' = i /\ i # 0
    <3>1. begun + 1 \in IT!Interactions
      BY <1>0, <1>7, BoundsAssumption DEF IT!Interacted, IT!Interactions
    <3>q. QED  BY <1>0, <1>7, <3>1 DEF IT!Interacted, IdxRuns
  <2>2. /\ session' = [session EXCEPT ![t] = i]
        /\ shared' = shared \cup {i}
        /\ response' = response
        /\ run' = [run EXCEPT ![c] = [stage |-> "introspect", tab |-> t,
                                      op |-> run[c].op, meta |-> i, code |-> 0]]
        /\ runs' = runs /\ gone' = gone
    BY <1>7, <2>1 DEF IT!Interacted, IT!Save, IT!Under, IdxInv
  <2>3. i \notin gone /\ begun <= i /\ begun' \in Nat
    BY <1>0, <2>1
  <2>4. ASSUME NEW j, Begun(j)  PROVE Begun(j)'
    BY <1>0, <2>1, <2>2, <2>4, BoundsAssumption DEF Begun, IT!Interactions
  <2>5. \A d \in Calls : Sound(run[d])'
    <3> DEFINE r == [stage |-> "introspect", tab |-> t, op |-> run[c].op,
                     meta |-> i, code |-> 0]
    <3>1. r \in IdxRuns  BY <1>0, <2>1 DEF IdxRuns
    <3>2. ASSUME NEW d \in Calls  PROVE Sound(run[d])'
      <4>1. CASE d = c
        <5>1. run'[d] = r  BY <2>2, <4>1 DEF IdxInv
        <5>q. QED  BY <1>0, <2>1, <2>2, <2>3, <3>1, <5>1, BoundsAssumption
                   DEF Sound, IT!Interactions
      <4>2. CASE d # c
        <5>1. run'[d] = run[d] /\ Sound(run[d])  BY <2>2, <4>2 DEF IdxInv
        <5>2. run[d].meta \in Nat
          BY <1>0, BoundsAssumption DEF IdxRuns, IT!Interactions
        <5>3. run[d].meta <= begun'  BY <1>0, <2>1, <5>1, <5>2 DEF Sound
        <5>q. QED  BY <2>2, <5>1, <5>3 DEF Sound
      <4>q. QED  BY <4>1, <4>2
    <3>q. QED  BY <3>2
  <2>6. run' \in [Calls -> IdxRuns]
    BY <1>0, <2>1, <2>2 DEF IdxInv, IdxRuns
  <2>7. Begun(i)'  BY <2>1, <2>2, <2>3 DEF Begun
  <2>8. \A u \in Tabs : session'[u] = IF u = t THEN i ELSE session[u]
    BY <2>2 DEF IdxInv
  <2>9. \A u \in Tabs : Begun(session[u])'
    BY <2>4, <2>7, <2>8 DEF IdxInv, Begun
  <2>10. \A j \in shared' : Begun(j)'
    BY <2>2, <2>4, <2>7 DEF IdxInv, Begun
  <2>11. /\ session' \in [Tabs -> IT!Interactions]
         /\ shared' \subseteq 1 .. MaxInteractions
         /\ gone' \subseteq 1 .. begun'
    BY <1>0, <2>1, <2>2, <2>3, BoundsAssumption DEF IdxInv, IT!Interactions
  <2>q. QED  BY <2>1, <2>2, <2>5, <2>6, <2>9, <2>10, <2>11 DEF IdxInv
<1>8. ASSUME NEW c \in Calls, IT!Introspected(c)  PROVE IdxInv'
  <2> DEFINE r == [run[c] EXCEPT !.stage = "remediate", !.code = run[c].meta]
  <2>1. Sound(run[c])  BY DEF IdxInv
  <2>2. Sound(r)  BY <1>8, <2>1 DEF Sound, IdxRuns, IT!Introspected
  <2>3. run' = [run EXCEPT ![c] = r]  BY <1>8 DEF IT!Introspected, IdxInv
  <2> HIDE DEF r
  <2>4. run' \in [Calls -> IdxRuns] /\ \A d \in Calls : Sound(run[d])'
    BY <1>8, <2>2, <2>3, IdxGoesOn DEF IT!Introspected
  <2>q. QED  BY <1>8, <2>4 DEF IT!Introspected, IT!storages, IdxInv, Begun
<1>9. ASSUME NEW c \in Calls, IT!StaysPending(c)  PROVE IdxInv'
  BY <1>9, IdxSaves DEF IT!StaysPending
<1>10. ASSUME NEW c \in Calls, IT!EndsHere(c)  PROVE IdxInv'
  BY <1>10, IdxEndsClearing DEF IT!EndsHere
<1>11. ASSUME NEW c \in Calls, IT!Canceled(c)  PROVE IdxInv'
  BY <1>11, IdxEndsClearing DEF IT!Canceled
<1>12. ASSUME NEW c \in Calls, IT!GetsCode(c)  PROVE IdxInv'
  <2>1. CASE run[c].op = "start"
    BY <1>12, <2>1, IdxSaves DEF IT!GetsCode
  <2>2. CASE run[c].op # "start"
    <3> DEFINE r == [run[c] EXCEPT !.stage = "exchange"]
    <3>1. Sound(run[c])  BY DEF IdxInv
    <3>2. Sound(r)  BY <1>12, <3>1 DEF Sound, IdxRuns, IT!GetsCode
    <3>3. run' = [run EXCEPT ![c] = r]  BY <1>12, <2>2 DEF IT!GetsCode, IdxInv
    <3> HIDE DEF r
    <3>4. run' \in [Calls -> IdxRuns] /\ \A d \in Calls : Sound(run[d])'
      BY <1>12, <3>2, <3>3, IdxGoesOn DEF IT!GetsCode
    <3>q. QED  BY <1>12, <2>2, <3>4 DEF IT!GetsCode, IT!storages, IdxInv, Begun
  <2>q. QED  BY <2>1, <2>2
<1>13. ASSUME NEW c \in Calls, IT!Exchanged(c)  PROVE IdxInv'
  BY <1>13, IdxEndsClearing DEF IT!Exchanged
<1>14. ASSUME NEW t \in Tabs, IT!Reload(t)  PROVE IdxInv'
  <2>1. /\ run' = [c \in Calls |-> IF run[c].tab = t THEN IT!NoRun ELSE run[c]]
        /\ response' = [response EXCEPT ![t] = 0]
        /\ UNCHANGED <<session, shared, begun, runs, gone>>
    BY <1>14 DEF IT!Reload
  <2>2. Sound(IT!NoRun)  BY <1>0, NoRunSound
  <2>3. IT!NoRun \in IdxRuns  BY <2>2 DEF Sound
  <2>4. run' \in [Calls -> IdxRuns]  BY <1>0, <2>1, <2>3
  <2>5. ASSUME NEW c \in Calls  PROVE Sound(run[c])'
    <3>1. Sound(run[c])  BY DEF IdxInv
    <3>2. run'[c] \in {run[c], IT!NoRun}  BY <2>1
    <3>q. QED  BY <2>1, <2>2, <3>1, <3>2 DEF Sound
  <2>6. /\ response' \in [Tabs -> IT!Interactions]
        /\ \A u \in Tabs : response'[u] \notin gone
    BY <1>0, <2>1 DEF IdxInv
  <2>q. QED  BY <2>1, <2>4, <2>5, <2>6 DEF IdxInv, Begun
<1>q. QED
  BY <1>1, <1>2, <1>3, <1>4, <1>5, <1>6, <1>7, <1>8, <1>9, <1>10, <1>11, <1>12,
     <1>13, <1>14 DEF IT!Next

-------------------------------------------------------------------------------
(* DPoPKeys.  A stored token comes from a call that asked, so the pair of each  *)
(* such call must be there too, until it is answered; and a pair that is to be  *)
(* deleted after a revocation is nobody's, or excused.                          *)

\* The pairs that may be missing no more, or that nothing is claimed of.
Kept == pairs \cup excused

\* No token is bound to pair p and no call has it.
Unused(p) == p \notin {access, refresh} /\ \A c \in Calls : call[c].pair # p

KeysInv == /\ DK!TypeOK
           /\ DK!BoundTokensUsable
           /\ \A c \in Calls : call[c].stage = "asking" => call[c].pair \in Kept
           /\ \A p \in deleting \ excused : Unused(p)

KeyCalls == [stage : {"none", "finding", "asking"}, renews : BOOLEAN,
             pair : DK!Pairs, nonce : BOOLEAN]

\* The invariant holds at first.
LEMMA KeysInit == DK!Init => KeysInv
BY BoundsAssumption
   DEF DK!Init, KeysInv, DK!TypeOK, DK!BoundTokensUsable, DK!NoCall, DK!Here, DK!Pairs

\* A step that makes no call ask for another pair keeps the invariant, if no pair is
\* lost and the tokens that are stored have theirs.
LEMMA KeysKept ==
    ASSUME KeysInv,
           made' \in DK!Pairs, pairs' \subseteq 1 .. made', excused' \subseteq 1 .. made',
           leaving' \in [stage : {"none", "revoking", "closing"}, pair : DK!Pairs],
           call' \in [Calls -> KeyCalls],
           \A c \in Calls : call'[c].stage = "asking" => call'[c].pair \in Kept',
           {access', refresh'} \subseteq DK!Pairs,
           {access', refresh'} \subseteq Kept' \cup {0},
           deleting' \subseteq 1 .. made',
           \A p \in (deleting \ excused)' : Unused(p)'
    PROVE  KeysInv'
BY DEF KeysInv, DK!TypeOK, DK!BoundTokensUsable, Kept, KeyCalls

\* What is nobody's stays so, if no token or call takes a pair that was not in use.
LEMMA UnusedKept ==
    ASSUME KeysInv, deleting' \subseteq deleting, excused \subseteq excused',
           \A x \in {access', refresh'} \cup {call'[c].pair : c \in Calls} :
              \/ x \in {0, access, refresh} \cup {call[c].pair : c \in Calls}
              \/ x \notin 1 .. made
    PROVE  \A p \in (deleting \ excused)' : Unused(p)'
<1>1. /\ deleting \subseteq 1 .. made
      /\ \A p \in deleting \ excused : Unused(p)
  BY DEF KeysInv, DK!TypeOK
<1>2. SUFFICES ASSUME NEW p \in deleting \ excused  PROVE Unused(p)'
  OBVIOUS
<1>3. Unused(p) /\ p \in 1 .. made /\ p # 0  BY <1>1, <1>2
<1>q. QED  BY <1>3 DEF Unused

\* What is deleted is nobody's, or excused.
LEMMA DeletedIsExcused ==
    ASSUME KeysInv, NEW p \in DK!Pairs, DK!DeleteUnder(p)
    PROVE  /\ pairs' \subseteq 1 .. made /\ excused' \subseteq 1 .. made
           /\ Kept \subseteq Kept' /\ excused \subseteq excused'
BY DEF KeysInv, DK!TypeOK, DK!DeleteUnder, Kept

\* A pair that is to be deleted with the last token that is bound to it is nobody's
\* from then on, or excused.
LEMMA DeletionIsExcused ==
    ASSUME KeysInv, NEW p \in DK!Pairs, DK!Delete(p),
           UNCHANGED <<pairs, made, call, leaving>>,
           {access', refresh'} \subseteq {0} \cup ({access, refresh} \ {p})
    PROVE  KeysInv'
<1>1. /\ made \in DK!Pairs /\ pairs \subseteq 1 .. made /\ excused \subseteq 1 .. made
      /\ deleting \subseteq 1 .. made
      /\ leaving \in [stage : {"none", "revoking", "closing"}, pair : DK!Pairs]
      /\ call \in [Calls -> KeyCalls]
      /\ {access, refresh, 0} \subseteq DK!Pairs
      /\ {access, refresh} \subseteq Kept \cup {0}
      /\ \A c \in Calls : call[c].stage = "asking" => call[c].pair \in Kept
      /\ \A q \in deleting \ excused : Unused(q)
  BY BoundsAssumption DEF KeysInv, DK!TypeOK, DK!BoundTokensUsable, KeyCalls, Kept, DK!Pairs
<1>2. /\ deleting' \subseteq 1 .. made /\ excused' \subseteq 1 .. made
      /\ deleting' \subseteq deleting \cup {p}
      /\ excused \subseteq excused' /\ Kept \subseteq Kept'
      /\ p \in deleting' \ deleting =>
            p \in 1 .. made /\ (p \in excused' \/ \A c \in Calls : call[c].pair # p)
  BY <1>1 DEF DK!Delete, Kept
<1>3. ASSUME NEW q \in (deleting \ excused)'  PROVE Unused(q)'
  <2>1. CASE q \in deleting
    <3>1. Unused(q) /\ q # 0  BY <1>1, <1>2, <1>3, <2>1
    <3>q. QED  BY <3>1 DEF Unused
  <2>2. CASE q \notin deleting
    <3>1. q = p /\ q \in deleting' \ deleting /\ q \notin excused'
      BY <1>2, <1>3, <2>2
    <3>2. q \in 1 .. made /\ \A c \in Calls : call[c].pair # q
      BY <1>2, <3>1
    <3>3. q # 0  BY <3>2
    <3>q. QED  BY <3>1, <3>2, <3>3 DEF Unused
  <2>q. QED  BY <2>1, <2>2
<1>4. {access', refresh'} \subseteq DK!Pairs
      /\ {access', refresh'} \subseteq Kept' \cup {0}
      /\ \A c \in Calls : call'[c].stage = "asking" => call'[c].pair \in Kept'
  BY <1>1, <1>2
<1>q. QED  BY <1>1, <1>2, <1>3, <1>4, KeysKept

\* Every step of a call, a revocation or a signOut() keeps the invariant.
LEMMA KeysStep == KeysInv /\ [DK!Next]_keyVars => KeysInv'
<1> SUFFICES ASSUME KeysInv, [DK!Next]_keyVars  PROVE KeysInv'
  OBVIOUS
<1>0. /\ made \in DK!Pairs /\ pairs \subseteq 1 .. made /\ excused \subseteq 1 .. made
      /\ deleting \subseteq 1 .. made
      /\ leaving \in [stage : {"none", "revoking", "closing"}, pair : DK!Pairs]
      /\ call \in [Calls -> KeyCalls]
      /\ {access, refresh} \subseteq DK!Pairs
      /\ {access, refresh} \subseteq Kept \cup {0}
      /\ \A c \in Calls : call[c].stage = "asking" => call[c].pair \in Kept
      /\ 0 \in DK!Pairs
  BY BoundsAssumption DEF KeysInv, DK!TypeOK, DK!BoundTokensUsable, KeyCalls, Kept, DK!Pairs
<1>1. CASE UNCHANGED keyVars
  BY <1>0, <1>1, UnusedKept, KeysKept DEF keyVars, Kept
<1>2. ASSUME NEW c \in Calls, DK!ExchangeCode(c)  PROVE KeysInv'
  <2> DEFINE r == [stage |-> "asking", renews |-> FALSE, pair |-> made + 1, nonce |-> FALSE]
  <2>1. made + 1 \in DK!Pairs /\ made \in Nat
    BY <1>0, <1>2, BoundsAssumption DEF DK!ExchangeCode, DK!Pairs
  <2>2. /\ made' = made + 1 /\ pairs' = pairs \cup {made + 1}
        /\ call' = [call EXCEPT ![c] = r]
        /\ access' = access /\ refresh' = refresh /\ leaving' = leaving
        /\ excused' = excused /\ deleting' = deleting
    BY <1>2 DEF DK!ExchangeCode, DK!tokens
  <2>3. r \in KeyCalls  BY <2>1 DEF KeyCalls
  <2>4. call' \in [Calls -> KeyCalls]
    <3> HIDE DEF r
    <3>q. QED  BY <1>0, <2>2, <2>3
  <2>5. Kept' = Kept \cup {made + 1}  BY <2>2 DEF Kept
  <2>6. \A d \in Calls : call'[d].stage = "asking" => call'[d].pair \in Kept'
    BY <1>0, <2>2, <2>5
  <2>7. /\ pairs' \subseteq 1 .. made' /\ excused' \subseteq 1 .. made'
        /\ deleting' \subseteq 1 .. made'
    BY <1>0, <2>1, <2>2
  <2>8. \A d \in Calls : call'[d] = call[d] \/ call'[d].pair \notin 1 .. made
    BY <1>0, <2>1, <2>2
  <2>9. \A p \in (deleting \ excused)' : Unused(p)'
    BY <2>2, <2>8, UnusedKept
  <2>q. QED  BY <1>0, <2>1, <2>2, <2>4, <2>5, <2>6, <2>7, <2>9, KeysKept
<1>3. ASSUME NEW c \in Calls, DK!Renew(c)  PROVE KeysInv'
  <2>1. PICK p \in {access, refresh} : call' = [call EXCEPT ![c] =
            [stage |-> "finding", renews |-> TRUE, pair |-> p, nonce |-> FALSE]]
    BY <1>0, <1>3 DEF DK!Renew
  <2>2. call' \in [Calls -> KeyCalls]
    BY <1>0, <2>1 DEF KeyCalls
  <2>3. \A d \in Calls : call'[d].stage = "asking" => call'[d] = call[d]
    BY <1>0, <2>1
  <2>4. UNCHANGED <<access, refresh, pairs, made, deleting, leaving, excused>>
    BY <1>3 DEF DK!Renew, DK!tokens
  <2>5. \A d \in Calls : call'[d] = call[d] \/ call'[d].pair \in {access, refresh}
    BY <1>0, <2>1
  <2>6. \A q \in (deleting \ excused)' : Unused(q)'
    BY <2>4, <2>5, UnusedKept
  <2>q. QED  BY <1>0, <2>2, <2>3, <2>4, <2>6, KeysKept DEF Kept
<1>4. ASSUME NEW c \in Calls, DK!Rejects(c)  PROVE KeysInv'
  <2>1. DK!NoCall \in KeyCalls  BY <1>0 DEF DK!NoCall, KeyCalls
  <2>2. call' \in [Calls -> KeyCalls] /\ \A d \in Calls : call'[d] \in {call[d], DK!NoCall}
    BY <1>0, <1>4, <2>1 DEF DK!Rejects
  <2>3. access' \in {0, access} /\ refresh' \in {0, refresh}
    BY <1>4 DEF DK!Rejects, DK!tokens
  <2>4. \A d \in Calls : call'[d].stage = "asking" => call'[d] = call[d]
    BY <2>2 DEF DK!NoCall
  <2>5. Kept' = Kept /\ made' = made /\ pairs' = pairs /\ excused' = excused
        /\ leaving' = leaving /\ deleting' = deleting
    BY <1>4 DEF DK!Rejects, Kept
  <2>6. DK!NoCall.pair = 0  BY DEF DK!NoCall
  <2>7. \A q \in (deleting \ excused)' : Unused(q)'
    BY <2>2, <2>3, <2>5, <2>6, UnusedKept
  <2>q. QED  BY <1>0, <2>2, <2>3, <2>4, <2>5, <2>7, KeysKept
<1>5. ASSUME NEW c \in Calls, DK!FindsPair(c)  PROVE KeysInv'
  <2>1. CASE call[c].pair \in pairs
    <3>1. /\ call' = [call EXCEPT ![c].stage = "asking"]
          /\ UNCHANGED <<access, refresh, pairs, made, deleting, leaving, excused>>
      BY <1>5, <2>1 DEF DK!FindsPair, DK!tokens
    <3>2. call' \in [Calls -> KeyCalls]
          /\ call'[c].pair = call[c].pair
          /\ \A d \in Calls \ {c} : call'[d] = call[d]
      BY <1>0, <3>1 DEF KeyCalls
    <3>3. \A d \in Calls : call'[d].stage = "asking" => call'[d].pair \in Kept'
      BY <1>0, <2>1, <3>1, <3>2 DEF Kept
    <3>4. \A q \in (deleting \ excused)' : Unused(q)'
      BY <3>1, <3>2, UnusedKept
    <3>q. QED  BY <1>0, <3>1, <3>2, <3>3, <3>4, KeysKept DEF Kept
  <2>2. CASE call[c].pair \notin pairs
    BY <1>4, <1>5, <2>2 DEF DK!FindsPair
  <2>q. QED  BY <2>1, <2>2
<1>6. ASSUME NEW c \in Calls, DK!NonceDemanded(c)  PROVE KeysInv'
  <2>1. /\ call' = [call EXCEPT ![c].nonce = TRUE]
        /\ UNCHANGED <<access, refresh, pairs, made, deleting, leaving, excused>>
    BY <1>6 DEF DK!NonceDemanded, DK!tokens
  <2>2. call' \in [Calls -> KeyCalls]
        /\ \A d \in Calls : call'[d].pair = call[d].pair /\ call'[d].stage = call[d].stage
    BY <1>0, <2>1 DEF KeyCalls
  <2>3. \A q \in (deleting \ excused)' : Unused(q)'
    BY <2>1, <2>2, UnusedKept
  <2>q. QED  BY <1>0, <2>1, <2>2, <2>3, KeysKept DEF Kept
<1>7. ASSUME NEW c \in Calls, DK!Fails(c)  PROVE KeysInv'
  BY <1>4, <1>7 DEF DK!Fails
<1>8. ASSUME NEW c \in Calls, DK!Answered(c)  PROVE KeysInv'
  <2>1. call[c].pair \in Kept /\ call[c].pair \in DK!Pairs
    BY <1>0, <1>8 DEF DK!Answered, KeyCalls
  <2>2. /\ access' = call[c].pair /\ refresh' \in {0, call[c].pair}
        /\ call' = [call EXCEPT ![c] = DK!NoCall]
        /\ UNCHANGED <<pairs, made, deleting, leaving, excused>>
    BY <1>8 DEF DK!Answered
  <2>3. DK!NoCall \in KeyCalls  BY <1>0 DEF DK!NoCall, KeyCalls
  <2>4. call' \in [Calls -> KeyCalls] /\ \A d \in Calls : call'[d] \in {call[d], DK!NoCall}
    BY <1>0, <2>2, <2>3
  <2>5. \A d \in Calls : call'[d].stage = "asking" => call'[d] = call[d]
    BY <2>4 DEF DK!NoCall
  <2>6. DK!NoCall.pair = 0  BY DEF DK!NoCall
  <2>7. \A q \in (deleting \ excused)' : Unused(q)'
    BY <2>2, <2>4, <2>6, UnusedKept
  <2>q. QED  BY <1>0, <2>1, <2>2, <2>4, <2>5, <2>7, KeysKept DEF Kept
<1>9. ASSUME DK!RevokeAccessToken  PROVE KeysInv'
  <2>1. /\ access' = 0 /\ refresh' = refresh
        /\ UNCHANGED <<pairs, made, call, leaving>>
    BY <1>9 DEF DK!RevokeAccessToken
  <2>2. CASE refresh = 0
    <3>1. DK!Delete(access)  BY <1>9, <2>2 DEF DK!RevokeAccessToken
    <3>q. QED  BY <1>0, <2>1, <2>2, <3>1, DeletionIsExcused
  <2>3. CASE refresh # 0
    <3>1. UNCHANGED <<deleting, excused>>  BY <1>9, <2>3 DEF DK!RevokeAccessToken
    <3>2. \A q \in (deleting \ excused)' : Unused(q)'  BY <2>1, <3>1, UnusedKept
    <3>q. QED  BY <1>0, <2>1, <3>1, <3>2, KeysKept DEF Kept
  <2>q. QED  BY <2>2, <2>3
<1>10. ASSUME DK!RevokeRefreshToken  PROVE KeysInv'
  <2>1. /\ refresh' = 0 /\ access' = access
        /\ UNCHANGED <<pairs, made, call, leaving>>
    BY <1>10 DEF DK!RevokeRefreshToken
  <2>2. CASE access = 0
    <3>1. DK!Delete(refresh)  BY <1>10, <2>2 DEF DK!RevokeRefreshToken
    <3>q. QED  BY <1>0, <2>1, <2>2, <3>1, DeletionIsExcused
  <2>3. CASE access # 0
    <3>1. UNCHANGED <<deleting, excused>>  BY <1>10, <2>3 DEF DK!RevokeRefreshToken
    <3>2. \A q \in (deleting \ excused)' : Unused(q)'  BY <2>1, <3>1, UnusedKept
    <3>q. QED  BY <1>0, <2>1, <3>1, <3>2, KeysKept DEF Kept
  <2>q. QED  BY <2>2, <2>3
<1>18. ASSUME NEW p \in DK!Pairs, DK!DeletePair(p)  PROVE KeysInv'
  <2>1. /\ p \in deleting /\ pairs' = pairs \ {p} /\ deleting' = deleting \ {p}
        /\ UNCHANGED <<access, refresh, made, call, leaving, excused>>
    BY <1>18 DEF DK!DeletePair, DK!tokens
  <2>2. p \in excused \/ Unused(p)  BY <2>1 DEF KeysInv
  <2>3. Kept \ {p} \subseteq Kept' /\ (p \in excused => Kept \subseteq Kept')
    BY <2>1 DEF Kept
  <2>4. {access', refresh'} \subseteq Kept' \cup {0}
    BY <1>0, <2>1, <2>2, <2>3 DEF Unused
  <2>5. \A c \in Calls : call'[c].stage = "asking" => call'[c].pair \in Kept'
    BY <1>0, <2>1, <2>2, <2>3 DEF Unused
  <2>6. \A q \in (deleting \ excused)' : Unused(q)'  BY <2>1, UnusedKept
  <2>q. QED  BY <1>0, <2>1, <2>4, <2>5, <2>6, KeysKept
<1>11. ASSUME DK!Remove  PROVE KeysInv'
  <2>1. /\ access' \in {0, access} /\ refresh' \in {0, refresh}
        /\ UNCHANGED <<pairs, made, call, deleting, leaving, excused>>
    BY <1>11 DEF DK!Remove
  <2>2. \A q \in (deleting \ excused)' : Unused(q)'  BY <2>1, UnusedKept
  <2>q. QED  BY <1>0, <2>1, <2>2, KeysKept DEF Kept
<1>12. ASSUME DK!ClearDPoPStorage  PROVE KeysInv'
  <2>1. /\ access' = access /\ refresh' = refresh
        /\ made' = made /\ call' = call /\ leaving' = leaving
        /\ deleting' = deleting
    BY <1>12 DEF DK!ClearDPoPStorage, DK!tokens
  <2>2. /\ Kept \subseteq Kept' /\ excused \subseteq excused'
        /\ pairs' \subseteq 1 .. made /\ excused' \subseteq 1 .. made
    <3>1. CASE DK!DeleteUnder(DK!BoundTo)
      BY <1>0, <3>1, DeletedIsExcused DEF DK!BoundTo
    <3>2. CASE pairs' = {} /\ excused' = excused \cup pairs
      BY <1>0, <3>2 DEF Kept
    <3>q. QED  BY <1>12, <3>1, <3>2 DEF DK!ClearDPoPStorage
  <2>3. \A q \in (deleting \ excused)' : Unused(q)'  BY <2>1, <2>2, UnusedKept
  <2>q. QED  BY <1>0, <2>1, <2>2, <2>3, KeysKept
<1>13. ASSUME DK!SignOut  PROVE KeysInv'
  <2>1. leaving' \in [stage : {"none", "revoking", "closing"}, pair : DK!Pairs]
    BY <1>0, <1>13 DEF DK!SignOut, DK!BoundTo
  <2>2. UNCHANGED <<access, refresh, pairs, made, call, deleting, excused>>
    BY <1>13 DEF DK!SignOut, DK!tokens
  <2>3. \A q \in (deleting \ excused)' : Unused(q)'  BY <2>2, UnusedKept
  <2>q. QED  BY <1>0, <2>1, <2>2, <2>3, KeysKept DEF Kept
<1>14. ASSUME DK!SignOutFails  PROVE KeysInv'
  <2>1. /\ UNCHANGED <<access, refresh, pairs, made, call, deleting, excused>>
        /\ leaving' \in [stage : {"none", "revoking", "closing"}, pair : DK!Pairs]
    BY <1>0, <1>14 DEF DK!SignOutFails, DK!Here, DK!tokens
  <2>2. \A q \in (deleting \ excused)' : Unused(q)'  BY <2>1, UnusedKept
  <2>q. QED  BY <1>0, <2>1, <2>2, KeysKept DEF Kept
<1>15. ASSUME call' = [c \in Calls |-> DK!NoCall]
       PROVE  /\ call' \in [Calls -> KeyCalls]
              /\ \A c \in Calls : call'[c].stage # "asking" /\ call'[c].pair = 0
  BY <1>0, <1>15 DEF DK!NoCall, KeyCalls
<1>16. ASSUME DK!Revoked  PROVE KeysInv'
  <2>1. /\ Kept \subseteq Kept' /\ excused \subseteq excused'
        /\ pairs' \subseteq 1 .. made /\ excused' \subseteq 1 .. made
        /\ made' = made /\ deleting' = deleting
    BY <1>0, <1>16, DeletedIsExcused DEF DK!Revoked
  <2>2. CASE leaving' = [leaving EXCEPT !.stage = "closing"] /\ UNCHANGED <<DK!tokens, call>>
    <3>1. UNCHANGED <<access, refresh, call>>  BY <2>2 DEF DK!tokens
    <3>2. leaving' \in [stage : {"none", "revoking", "closing"}, pair : DK!Pairs]
      BY <1>0, <2>2
    <3>3. \A q \in (deleting \ excused)' : Unused(q)'  BY <2>1, <3>1, UnusedKept
    <3>q. QED  BY <1>0, <2>1, <3>1, <3>2, <3>3, KeysKept
  <2>3. CASE /\ leaving' = DK!Here
             /\ access' = 0 /\ refresh' = 0
             /\ call' = [c \in Calls |-> DK!NoCall]
    <3>1. leaving' \in [stage : {"none", "revoking", "closing"}, pair : DK!Pairs]
      BY <1>0, <2>3 DEF DK!Here
    <3>2. \A q \in (deleting \ excused)' : Unused(q)'
      BY <1>15, <2>1, <2>3, UnusedKept
    <3>q. QED  BY <1>0, <1>15, <2>1, <2>3, <3>1, <3>2, KeysKept
  <2>q. QED  BY <1>16, <2>2, <2>3 DEF DK!Revoked
<1>17. ASSUME DK!SessionClosed  PROVE KeysInv'
  <2>1. /\ leaving' = DK!Here /\ access' = 0 /\ refresh' = 0
        /\ call' = [c \in Calls |-> DK!NoCall]
        /\ UNCHANGED <<pairs, made, deleting, excused>>
    BY <1>17 DEF DK!SessionClosed
  <2>2. leaving' \in [stage : {"none", "revoking", "closing"}, pair : DK!Pairs]
    BY <1>0, <2>1 DEF DK!Here
  <2>3. \A q \in (deleting \ excused)' : Unused(q)'  BY <1>15, <2>1, UnusedKept
  <2>q. QED  BY <1>0, <1>15, <2>1, <2>2, <2>3, KeysKept DEF Kept
<1>q. QED
  BY <1>1, <1>2, <1>3, <1>5, <1>6, <1>7, <1>8, <1>9, <1>10, <1>11, <1>12, <1>13,
     <1>14, <1>16, <1>17, <1>18 DEF DK!Next

-------------------------------------------------------------------------------
(* AuthnTransactions.  An answer may be overtaken by others, so what it says    *)
(* must still hold when it arrives: one that ended or refused a transaction is  *)
(* of one that is not in progress, and never will be, for the server numbers    *)
(* new transactions (Truthful).                                                 *)

AuthnCalls == [kind : AT!Kinds \cup {"none"}, of : AT!Transactions,
               answer : {"none", "continues", "without", "invalid"}]

Truthful(r) ==
    /\ r.of <= issued
    /\ r.answer = "continues" => r.of # 0
    /\ r.answer = "invalid" => r.of \notin alive
    /\ r.answer = "without" /\ r.kind # "get" => r.of \notin alive

\* The cookie names no transaction that ended without anybody being told so.
CookieExcused ==
    \/ cookie = 0 \/ cookie \in alive \/ cookie \in loose
    \/ \E c \in Calls : ask[c].answer = "without" /\ ask[c].of = cookie

LastFound == last \in alive => cookie = last \/ last \in dropped

AuthnInv == /\ AT!TypeOK
            /\ cookie <= issued /\ last <= issued
            /\ \A c \in Calls : Truthful(ask[c])
            /\ CookieExcused
            /\ LastFound

\* The types, with what arithmetic needs.
LEMMA AuthnTypes ==
    AT!TypeOK <=> /\ cookie \in AT!Transactions /\ issued \in AT!Transactions
                  /\ last \in AT!Transactions
                  /\ alive \subseteq 1 .. issued /\ known \subseteq 1 .. issued
                  /\ ask \in [Calls -> AuthnCalls]
                  /\ loose \subseteq AT!Transactions /\ dropped \subseteq AT!Transactions
BY DEF AT!TypeOK, AuthnCalls

\* The invariant says what is claimed.
LEMMA AuthnInvSays == AuthnInv => AT!ResumesInProgress
BY DEF AuthnInv, CookieExcused, LastFound, AT!ResumesInProgress

\* The invariant holds at first.
LEMMA AuthnInit == AT!Init => AuthnInv
<1> SUFFICES ASSUME AT!Init  PROVE AuthnInv
  OBVIOUS
<1>1. 0 \in AT!Transactions  BY BoundsAssumption DEF AT!Transactions
<1>2. AT!NoCall \in AuthnCalls  BY <1>1 DEF AT!NoCall, AuthnCalls
<1>3. AT!TypeOK  BY <1>1, <1>2, AuthnTypes DEF AT!Init
<1>q. QED
  BY <1>3 DEF AT!Init, AuthnInv, Truthful, CookieExcused, LastFound, AT!NoCall

\* A request that is sent keeps the invariant.
LEMMA AuthnAsks ==
    ASSUME AuthnInv, NEW c \in Calls, NEW kind \in AT!Kinds, NEW i \in AT!Transactions,
           i <= issued, AT!Ask(c, kind, i)
    PROVE  AuthnInv'
<1> DEFINE r == [kind |-> kind, of |-> i, answer |-> "none"]
<1>1. /\ ask' = [ask EXCEPT ![c] = r] /\ ask[c] = AT!NoCall
      /\ UNCHANGED <<cookie, alive, issued, known, last, loose, dropped>>
  BY DEF AT!Ask
<1>2. ask \in [Calls -> AuthnCalls]  BY AuthnTypes DEF AuthnInv
<1>3. r \in AuthnCalls /\ Truthful(r)  BY DEF AuthnCalls, Truthful
<1>4. ask[c].answer = "none" /\ r.answer = "none"  BY <1>1 DEF AT!NoCall
<1> HIDE DEF r
<1>5. ask' \in [Calls -> AuthnCalls] /\ \A d \in Calls : ask'[d] = IF d = c THEN r ELSE ask[d]
  BY <1>1, <1>2, <1>3
<1>6. AT!TypeOK'  BY <1>1, <1>5, AuthnTypes DEF AuthnInv, AT!TypeOK, AuthnCalls
<1>7. \A d \in Calls : Truthful(ask[d])'
  BY <1>1, <1>3, <1>5 DEF AuthnInv, Truthful
<1>8. CookieExcused' /\ LastFound'
  BY <1>1, <1>4, <1>5 DEF AuthnInv, CookieExcused, LastFound
<1>q. QED  BY <1>1, <1>6, <1>7, <1>8 DEF AuthnInv

\* An answer of the server keeps the invariant: it is of the transaction the
\* request named, or of the new one.
LEMMA AuthnServed ==
    ASSUME AuthnInv, NEW c \in Calls, AT!Served(c)
    PROVE  AuthnInv'
<1> DEFINE With(said, of) == [ask[c] EXCEPT !.answer = said, !.of = of]
<1>0. /\ ask \in [Calls -> AuthnCalls] /\ ask[c].kind # "none" /\ ask[c].answer = "none"
      /\ issued \in Nat /\ issued \in AT!Transactions
      /\ alive \subseteq 1 .. issued /\ known \subseteq 1 .. issued
      /\ cookie \in AT!Transactions /\ last \in AT!Transactions
      /\ loose \subseteq AT!Transactions /\ dropped \subseteq AT!Transactions
      /\ cookie \in Nat /\ last \in Nat /\ cookie <= issued /\ last <= issued
  BY AuthnTypes, BoundsAssumption DEF AuthnInv, AT!Served, AT!Transactions
<1>1. PICK i \in AT!Transactions, kind \in AT!Kinds \cup {"none"} :
         i = ask[c].of /\ kind = ask[c].kind /\ i <= issued
  BY <1>0 DEF AuthnCalls, AuthnInv, Truthful
<1>2. UNCHANGED <<cookie, known, last, loose, dropped>>
  BY DEF AT!Served
\* It is enough to look at the answer and the transactions in progress.
<1>3. ASSUME NEW said \in {"continues", "without", "invalid"}, NEW of \in AT!Transactions,
             ask' = [ask EXCEPT ![c] = With(said, of)],
             issued' \in AT!Transactions, issued' \in Nat, issued <= issued',
             alive' \subseteq 1 .. issued', of <= issued',
             said = "continues" => of # 0,
             said = "invalid" => of \notin alive',
             said = "without" /\ kind # "get" => of \notin alive',
             \A j \in 0 .. issued : j \in alive' => j \in alive,
             alive \subseteq alive' \/ (said = "without" /\ alive \ {of} \subseteq alive')
      PROVE  AuthnInv'
  <2>1. PICK r : r = With(said, of)  OBVIOUS
  <2>2. r \in AuthnCalls /\ r.answer = said /\ r.of = of /\ r.kind = kind
    BY <1>0, <1>1, <1>3, <2>1 DEF AuthnCalls
  <2>3. ask' \in [Calls -> AuthnCalls] /\ \A d \in Calls : ask'[d] = IF d = c THEN r ELSE ask[d]
    BY <1>0, <1>3, <2>1, <2>2
  <2>4. known \subseteq 1 .. issued'
    BY <1>0, <1>3
  <2>5. AT!TypeOK'
    BY <1>0, <1>2, <1>3, <2>3, <2>4 DEF AT!TypeOK, AuthnCalls
  <2>6. ASSUME NEW d \in Calls  PROVE Truthful(ask[d])'
    <3>1. CASE d = c
      <4>1. ask'[d] = r  BY <2>3, <3>1
      <4>q. QED  BY <1>3, <2>2, <4>1 DEF Truthful
    <3>2. CASE d # c
      <4>1. ask'[d] = ask[d] /\ Truthful(ask[d])  BY <2>3, <3>2 DEF AuthnInv
      <4>2. ask[d].of \in 0 .. issued
        BY <1>0, <4>1, BoundsAssumption DEF AuthnCalls, Truthful, AT!Transactions
      <4>3. ask[d].of <= issued'  BY <1>0, <1>3, <4>2
      <4>4. ask[d].of \notin alive => ask[d].of \notin alive'  BY <1>3, <4>2
      <4>q. QED  BY <4>1, <4>3, <4>4 DEF Truthful
    <3>q. QED  BY <3>1, <3>2
  <2>7. CookieExcused'
    <3>1. CookieExcused  BY DEF AuthnInv
    <3>2. CASE cookie = 0 \/ cookie \in loose
      BY <1>2, <3>2 DEF CookieExcused
    <3>3. CASE cookie \in alive
      <4>1. CASE cookie \in alive'  BY <1>2, <4>1 DEF CookieExcused
      <4>2. CASE cookie \notin alive'
        <5>1. said = "without" /\ of = cookie  BY <1>3, <3>3, <4>2
        <5>q. QED  BY <1>2, <2>2, <2>3, <5>1 DEF CookieExcused
      <4>q. QED  BY <4>1, <4>2
    <3>4. CASE \E d \in Calls : ask[d].answer = "without" /\ ask[d].of = cookie
      <4>1. PICK d \in Calls : ask[d].answer = "without" /\ ask[d].of = cookie  BY <3>4
      <4>2. ask'[d] = ask[d]  BY <1>0, <2>3, <4>1
      <4>q. QED  BY <1>2, <4>1, <4>2 DEF CookieExcused
    <3>q. QED  BY <3>1, <3>2, <3>3, <3>4 DEF CookieExcused
  <2>8. LastFound'
    BY <1>0, <1>2, <1>3 DEF AuthnInv, LastFound
  <2>9. cookie' <= issued' /\ last' <= issued'
    BY <1>0, <1>2, <1>3
  <2>q. QED  BY <2>5, <2>6, <2>7, <2>8, <2>9 DEF AuthnInv
<1>4. CASE /\ issued < MaxTransactions
           /\ issued' = issued + 1
           /\ alive' = alive \cup {issued'}
           /\ ask' = [ask EXCEPT ![c] = [@ EXCEPT !.answer = "continues", !.of = issued']]
  <2>1. /\ issued' \in AT!Transactions /\ issued' \in Nat /\ issued <= issued'
        /\ alive' \subseteq 1 .. issued' /\ issued' <= issued' /\ issued' # 0
        /\ \A j \in 0 .. issued : j \in alive' => j \in alive
    BY <1>0, <1>4, BoundsAssumption DEF AT!Transactions
  <2>2. ask' = [ask EXCEPT ![c] = With("continues", issued')]
    BY <1>0, <1>4
  <2>3. PICK of \in AT!Transactions : of = issued'  BY <2>1
  <2>4. ask' = [ask EXCEPT ![c] = With("continues", of)]  BY <2>2, <2>3
  <2> HIDE DEF With
  <2>q. QED  BY <1>3, <1>4, <2>1, <2>3, <2>4
<1>5. CASE /\ i \in alive
           /\ ask' = [ask EXCEPT ![c] = [@ EXCEPT !.answer = "continues", !.of = i]]
           /\ UNCHANGED <<alive, issued>>
  <2>1. ask' = [ask EXCEPT ![c] = With("continues", i)]  BY <1>0, <1>5
  <2>2. i # 0  BY <1>0, <1>5
  <2>3. /\ issued' \in AT!Transactions /\ issued' \in Nat /\ issued <= issued'
        /\ alive' \subseteq 1 .. issued' /\ i <= issued'
        /\ \A j \in 0 .. issued : j \in alive' => j \in alive
    BY <1>0, <1>1, <1>5
  <2> HIDE DEF With
  <2>q. QED  BY <1>3, <1>5, <2>1, <2>2, <2>3
<1>6. CASE /\ i \in alive \/ i = 0
           /\ alive' = IF kind = "get" THEN alive ELSE alive \ {i}
           /\ ask' = [ask EXCEPT ![c] = [@ EXCEPT !.answer = "without", !.of = i]]
           /\ UNCHANGED issued
  <2>1. ask' = [ask EXCEPT ![c] = With("without", i)]  BY <1>0, <1>6
  <2>2. /\ kind # "get" => i \notin alive'
        /\ alive \ {i} \subseteq alive'
    BY <1>0, <1>6
  <2>3. /\ issued' \in AT!Transactions /\ issued' \in Nat /\ issued <= issued'
        /\ alive' \subseteq 1 .. issued' /\ i <= issued'
        /\ \A j \in 0 .. issued : j \in alive' => j \in alive
    BY <1>0, <1>1, <1>6
  <2> HIDE DEF With
  <2>q. QED  BY <1>3, <1>6, <2>1, <2>2, <2>3
<1>7. CASE /\ i \notin alive
           /\ ask' = [ask EXCEPT ![c] = [@ EXCEPT !.answer = "invalid", !.of = i]]
           /\ UNCHANGED <<alive, issued>>
  <2>1. ask' = [ask EXCEPT ![c] = With("invalid", i)]  BY <1>0, <1>7
  <2>2. i \notin alive' /\ alive \subseteq alive'
    BY <1>7
  <2>3. /\ issued' \in AT!Transactions /\ issued' \in Nat /\ issued <= issued'
        /\ alive' \subseteq 1 .. issued' /\ i <= issued'
        /\ \A j \in 0 .. issued : j \in alive' => j \in alive
    BY <1>0, <1>1, <1>7
  <2> HIDE DEF With
  <2>q. QED  BY <1>3, <1>7, <2>1, <2>2, <2>3
<1>q. QED  BY <1>1, <1>4, <1>5, <1>6, <1>7 DEF AT!Served

\* An answer that arrives keeps the invariant: it names one in progress, or one
\* that has become loose, or it empties the cookie of one that is dropped.
LEMMA AuthnDelivered ==
    ASSUME AuthnInv, NEW c \in Calls, AT!Delivered(c)
    PROVE  AuthnInv'
<1>1. PICK r : r = ask[c]  OBVIOUS
<1>2. /\ ask \in [Calls -> AuthnCalls] /\ r \in AuthnCalls /\ r.answer # "none"
      /\ issued \in AT!Transactions /\ issued \in Nat /\ 0 \in AT!Transactions
      /\ alive \subseteq 1 .. issued /\ known \subseteq 1 .. issued
      /\ cookie \in AT!Transactions /\ last \in AT!Transactions
      /\ loose \subseteq AT!Transactions /\ dropped \subseteq AT!Transactions
      /\ cookie <= issued /\ last <= issued
      /\ Truthful(r) /\ CookieExcused /\ LastFound
  BY <1>1, AuthnTypes, BoundsAssumption DEF AuthnInv, AT!Delivered, AT!Transactions
<1>3. /\ cookie' = AT!NewCookie(r)
      /\ known' = AT!NewKnown(r)
      /\ last' = IF r.answer = "continues" THEN r.of ELSE last
      /\ loose' = IF r.of \notin alive \cup {0}
                     /\ \/ r.answer = "continues"
                        \/ r.answer = "without" /\ ~AT!SavesAuthnState(r.kind)
                  THEN loose \cup {r.of} ELSE loose
      /\ dropped' = IF r.answer # "continues" /\ cookie' # cookie /\ r.of # cookie
                    THEN dropped \cup {cookie} ELSE dropped
      /\ ask' = [ask EXCEPT ![c] = AT!NoCall]
      /\ alive' = alive /\ issued' = issued
  BY <1>1 DEF AT!Delivered
<1>4. /\ r.of \in AT!Transactions /\ r.of <= issued
      /\ r.answer \in {"continues", "without", "invalid"}
  BY <1>2 DEF AuthnCalls, Truthful
<1>5. r.answer = "continues" => r.of \in 1 .. issued
  BY <1>2, <1>4, BoundsAssumption DEF Truthful, AT!Transactions
<1>6. AT!NoCall \in AuthnCalls /\ AT!NoCall.answer = "none" /\ Truthful(AT!NoCall)'
  BY <1>2, <1>3 DEF AT!NoCall, AuthnCalls, Truthful, AT!Transactions
<1>7. ask' \in [Calls -> AuthnCalls]
      /\ \A d \in Calls : ask'[d] = IF d = c THEN AT!NoCall ELSE ask[d]
  BY <1>2, <1>3, <1>6
<1>8. cookie' = IF r.answer = "continues" THEN r.of
                ELSE IF r.answer = "without" /\ ~AT!SavesAuthnState(r.kind) THEN cookie ELSE 0
  BY <1>3, <1>4 DEF AT!NewCookie
<1>9. /\ cookie' \in AT!Transactions /\ last' \in AT!Transactions
      /\ cookie' <= issued' /\ last' <= issued'
  BY <1>2, <1>3, <1>4, <1>8
<1>10. known' \subseteq 1 .. issued'
  BY <1>2, <1>3, <1>5 DEF AT!NewKnown
<1>11. AT!TypeOK'
  <2>1. loose' \subseteq AT!Transactions /\ dropped' \subseteq AT!Transactions
    BY <1>2, <1>3, <1>4
  <2>q. QED  BY <1>2, <1>3, <1>7, <1>9, <1>10, <2>1 DEF AT!TypeOK, AuthnCalls
<1>12. \A d \in Calls : Truthful(ask[d])'
  BY <1>3, <1>6, <1>7 DEF AuthnInv, Truthful
<1>13. CookieExcused'
  <2>1. CASE r.answer = "continues"
    BY <1>3, <1>8, <2>1 DEF CookieExcused
  <2>2. CASE cookie' = 0
    BY <2>2 DEF CookieExcused
  <2>3. CASE r.answer = "without" /\ ~AT!SavesAuthnState(r.kind)
    <3>1. cookie' = cookie  BY <1>8, <2>3
    <3>2. CASE r.of = cookie
      BY <1>3, <2>3, <3>1, <3>2 DEF CookieExcused
    <3>3. CASE r.of # cookie
      <4>1. CASE cookie = 0 \/ cookie \in alive \/ cookie \in loose
        BY <1>3, <3>1, <4>1 DEF CookieExcused
      <4>2. CASE \E d \in Calls : ask[d].answer = "without" /\ ask[d].of = cookie
        <5>1. PICK d \in Calls : ask[d].answer = "without" /\ ask[d].of = cookie  BY <4>2
        <5>2. ask'[d] = ask[d]  BY <1>1, <1>7, <3>3, <5>1
        <5>q. QED  BY <3>1, <5>1, <5>2 DEF CookieExcused
      <4>q. QED  BY <1>2, <4>1, <4>2 DEF CookieExcused
    <3>q. QED  BY <3>2, <3>3
  <2>q. QED  BY <1>4, <1>8, <2>1, <2>2, <2>3
<1>14. LastFound'
  <2>1. CASE r.answer = "continues"
    BY <1>3, <1>8, <2>1 DEF LastFound
  <2>2. CASE r.answer # "continues"
    <3>1. last' = last /\ dropped \subseteq dropped'  BY <1>3, <2>2
    <3>2. cookie' # cookie => r.of \notin alive \/ cookie \in dropped'
      <4>1. SUFFICES ASSUME cookie' # cookie, r.of = cookie  PROVE r.of \notin alive
        BY <1>3, <2>2
      <4>2. r.answer = "invalid" \/ (r.answer = "without" /\ r.kind # "get")
        BY <1>4, <1>8, <2>2, <4>1 DEF AT!SavesAuthnState
      <4>q. QED  BY <1>2, <4>2 DEF Truthful
    <3>3. cookie' # cookie /\ r.of # cookie => cookie \in dropped'
      BY <1>3, <2>2
    <3>q. QED  BY <1>2, <1>3, <3>1, <3>2, <3>3 DEF LastFound
  <2>q. QED  BY <2>1, <2>2
<1>q. QED  BY <1>9, <1>11, <1>12, <1>13, <1>14 DEF AuthnInv

\* Calls that are given up keep the invariant: what they would have told of the
\* end of a transaction makes it loose.
LEMMA AuthnGivenUp ==
    ASSUME AuthnInv, NEW lost \in SUBSET Calls, AT!Unheard(lost),
           \A c \in Calls : ask'[c] = IF c \in lost THEN AT!NoCall ELSE ask[c],
           ask' \in [Calls -> AuthnCalls], known' \subseteq known,
           UNCHANGED <<cookie, alive, issued, last, dropped>>
    PROVE  AuthnInv'
<1>1. /\ ask \in [Calls -> AuthnCalls] /\ issued \in Nat /\ loose \subseteq AT!Transactions
      /\ alive \subseteq 1 .. issued /\ known \subseteq 1 .. issued
  BY AuthnTypes, BoundsAssumption DEF AuthnInv, AT!Transactions
<1>2. loose \subseteq loose'
      /\ \A c \in lost :
             (ask[c].answer = "without" /\ ask[c].of \notin alive \cup {0})
                 => ask[c].of \in loose'
  BY DEF AT!Unheard
<1>3. loose' \subseteq AT!Transactions
  <2>1. \A c \in lost : ask[c].of \in AT!Transactions  BY <1>1 DEF AuthnCalls
  <2>q. QED  BY <1>1, <2>1 DEF AT!Unheard
<1>4. AT!TypeOK'
  BY <1>1, <1>3, AuthnTypes DEF AuthnInv, AT!TypeOK, AuthnCalls
<1>5. AT!NoCall.answer = "none" /\ Truthful(AT!NoCall)'
  BY <1>1 DEF AT!NoCall, Truthful
<1>6. \A d \in Calls : Truthful(ask[d])'
  BY <1>5 DEF AuthnInv, Truthful
<1>7. CookieExcused'
  <2>1. CASE cookie = 0 \/ cookie \in alive \/ cookie \in loose
    BY <1>2, <2>1 DEF CookieExcused
  <2>2. CASE \E d \in Calls : ask[d].answer = "without" /\ ask[d].of = cookie
    <3>1. PICK d \in Calls : ask[d].answer = "without" /\ ask[d].of = cookie  BY <2>2
    <3>2. CASE d \in lost  BY <1>2, <3>1, <3>2 DEF CookieExcused
    <3>3. CASE d \notin lost  BY <3>1, <3>3 DEF CookieExcused
    <3>q. QED  BY <3>2, <3>3
  <2>q. QED  BY <2>1, <2>2 DEF AuthnInv, CookieExcused
<1>8. LastFound'  BY DEF AuthnInv, LastFound
<1>q. QED  BY <1>4, <1>6, <1>7, <1>8 DEF AuthnInv

\* Every step keeps the invariant.
LEMMA AuthnStep == AuthnInv /\ [AT!Next]_authnVars => AuthnInv'
<1> SUFFICES ASSUME AuthnInv, [AT!Next]_authnVars  PROVE AuthnInv'
  OBVIOUS
<1>0. /\ ask \in [Calls -> AuthnCalls] /\ issued \in Nat /\ 0 \in AT!Transactions
      /\ cookie \in AT!Transactions
      /\ alive \subseteq 1 .. issued /\ known \subseteq 1 .. issued
      /\ 0 <= issued /\ cookie <= issued /\ last <= issued
      /\ AT!NoCall \in AuthnCalls
  BY AuthnTypes, BoundsAssumption DEF AuthnInv, AT!Transactions, AT!NoCall, AuthnCalls
<1>1. CASE UNCHANGED authnVars
  BY <1>1 DEF authnVars, AuthnInv, AT!TypeOK, Truthful, CookieExcused, LastFound,
              AT!Kinds, AT!Transactions
<1>2. ASSUME NEW c \in Calls, AT!SignIn(c) \/ AT!OtherPost(c)  PROVE AuthnInv'
  <2>1. {"begin", "other"} \subseteq AT!Kinds  BY DEF AT!Kinds
  <2>q. QED  BY <1>0, <1>2, <2>1, AuthnAsks DEF AT!SignIn, AT!OtherPost
<1>3. ASSUME NEW c \in Calls, NEW i \in 1 .. MaxTransactions,
             AT!CallLink(c, i) \/ AT!ResumeTransaction(c, i)
      PROVE  AuthnInv'
  <2>1. AT!Links \cup {"resume"} \subseteq AT!Kinds  BY DEF AT!Kinds, AT!Links
  <2>2. i \in AT!Transactions  BY <1>3, BoundsAssumption DEF AT!Transactions
  <2>3. i \in known \/ i = cookie
    BY <1>3 DEF AT!CallLink, AT!ResumeTransaction
  <2>4. i <= issued  BY <1>0, <2>3
  <2>5. \E kind \in AT!Kinds : AT!Ask(c, kind, i)
    BY <1>3, <2>1 DEF AT!CallLink, AT!ResumeTransaction
  <2>q. QED  BY <2>2, <2>4, <2>5, AuthnAsks
<1>4. ASSUME NEW c \in Calls, AT!Fails(c)  PROVE AuthnInv'
  <2>1. /\ ask' \in [Calls -> AuthnCalls]
        /\ \A d \in Calls : ask'[d] = IF d \in {c} THEN AT!NoCall ELSE ask[d]
    BY <1>0, <1>4 DEF AT!Fails
  <2>2. /\ AT!Unheard({c}) /\ known' \subseteq known
        /\ UNCHANGED <<cookie, alive, issued, last, dropped>>
    BY <1>4 DEF AT!Fails
  <2>q. QED  BY <2>1, <2>2, AuthnGivenUp
<1>5. ASSUME AT!Reload  PROVE AuthnInv'
  <2>1. /\ ask' \in [Calls -> AuthnCalls]
        /\ \A d \in Calls : ask'[d] = IF d \in Calls THEN AT!NoCall ELSE ask[d]
    BY <1>0, <1>5 DEF AT!Reload
  <2>2. /\ AT!Unheard(Calls) /\ known' \subseteq known
        /\ UNCHANGED <<cookie, alive, issued, last, dropped>>
    BY <1>5 DEF AT!Reload
  <2>q. QED  BY <2>1, <2>2, AuthnGivenUp
<1>6. ASSUME NEW i \in alive, AT!Expires(i)  PROVE AuthnInv'
  <2>1. /\ alive' = alive \ {i} /\ cookie' = IF cookie = i THEN 0 ELSE cookie
        /\ UNCHANGED <<issued, known, last, ask, loose, dropped>>
    BY <1>6 DEF AT!Expires
  <2>2. cookie' \in AT!Transactions /\ cookie' <= issued'
    BY <1>0, <2>1
  <2>3. AT!TypeOK'
    BY <1>0, <2>1, <2>2, AuthnTypes DEF AuthnInv, AT!TypeOK
  <2>4. \A d \in Calls : Truthful(ask[d])'
    BY <2>1 DEF AuthnInv, Truthful
  <2>5. CookieExcused' /\ LastFound'
    BY <2>1 DEF AuthnInv, CookieExcused, LastFound
  <2>q. QED  BY <1>0, <2>1, <2>2, <2>3, <2>4, <2>5 DEF AuthnInv
<1>q. QED
  BY <1>1, <1>2, <1>3, <1>4, <1>5, <1>6, AuthnServed, AuthnDelivered DEF AT!Next, authnVars

-------------------------------------------------------------------------------
(* TokenVerification.  The parameters of a request are rebuilt on its way, so   *)
(* one has to know of each what of the options and of the request is left in it *)
(* (Carried); and a verdict is right because every check before it was passed   *)
(* (Passed).                                                                    *)

Verified == {One, Other}
Authorizes(r) == r.path \in {"page", "redirect"}
HasPkce(r) == "pkce" \in client /\ "pkce" \notin r.off

RequestRecords ==
    [path : {"redirect", "page", "refresh", "enroll"},
     on : SUBSET {"acrValues", "ignoreSignature"},
     off : SUBSET {"pkce", "ignoreSignature", "openid"},
     params : SUBSET (TV!Flags \cup {"acrValues", "fragment", "nonce", "state",
                                     "openid", "access", "id", "code"}),
     direct : BOOLEAN,
     stage : {"new", "sent", "landed", "answered", "claims", "key", "asking",
              "served"} \cup TV!Over,
     fault : TV!Faults, kid : 0 .. MaxKeys, keys : SUBSET (1 .. MaxKeys)]

\* What is tried of a request.
AskRecords == [path : {"redirect", "page", "refresh", "enroll"},
               on : SUBSET {"acrValues", "ignoreSignature"},
               off : SUBSET {"pkce", "ignoreSignature", "openid"}]

\* What is demanded, one fault at a time.
IgnoresSignature(r) ==
    \/ r.path # "refresh" /\ "ignoreSignature" \in r.on
    \/ "ignoreSignature" \in client /\ (r.path = "refresh" \/ "ignoreSignature" \notin r.off)
Demands(r, f) ==
    \/ f \in {"error", "state", "iss", "aud"}
    \/ f = "times" /\ "ignoreLifetime" \notin client
    \/ f = "nonce" /\ Authorizes(r)
    \/ f = "acr" /\ ("acrValues" \in r.on \/ "acrValues" \in client) /\ r.path # "refresh"
    \/ f \in {"access", "id"} /\ r.path # "refresh"
    \/ /\ f = "bearer" /\ "dpop" \in client /\ "allowBearerTokens" \notin client
       /\ HasPkce(r) \/ r.path # "redirect"
    \/ f \in {"kid", "signature", "hash"} /\ ~IgnoresSignature(r)

Carried(r) ==
    /\ r.direct <=> r.path = "refresh" \/ (r.direct /\ Authorizes(r) /\ HasPkce(r))
    /\ "state" \in r.params <=> ~r.direct
    /\ "code" \in r.params <=> Authorizes(r) /\ ~r.direct /\ HasPkce(r)
    /\ "nonce" \in r.params <=> Authorizes(r) /\ ~r.direct
    /\ "acrValues" \in r.params <=>
          \/ r.path # "refresh" /\ "acrValues" \in r.on
          \/ Authorizes(r) /\ "acrValues" \in client
    /\ "access" \in r.params <=> Authorizes(r) /\ (r.direct \/ ~HasPkce(r))
    /\ "id" \in r.params => Authorizes(r)
    /\ Authorizes(r) /\ ~r.direct /\ ~HasPkce(r) => "id" \in r.params
    /\ "dpop" \in r.params <=> /\ "dpop" \in client /\ r.path # "enroll"
                               /\ r.direct \/ r.path # "redirect"
    /\ "ignoreSignature" \in r.params <=>
          \/ Authorizes(r) /\ "ignoreSignature" \in r.on
          \/ /\ Authorizes(r) /\ "ignoreSignature" \in client
             /\ "ignoreSignature" \notin r.off
          \/ r.path = "refresh" /\ "ignoreSignature" \in client
    /\ ~r.direct => ("fragment" \in r.params <=> "fragment" \in client)

\* The checks that were passed when a request is at its stage.
Passed(r) ==
    /\ r.stage = "landed" => TV!Lands(r)
    /\ r.stage \in {"landed", "answered", "claims", "key", "asking", "served"} =>
          /\ r.fault \in TV!FaultsOf(r)
          /\ r.fault = "kid" <=> r.kid = 0
    /\ r.stage \in {"claims", "key", "asking", "served"} =>
          /\ TV!ResponseValid(r) /\ TV!TokenTypeValid(r)
          /\ TV!AnswersWithId(r) /\ r.fault # "id"
    /\ r.stage \in {"key", "asking", "served"} =>
          TV!ClaimsValid(r) /\ "ignoreSignature" \notin r.params

\* A key that was not among those served is not published again.
Withdrawn(r) ==
    /\ r.kid <= newest /\ r.keys \subseteq 1 .. newest
    /\ r.stage = "served" /\ r.kid \notin r.keys => r.kid \notin published

Right(r) ==
    /\ r.stage = "tokens" => ~Demands(r, r.fault) \/ (r.fault = "nonce" /\ r.direct)
    /\ r.stage = "refused" => Demands(r, r.fault) \/ r.kid \notin published
    /\ r.stage \in {"ignored", "unread"} => r.path = "enroll" \/ "pkce" \in r.off

RequestOK(r) ==
    /\ r \in RequestRecords
    /\ r.stage \in {"sent", "landed", "answered", "claims", "key", "asking", "served"} =>
          Carried(r)
    /\ Passed(r)
    /\ Withdrawn(r)
    /\ Right(r)

KeysOfServer == /\ newest \in 1 .. MaxKeys
                /\ published \subseteq 1 .. newest
                /\ cached \subseteq 1 .. newest

VerifyInv == /\ client \subseteq TV!Flags \cup {"acrValues", "fragment"}
             /\ KeysOfServer
             /\ request \in [Verified -> RequestRecords]
             /\ \A v \in Verified : RequestOK(request[v])

\* What is tried is what a request can be.
LEMMA AsksTyped == \A v \in Verified : SomeAsks[v] \subseteq AskRecords
<1>1. \A paths \in SUBSET {"redirect", "page", "refresh", "enroll"} :
      \A on \in SUBSET {"acrValues", "ignoreSignature"} :
      \A off \in SUBSET {"pkce", "ignoreSignature", "openid"} :
         AsksFor(paths, on, off) \subseteq AskRecords
  BY DEF AsksFor, AskRecords
<1>2. PICK ones : ones =
         UNION {AsksFor({"redirect", "page", "refresh"}, {}, {}),
                AsksFor({"redirect", "page"}, {"acrValues"}, {"ignoreSignature"}),
                AsksFor({"redirect", "page"}, {"ignoreSignature"}, {"openid"}),
                AsksFor({"redirect", "page"}, {}, {"pkce"}),
                AsksFor({"enroll"}, {"acrValues"}, {})}
  OBVIOUS
<1>3. ones \subseteq AskRecords
  <2>1. AsksFor({"redirect", "page", "refresh"}, {}, {}) \subseteq AskRecords
    BY <1>1
  <2>2. AsksFor({"redirect", "page"}, {"acrValues"}, {"ignoreSignature"})
           \subseteq AskRecords
    BY <1>1
  <2>3. AsksFor({"redirect", "page"}, {"ignoreSignature"}, {"openid"})
           \subseteq AskRecords
    BY <1>1
  <2>4. AsksFor({"redirect", "page"}, {}, {"pkce"}) \subseteq AskRecords
    BY <1>1
  <2>5. AsksFor({"enroll"}, {"acrValues"}, {}) \subseteq AskRecords
    BY <1>1
  <2>q. QED  BY <1>2, <2>1, <2>2, <2>3, <2>4, <2>5
<1>4. AsksFor({"page"}, {}, {}) \subseteq AskRecords  BY <1>1
<1>5. SomeAsks = [v \in {One, Other} |->
                     IF v = Other THEN AsksFor({"page"}, {}, {}) ELSE ones]
  BY <1>2 DEF SomeAsks
<1>q. QED  BY <1>3, <1>4, <1>5 DEF Verified

\* The parameters that getWithRedirect() and getToken() handle the answer with.
LEMMA PreparedCarried ==
    ASSUME VerifyInv, NEW r \in RequestRecords, Authorizes(r), ~r.direct,
           r.params = IF r.path = "page" THEN TV!Prepared(r.on, r.off)
                      ELSE TV!Meta(TV!Prepared(r.on, r.off))
    PROVE  Carried(r)
<1>1. /\ r.on \subseteq {"acrValues", "ignoreSignature"}
      /\ r.off \subseteq {"pkce", "ignoreSignature", "openid"}
  BY DEF RequestRecords
<1>2. PICK p : p = TV!Prepared(r.on, r.off)  OBVIOUS
<1>3. /\ "state" \in p /\ "nonce" \in p
      /\ "code" \in p <=> HasPkce(r)
      /\ "acrValues" \in p <=> "acrValues" \in r.on \/ "acrValues" \in client
      /\ "access" \in p <=> ~HasPkce(r)
      /\ "id" \in p <=> ~HasPkce(r)
      /\ "dpop" \in p <=> "dpop" \in client
      /\ "ignoreSignature" \in p <=>
            \/ "ignoreSignature" \in r.on
            \/ "ignoreSignature" \in client /\ "ignoreSignature" \notin r.off
      /\ "fragment" \in p <=> "fragment" \in client
  BY <1>1, <1>2 DEF TV!Prepared, TV!Defaults, HasPkce, VerifyInv, TV!Flags
<1>4. /\ \A n \in {"state", "nonce", "code", "acrValues", "access", "id",
                   "ignoreSignature", "fragment"} : n \in r.params <=> n \in p
      /\ "dpop" \in r.params <=> "dpop" \in p /\ r.path = "page"
  <2>1. CASE r.path = "page"  BY <1>2, <2>1
  <2>2. CASE r.path = "redirect"
    <3>1. r.params = p \ {"pkce", "dpop"}  BY <1>2, <2>2 DEF TV!Meta
    <3>q. QED  BY <2>2, <3>1
  <2>q. QED  BY <2>1, <2>2 DEF Authorizes
<1>5. r.path \in {"page", "redirect"}  BY DEF Authorizes
<1>q. QED  BY <1>3, <1>4, <1>5 DEF Carried, Authorizes

\* Those of an enrollment, of a renewal, and of the answer of the token endpoint.
LEMMA OthersCarried ==
    ASSUME VerifyInv, NEW r \in RequestRecords
    PROVE  /\ r.path = "enroll" /\ ~r.direct /\ r.params = TV!Enrolling(r.on) => Carried(r)
           /\ r.path = "refresh" /\ r.direct /\ r.params = TV!Refreshing => Carried(r)
           /\ \A s \in RequestRecords :
                 /\ Carried(s) /\ "code" \in s.params
                 /\ r.params = TV!Exchanged(s.params) /\ r.direct
                 /\ r.path = s.path /\ r.on = s.on /\ r.off = s.off
                 => Carried(r)
<1>1. ASSUME r.path = "enroll", ~r.direct, r.params = TV!Enrolling(r.on)
      PROVE  Carried(r)
  BY <1>1 DEF Carried, Authorizes, TV!Enrolling, TV!EnrollDefaults
<1>2. ASSUME r.path = "refresh", r.direct, r.params = TV!Refreshing
      PROVE  Carried(r)
  BY <1>2 DEF Carried, Authorizes, TV!Refreshing
<1>3. ASSUME NEW s \in RequestRecords, Carried(s), "code" \in s.params,
             r.params = TV!Exchanged(s.params), r.direct,
             r.path = s.path, r.on = s.on, r.off = s.off
      PROVE  Carried(r)
  <2>1. Authorizes(s) /\ ~s.direct /\ HasPkce(s)  BY <1>3 DEF Carried
  <2>2. Authorizes(r) /\ HasPkce(r) /\ r.path \in {"page", "redirect"}
    BY <1>3, <2>1 DEF Authorizes, HasPkce
  <2>3. /\ \A n \in {"state", "code", "nonce"} : n \notin r.params
        /\ \A n \in {"acrValues", "ignoreSignature"} : n \in r.params <=> n \in s.params
        /\ "access" \in r.params
        /\ "dpop" \in r.params <=> "dpop" \in s.params \/ "dpop" \in client
    BY <1>3 DEF TV!Exchanged
  <2>4. /\ "acrValues" \in s.params <=> "acrValues" \in s.on \/ "acrValues" \in client
        /\ "dpop" \in s.params => "dpop" \in client
        /\ "ignoreSignature" \in s.params <=>
              \/ "ignoreSignature" \in s.on
              \/ "ignoreSignature" \in client /\ "ignoreSignature" \notin s.off
    BY <1>3, <2>1, <2>2 DEF Carried
  <2>q. QED  BY <1>3, <2>2, <2>3, <2>4 DEF Carried
<1>q. QED  BY <1>1, <1>2, <1>3

\* Those are the demands of VerdictIsRight.
LEMMA DemandsSays ==
    ASSUME NEW r \in RequestRecords, NEW f
    PROVE  f \in TV!Demanded(r) <=> Demands(r, f)
<1>1. TV!Implicit(r) <=> ~HasPkce(r)  BY DEF TV!Implicit, HasPkce
<1>2. PICK s : s = IF r.path = "refresh" THEN [r EXCEPT !.on = {}, !.off = {}] ELSE r
  OBVIOUS
<1>3. TV!Ignores(s, "ignoreSignature") <=> IgnoresSignature(r)
  <2>1. CASE r.path = "refresh"
    <3>1. s.on = {} /\ s.off = {}  BY <1>2, <2>1 DEF RequestRecords
    <3>q. QED  BY <2>1, <3>1 DEF TV!Ignores, IgnoresSignature
  <2>2. CASE r.path # "refresh"
    BY <1>2, <2>2 DEF TV!Ignores, IgnoresSignature
  <2>q. QED  BY <2>1, <2>2
<1>4. TV!Demanded(r) =
        {"error", "state", "iss", "aud"}
        \cup {x \in {"times"} : "ignoreLifetime" \notin client}
        \cup {x \in {"nonce"} : r.path \in {"page", "redirect"}}
        \cup {x \in {"acr"} : "acrValues" \in r.on \cup client /\ r.path # "refresh"}
        \cup {x \in {"access", "id"} : r.path # "refresh"}
        \cup {x \in {"bearer"} : /\ "dpop" \in client /\ "allowBearerTokens" \notin client
                                 /\ ~(TV!Implicit(r) /\ r.path = "redirect")}
        \cup {x \in {"kid", "signature", "hash"} : ~TV!Ignores(s, "ignoreSignature")}
  BY <1>2 DEF TV!Demanded
<1>q. QED  BY <1>1, <1>3, <1>4 DEF Demands, Authorizes

\* The invariant says what is claimed.
LEMMA VerifyInvSays == VerifyInv => TV!TypeOK /\ TV!VerdictIsRight
<1>1. VerifyInv => TV!TypeOK
  BY DEF VerifyInv, KeysOfServer, TV!TypeOK, RequestRecords, Verified
<1>2. ASSUME VerifyInv  PROVE TV!VerdictIsRight
  <2>1. SUFFICES ASSUME NEW v \in Verified
                 PROVE  LET r == request[v] IN
                        /\ r.stage = "tokens" => \/ r.fault \notin TV!Demanded(r)
                                                 \/ r.fault = "nonce" /\ r.direct
                        /\ r.stage = "refused" =>
                              r.fault \in TV!Demanded(r) \/ r.kid \notin published
                        /\ r.stage \in {"ignored", "unread"} =>
                              r.path = "enroll" \/ "pkce" \in r.off
    BY DEF TV!VerdictIsRight, Verified
  <2>2. PICK r \in RequestRecords : r = request[v]  BY <1>2 DEF VerifyInv
  <2>3. Right(r)  BY <1>2, <2>2 DEF VerifyInv, RequestOK
  <2>4. r.fault \in TV!Demanded(r) <=> Demands(r, r.fault)  BY <2>2, DemandsSays
  <2>q. QED  BY <2>2, <2>3, <2>4 DEF Right
<1>q. QED  BY <1>1, <1>2

\* What can be wrong with an answer, and was not found by the checks that it
\* passed, is nothing that is demanded.
LEMMA AcceptsRight ==
    ASSUME VerifyInv, NEW r \in RequestRecords, Carried(r),
           r.fault \in TV!FaultsOf(r), "code" \notin r.params,
           TV!ResponseValid(r), TV!TokenTypeValid(r), TV!Complete(r),
           TV!AnswersWithId(r) /\ r.fault # "id" =>
              /\ TV!ClaimsValid(r)
              /\ \/ "ignoreSignature" \in r.params
                 \/ r.fault \notin {"kid", "signature", "hash"}
    PROVE  ~Demands(r, r.fault) \/ (r.fault = "nonce" /\ r.direct)
<1>0. /\ r.path \in {"redirect", "page", "refresh", "enroll"}
      /\ r.direct \in BOOLEAN
  BY DEF RequestRecords
<1>1. r.fault \notin {"error", "state"}  BY DEF TV!ResponseValid
<1>2. TV!AnswersWithTokens(r) \/ r.fault = "none"
  BY <1>1, Zenon DEF TV!FaultsOf, TV!AnswersWithId
<1>3. ASSUME TV!AnswersWithTokens(r), r.path # "refresh"
      PROVE  /\ Authorizes(r)
             /\ r.direct \/ ~HasPkce(r)
             /\ r.direct => HasPkce(r)
             /\ "access" \in r.params
  BY <1>0, <1>3 DEF TV!AnswersWithTokens, Authorizes, Carried
<1>4. ASSUME r.fault \in {"access", "id"}  PROVE ~Demands(r, r.fault)
  <2>1. r.fault = "id" => "id" \in r.params \/ r.path = "refresh"
    BY <1>1, <1>4 DEF TV!FaultsOf, TV!AnswersWithId, TV!OfIdToken
  <2>2. r.path = "refresh"  BY <1>2, <1>3, <1>4, <2>1 DEF TV!Complete
  <2>q. QED  BY <1>4, <2>2 DEF Demands
<1>5. ASSUME r.fault = "bearer", Demands(r, "bearer")  PROVE FALSE
  <2>1. /\ "dpop" \in client /\ "allowBearerTokens" \notin client
        /\ HasPkce(r) \/ r.path # "redirect"
    BY <1>5 DEF Demands
  <2>2. TV!AnswersWithTokens(r)  BY <1>2, <1>5
  <2>3. "dpop" \notin r.params  BY <1>5, <2>1, <2>2 DEF TV!TokenTypeValid
  <2>4. r.path = "redirect" /\ ~r.direct
    BY <1>0, <2>1, <2>2, <2>3 DEF Carried, TV!AnswersWithTokens
  <2>q. QED  BY <1>3, <2>1, <2>2, <2>4
<1>6. ASSUME r.fault \in TV!OfIdToken
      PROVE  ~Demands(r, r.fault) \/ (r.fault = "nonce" /\ r.direct)
  <2>1. TV!AnswersWithId(r) /\ r.fault # "id"
    BY <1>6 DEF TV!FaultsOf, TV!OfIdToken
  <2>2. TV!ClaimsValid(r) /\ TV!AnswersWithTokens(r)
    BY <2>1 DEF TV!AnswersWithId
  <2>3. r.fault \notin {"iss", "aud"}  BY <2>2 DEF TV!ClaimsValid
  <2>4. r.fault = "times" => "ignoreLifetime" \in client
    BY <2>2 DEF TV!ClaimsValid
  <2>5. r.fault = "nonce" => ~Authorizes(r) \/ r.direct
    <3>1. r.fault = "nonce" => "nonce" \notin r.params
      BY <2>2 DEF TV!ClaimsValid
    <3>q. QED  BY <3>1 DEF Carried
  <2>6. ASSUME r.fault = "acr", r.path # "refresh"
        PROVE  "acrValues" \notin r.on /\ "acrValues" \notin client
    <3>1. "acrValues" \notin r.params  BY <2>2, <2>6 DEF TV!ClaimsValid
    <3>q. QED  BY <1>3, <2>2, <2>6, <3>1 DEF Carried
  <2>7. r.fault \in {"kid", "signature", "hash"} => IgnoresSignature(r)
    <3>1. r.fault \in {"kid", "signature", "hash"} => "ignoreSignature" \in r.params
      BY <2>1
    <3>q. QED  BY <3>1 DEF Carried, IgnoresSignature, Authorizes
  <2>8. r.fault # "nonce" => ~Demands(r, r.fault)
    BY <1>6, <2>3, <2>4, <2>6, <2>7 DEF Demands, TV!OfIdToken
  <2>9. r.fault = "nonce" /\ ~Authorizes(r) => ~Demands(r, r.fault)  BY DEF Demands
  <2>q. QED  BY <1>0, <2>5, <2>8, <2>9
<1>7. r.fault \in {"none", "access", "id", "bearer"} \cup TV!OfIdToken
  BY <1>1 DEF TV!FaultsOf
<1>8. r.fault = "none" => ~Demands(r, r.fault)  BY DEF Demands
<1>9. r.fault = "bearer" => ~Demands(r, r.fault)  BY <1>5
<1>q. QED  BY <1>4, <1>6, <1>7, <1>8, <1>9

\* What a check refuses is demanded.
LEMMA RefusesRight ==
    ASSUME VerifyInv, NEW r \in RequestRecords, Carried(r),
           r.fault \in TV!FaultsOf(r)
    PROVE  /\ ~TV!ResponseValid(r) => Demands(r, r.fault)
           /\ ~TV!TokenTypeValid(r) => Demands(r, r.fault)
           /\ ~TV!Complete(r) => Demands(r, r.fault)
           /\ ~TV!ClaimsValid(r) /\ TV!AnswersWithId(r) => Demands(r, r.fault)
           /\ /\ ~TV!SignatureValid(r) /\ TV!AnswersWithId(r)
              /\ "ignoreSignature" \notin r.params
              => Demands(r, r.fault)
<1>0. /\ r.path \in {"redirect", "page", "refresh", "enroll"}
      /\ r.direct \in BOOLEAN
  BY DEF RequestRecords
<1>1. ~TV!ResponseValid(r) => Demands(r, r.fault)
  BY <1>0 DEF TV!ResponseValid, Carried, Demands
<1>2. ASSUME ~TV!TokenTypeValid(r)  PROVE Demands(r, r.fault)
  <2>1. /\ "dpop" \in r.params /\ TV!AnswersWithTokens(r)
        /\ "allowBearerTokens" \notin client /\ r.fault = "bearer"
    BY <1>2 DEF TV!TokenTypeValid
  <2>2. "dpop" \in client /\ (r.direct \/ r.path # "redirect")
    BY <2>1 DEF Carried
  <2>3. r.path = "redirect" => HasPkce(r)  BY <2>2 DEF Carried
  <2>q. QED  BY <2>1, <2>2, <2>3 DEF Demands
<1>3. ASSUME ~TV!Complete(r)  PROVE Demands(r, r.fault)
  <2>1. r.fault \in {"access", "id"} /\ r.fault \in r.params
    BY <1>3 DEF TV!Complete
  <2>2. Authorizes(r)  BY <2>1 DEF Carried
  <2>q. QED  BY <2>1, <2>2 DEF Demands, Authorizes
<1>4. ASSUME ~TV!ClaimsValid(r), TV!AnswersWithId(r)  PROVE Demands(r, r.fault)
  <2>1. CASE r.fault \in {"iss", "aud"}  BY <2>1 DEF Demands
  <2>2. CASE r.fault = "nonce" /\ "nonce" \in r.params
    <3>1. Authorizes(r)  BY <2>2 DEF Carried
    <3>q. QED  BY <2>2, <3>1 DEF Demands
  <2>3. CASE r.fault = "acr" /\ "acrValues" \in r.params
    BY <2>3 DEF Carried, Demands, Authorizes
  <2>4. CASE r.fault = "times" /\ "ignoreLifetime" \notin client
    BY <2>4 DEF Demands
  <2>q. QED  BY <1>4, <2>1, <2>2, <2>3, <2>4 DEF TV!ClaimsValid
<1>5. ASSUME ~TV!SignatureValid(r), TV!AnswersWithId(r),
             "ignoreSignature" \notin r.params
      PROVE  Demands(r, r.fault)
  <2>1. r.fault \in {"signature", "hash"}  BY <1>5 DEF TV!SignatureValid
  <2>2. r.path # "enroll"
    BY <1>5 DEF TV!AnswersWithId, TV!AnswersWithTokens
  <2>3. ~IgnoresSignature(r)
    BY <1>0, <1>5, <2>2 DEF Carried, IgnoresSignature, Authorizes
  <2>q. QED  BY <2>1, <2>3 DEF Demands
<1>q. QED  BY <1>1, <1>2, <1>3, <1>4, <1>5

\* A step keeps the invariant when every request is as the invariant has it, and
\* no key is published again that was withdrawn.
LEMMA VerifyKept ==
    ASSUME VerifyInv, NEW next \in [Verified -> RequestRecords], request' = next,
           \A v \in Verified : RequestOK(next[v]), client' = client,
           newest' \in 1 .. MaxKeys, newest <= newest',
           published' \subseteq 1 .. newest', cached' \subseteq 1 .. newest',
           \A k \in 0 .. newest : k \in published' => k \in published
    PROVE  VerifyInv'
<1>1. newest \in Nat /\ newest' \in Nat /\ MaxKeys \in Nat
  BY BoundsAssumption DEF VerifyInv, KeysOfServer
<1>2. ASSUME NEW v \in Verified  PROVE RequestOK(request[v])'
  <2>1. PICK r \in RequestRecords : r = next[v]  OBVIOUS
  <2>2. RequestOK(r) /\ request'[v] = r  BY <2>1
  <2>3. r.stage \in {"sent", "landed", "answered", "claims", "key", "asking", "served"}
           => Carried(request[v])'
    BY <2>2 DEF RequestOK, Carried, Authorizes, HasPkce
  <2>4. Passed(request[v])'
    BY <2>2 DEF RequestOK, Passed, TV!Lands, TV!FaultsOf, TV!ResponseValid,
                TV!TokenTypeValid, TV!AnswersWithId, TV!AnswersWithTokens, TV!ClaimsValid
  <2>5. Withdrawn(request[v])'
    <3>1. r.kid \in Nat /\ r.keys \in SUBSET (1 .. MaxKeys)
      BY <1>1 DEF RequestRecords
    <3>2. /\ r.kid <= newest /\ r.keys \subseteq 1 .. newest
          /\ r.stage = "served" /\ r.kid \notin r.keys => r.kid \notin published
      BY <2>2 DEF RequestOK, Withdrawn
    <3>3. r.kid <= newest' /\ r.keys \subseteq 1 .. newest' /\ r.kid \in 0 .. newest
      BY <1>1, <3>1, <3>2
    <3>q. QED  BY <2>2, <3>2, <3>3 DEF Withdrawn
  <2>6. Right(request[v])'
    <3>1. Right(r) /\ r.kid \in 0 .. newest
      BY <1>1, <2>2 DEF RequestOK, RequestRecords, Withdrawn
    <3>2. r.kid \in published' => r.kid \in published  BY <3>1
    <3>q. QED
      BY <2>2, <3>1, <3>2 DEF Right, Demands, IgnoresSignature, HasPkce
  <2>7. (request[v] \in RequestRecords)'  BY <2>2 DEF RequestRecords, TV!Flags, TV!Over, TV!Faults, TV!OfIdToken
  <2>q. QED  BY <2>2, <2>3, <2>4, <2>5, <2>6, <2>7 DEF RequestOK
<1>3. (client \subseteq TV!Flags \cup {"acrValues", "fragment"})'
  BY DEF VerifyInv, TV!Flags
<1>4. (request \in [Verified -> RequestRecords])'
  BY DEF RequestRecords, Verified, TV!Flags, TV!Over, TV!Faults, TV!OfIdToken
<1>5. KeysOfServer'  BY DEF KeysOfServer
<1>q. QED  BY <1>2, <1>3, <1>4, <1>5 DEF VerifyInv

\* One request changes, and its answer is not yet known or keeps its keys.
LEMMA VerifyOne ==
    ASSUME VerifyInv, NEW v \in Verified, NEW r \in RequestRecords, RequestOK(r),
           TV!Set(v, r), cached' \subseteq 1 .. newest,
           UNCHANGED <<client, newest, published>>
    PROVE  VerifyInv'
<1>1. PICK next : next = [request EXCEPT ![v] = r]  OBVIOUS
<1>2. /\ next \in [Verified -> RequestRecords]
      /\ \A w \in Verified : next[w] = IF w = v THEN r ELSE request[w]
  BY <1>1 DEF VerifyInv
<1>3. \A w \in Verified : RequestOK(next[w])  BY <1>2 DEF VerifyInv
<1>4. request' = next  BY <1>1 DEF TV!Set
<1>5. newest \in Nat  BY BoundsAssumption DEF VerifyInv, KeysOfServer
<1>q. QED  BY <1>2, <1>3, <1>4, <1>5, VerifyKept DEF VerifyInv, KeysOfServer

\* A verdict that is right is as the invariant has it.
LEMMA VerdictOK ==
    ASSUME VerifyInv, NEW r \in RequestRecords, RequestOK(r), NEW good \in BOOLEAN,
           good /\ TV!Complete(r) => ~Demands(r, r.fault) \/ (r.fault = "nonce" /\ r.direct),
           ~(good /\ TV!Complete(r)) => Demands(r, r.fault) \/ r.kid \notin published
    PROVE  TV!Verdict(r, good) \in RequestRecords /\ RequestOK(TV!Verdict(r, good))
<1>1. PICK s : s = TV!Verdict(r, good)  OBVIOUS
<1>2. /\ s.path = r.path /\ s.on = r.on /\ s.off = r.off /\ s.direct = r.direct
      /\ s.fault = r.fault /\ s.kid = r.kid /\ s.params = {} /\ s.keys = {}
      /\ s.stage = IF good /\ TV!Complete(r) THEN "tokens" ELSE "refused"
      /\ s \in RequestRecords
  <2>1. PICK g \in BOOLEAN : g <=> good /\ TV!Complete(r)  BY Zenon
  <2>2. s = [r EXCEPT !.stage = IF g THEN "tokens" ELSE "refused",
                      !.params = {}, !.keys = {}]
    BY <1>1, <2>1, Zenon DEF TV!Verdict
  <2>3. (IF g THEN "tokens" ELSE "refused") \in TV!Over  BY DEF TV!Over
  <2>q. QED  BY <2>1, <2>2, <2>3 DEF RequestRecords
<1>3. Demands(s, s.fault) <=> Demands(r, r.fault)
  BY <1>2 DEF Demands, IgnoresSignature, HasPkce, Authorizes
<1>4. Right(s)  BY <1>2, <1>3 DEF Right
<1>5. Withdrawn(s)  BY <1>2 DEF RequestOK, Withdrawn
<1>6. Passed(s)  BY <1>2 DEF Passed
<1>q. QED  BY <1>1, <1>2, <1>4, <1>5, <1>6 DEF RequestOK

\* A request goes on to its next stage, and keeps what was asked.
LEMMA StageOK ==
    ASSUME VerifyInv, NEW r \in RequestRecords, NEW s \in RequestRecords,
           s.path = r.path, s.on = r.on, s.off = r.off, s.params = r.params,
           s.direct = r.direct
    PROVE  /\ Carried(r) => Carried(s)
           /\ TV!FaultsOf(s) = TV!FaultsOf(r)
           /\ TV!Lands(s) <=> TV!Lands(r)
           /\ TV!AnswersWithTokens(s) <=> TV!AnswersWithTokens(r)
           /\ TV!AnswersWithId(s) <=> TV!AnswersWithId(r)
           /\ s.fault = r.fault =>
                 /\ TV!ResponseValid(r) => TV!ResponseValid(s)
                 /\ TV!TokenTypeValid(r) => TV!TokenTypeValid(s)
                 /\ TV!ClaimsValid(r) => TV!ClaimsValid(s)
<1>1. Carried(r) => Carried(s)  BY DEF Carried, Authorizes, HasPkce
<1>2. /\ TV!AnswersWithTokens(s) <=> TV!AnswersWithTokens(r)
      /\ TV!AnswersWithId(s) <=> TV!AnswersWithId(r)
      /\ TV!Lands(s) <=> TV!Lands(r)
  BY DEF TV!AnswersWithTokens, TV!AnswersWithId, TV!Lands
<1>3. TV!FaultsOf(s) = TV!FaultsOf(r)  BY <1>2 DEF TV!FaultsOf
<1>4. ASSUME s.fault = r.fault
      PROVE  /\ TV!ResponseValid(r) => TV!ResponseValid(s)
             /\ TV!TokenTypeValid(r) => TV!TokenTypeValid(s)
             /\ TV!ClaimsValid(r) => TV!ClaimsValid(s)
  BY <1>2, <1>4 DEF TV!ResponseValid, TV!TokenTypeValid, TV!ClaimsValid
<1>q. QED  BY <1>1, <1>2, <1>3, <1>4

\* A request is sent with parameters that carry what they should.
LEMMA VerifySent ==
    ASSUME VerifyInv, NEW v \in Verified, NEW a \in AskRecords,
           NEW params \in SUBSET (TV!Flags \cup {"acrValues", "fragment", "nonce", "state",
                                                 "openid", "access", "id", "code"}),
           TV!Send(v, a, params),
           \A r \in RequestRecords :
               /\ r.path = a.path /\ r.on = a.on /\ r.off = a.off /\ r.params = params
               /\ r.direct <=> a.path = "refresh"
               => Carried(r)
    PROVE  VerifyInv'
<1>1. PICK r \in RequestRecords : r = request[v] /\ RequestOK(r)  BY DEF VerifyInv
<1>2. PICK d \in BOOLEAN : d <=> a.path = "refresh"  BY Zenon
<1>3. PICK s : s = [r EXCEPT !.path = a.path, !.on = a.on, !.off = a.off,
                             !.params = params, !.stage = "sent", !.direct = d]
  OBVIOUS
<1>4. TV!Set(v, s) /\ UNCHANGED <<client, newest, published, cached>>
  <2>1. d = (a.path = "refresh")  BY <1>2
  <2>q. QED  BY <1>1, <1>3, <2>1 DEF TV!Send
<1>5. /\ s \in RequestRecords
      /\ s.path = a.path /\ s.on = a.on /\ s.off = a.off /\ s.params = params
      /\ s.direct = d /\ s.stage = "sent" /\ s.kid = r.kid /\ s.keys = r.keys
  BY <1>3 DEF RequestRecords, AskRecords
<1>6. Carried(s)  BY <1>2, <1>5
<1>7. Passed(s) /\ Withdrawn(s) /\ Right(s)
  BY <1>1, <1>5 DEF RequestOK, Passed, Withdrawn, Right
<1>8. RequestOK(s)  BY <1>5, <1>6, <1>7 DEF RequestOK
<1>q. QED  BY <1>4, <1>5, <1>8, VerifyOne DEF VerifyInv, KeysOfServer

LEMMA VerifyAsked ==
    ASSUME VerifyInv, NEW v \in Verified,
           TV!Authorize(v) \/ TV!EnrollAuthenticator(v) \/ TV!RenewTokensWithRefresh(v)
    PROVE  VerifyInv'
<1>1. SomeAsks[v] \subseteq AskRecords  BY AsksTyped
<1>2. client \subseteq TV!Flags \cup {"acrValues", "fragment"}  BY DEF VerifyInv
<1>3. ASSUME NEW a \in SomeAsks[v], a.path \in {"page", "redirect"},
             TV!Send(v, a, IF a.path = "page" THEN TV!Prepared(a.on, a.off)
                           ELSE TV!Meta(TV!Prepared(a.on, a.off)))
      PROVE  VerifyInv'
  <2>1. PICK params : params = IF a.path = "page" THEN TV!Prepared(a.on, a.off)
                               ELSE TV!Meta(TV!Prepared(a.on, a.off))
    OBVIOUS
  <2>2. a \in AskRecords  BY <1>1, <1>3
  <2>3. /\ a.on \subseteq {"acrValues", "ignoreSignature"}
        /\ TV!Prepared(a.on, a.off) \subseteq
              TV!Flags \cup {"acrValues", "fragment", "nonce", "state",
                             "openid", "access", "id", "code"}
    BY <1>2, <2>2 DEF AskRecords, TV!Prepared, TV!Defaults, TV!Flags
  <2>4. params \in SUBSET (TV!Flags \cup {"acrValues", "fragment", "nonce", "state",
                                          "openid", "access", "id", "code"})
    BY <2>1, <2>3 DEF TV!Meta
  <2>5. ASSUME NEW r \in RequestRecords, r.path = a.path, r.on = a.on, r.off = a.off,
               r.params = params, r.direct <=> a.path = "refresh"
        PROVE  Carried(r)
    BY <1>3, <2>1, <2>5, PreparedCarried DEF Authorizes
  <2>q. QED  BY <1>3, <2>1, <2>2, <2>4, <2>5, VerifySent
<1>4. ASSUME NEW a \in SomeAsks[v], a.path = "enroll",
             TV!Send(v, a, TV!Enrolling(a.on))
      PROVE  VerifyInv'
  <2>1. a \in AskRecords  BY <1>1, <1>4
  <2>2. TV!Enrolling(a.on) \in
           SUBSET (TV!Flags \cup {"acrValues", "fragment", "nonce", "state",
                                  "openid", "access", "id", "code"})
    BY DEF TV!Enrolling, TV!EnrollDefaults
  <2>3. ASSUME NEW r \in RequestRecords, r.path = a.path, r.on = a.on, r.off = a.off,
               r.params = TV!Enrolling(a.on), r.direct <=> a.path = "refresh"
        PROVE  Carried(r)
    BY <1>4, <2>3, OthersCarried
  <2>q. QED  BY <1>4, <2>1, <2>2, <2>3, VerifySent
<1>5. ASSUME NEW a \in SomeAsks[v], a.path = "refresh",
             TV!Send(v, a, TV!Refreshing)
      PROVE  VerifyInv'
  <2>1. a \in AskRecords  BY <1>1, <1>5
  <2>2. TV!Refreshing \in
           SUBSET (TV!Flags \cup {"acrValues", "fragment", "nonce", "state",
                                  "openid", "access", "id", "code"})
    BY DEF TV!Refreshing, TV!Flags
  <2>3. ASSUME NEW r \in RequestRecords, r.path = a.path, r.on = a.on, r.off = a.off,
               r.params = TV!Refreshing, r.direct <=> a.path = "refresh"
        PROVE  Carried(r)
    BY <1>5, <2>3, OthersCarried
  <2>q. QED  BY <1>5, <2>1, <2>2, <2>3, VerifySent
<1>6. CASE TV!Authorize(v)  BY <1>3, <1>6 DEF TV!Authorize
<1>7. CASE TV!EnrollAuthenticator(v)  BY <1>4, <1>7 DEF TV!EnrollAuthenticator
<1>8. CASE TV!RenewTokensWithRefresh(v)  BY <1>5, <1>8 DEF TV!RenewTokensWithRefresh
<1>q. QED  BY <1>6, <1>7, <1>8

\* The server answers, or a request fails.
LEMMA VerifyAnswered ==
    ASSUME VerifyInv, NEW v \in Verified, TV!Answer(v) \/ TV!Fails(v)
    PROVE  VerifyInv'
<1>1. PICK r \in RequestRecords : r = request[v] /\ RequestOK(r)  BY DEF VerifyInv
<1>2. newest \in 1 .. MaxKeys /\ newest \in Nat /\ newest # 0
  BY BoundsAssumption DEF VerifyInv, KeysOfServer
<1>3. CASE TV!Answer(v)
  <2>1. PICK fault \in TV!FaultsOf(r) :
           TV!Set(v, [r EXCEPT !.stage = IF TV!Lands(r) THEN "landed" ELSE "answered",
                               !.fault = fault, !.kid = IF fault = "kid" THEN 0 ELSE newest])
    BY <1>1, <1>3 DEF TV!Answer, TV!FaultsOf
  <2>2. PICK to : to = IF TV!Lands(r) THEN "landed" ELSE "answered"  OBVIOUS
  <2>3. PICK k : k = IF fault = "kid" THEN 0 ELSE newest  OBVIOUS
  <2>4. PICK s : s = [r EXCEPT !.stage = to, !.fault = fault, !.kid = k]  OBVIOUS
  <2>5. /\ k \in 0 .. MaxKeys /\ k <= newest /\ (fault = "kid" <=> k = 0)
        /\ fault \in TV!Faults /\ to \in {"landed", "answered"}
    <3>1. fault \in TV!Faults  BY <2>1 DEF TV!FaultsOf, TV!Faults
    <3>2. k \in 0 .. MaxKeys /\ k <= newest /\ (fault = "kid" <=> k = 0)
      BY <1>2, <2>3, BoundsAssumption
    <3>q. QED  BY <2>2, <3>1, <3>2
  <2>6. /\ s \in RequestRecords
        /\ s.path = r.path /\ s.on = r.on /\ s.off = r.off /\ s.params = r.params
        /\ s.direct = r.direct /\ s.keys = r.keys
        /\ s.stage = to /\ s.fault = fault /\ s.kid = k
    BY <2>4, <2>5 DEF RequestRecords
  <2>7. Carried(r)  BY <1>1, <1>3 DEF RequestOK, TV!Answer
  <2>8. /\ Carried(s) /\ TV!FaultsOf(s) = TV!FaultsOf(r)
        /\ TV!Lands(s) <=> TV!Lands(r)
    BY <2>6, <2>7, StageOK
  <2>9. Passed(s)  BY <2>1, <2>2, <2>5, <2>6, <2>8 DEF Passed
  <2>10. Withdrawn(s) /\ Right(s)
    BY <1>1, <2>5, <2>6 DEF RequestOK, Withdrawn, Right
  <2>11. RequestOK(s)  BY <2>6, <2>8, <2>9, <2>10 DEF RequestOK
  <2>12. TV!Set(v, s) /\ UNCHANGED <<client, newest, published, cached>>
    BY <1>3, <2>1, <2>2, <2>3, <2>4 DEF TV!Answer
  <2>q. QED  BY <2>6, <2>11, <2>12, VerifyOne DEF VerifyInv, KeysOfServer
<1>4. CASE TV!Fails(v)
  <2>1. PICK s : s = [r EXCEPT !.stage = "failed"]  OBVIOUS
  <2>2. /\ s \in RequestRecords /\ s.stage = "failed" /\ s.kid = r.kid /\ s.keys = r.keys
    BY <2>1 DEF RequestRecords, TV!Over
  <2>3. RequestOK(s)
    BY <1>1, <2>2 DEF RequestOK, Passed, Withdrawn, Right
  <2>4. TV!Set(v, s) /\ UNCHANGED <<client, newest, published, cached>>
    BY <1>1, <1>4, <2>1 DEF TV!Fails
  <2>q. QED  BY <2>2, <2>3, <2>4, VerifyOne DEF VerifyInv, KeysOfServer
<1>q. QED  BY <1>3, <1>4

\* A page reads the answer that landed on it where the server put it, and passes
\* over none that it should look at.
LEMMA VerifyLanded ==
    ASSUME VerifyInv, NEW v \in Verified, TV!HandleRedirect(v) \/ TV!ParseFromUrl(v)
    PROVE  VerifyInv'
<1>1. PICK r \in RequestRecords : r = request[v] /\ RequestOK(r)  BY DEF VerifyInv
<1>2. r.stage = "landed"  BY <1>1 DEF TV!HandleRedirect, TV!ParseFromUrl
<1>3. /\ Carried(r) /\ TV!Lands(r) /\ r.fault \in TV!FaultsOf(r)
      /\ r.fault = "kid" <=> r.kid = 0
  BY <1>1, <1>2 DEF RequestOK, Passed
<1>4. ~r.direct /\ r.path \in {"redirect", "enroll"}  BY <1>3 DEF TV!Lands
<1>5. ASSUME r.path # "enroll", "pkce" \notin r.off
      PROVE  TV!PlaceOf(r) = TV!HashOrSearch /\ TV!IsLoginRedirect(r)
  <2>1. Authorizes(r) /\ (HasPkce(r) <=> "pkce" \in client)
    BY <1>4, <1>5 DEF Authorizes, HasPkce
  <2>2. "fragment" \in r.params <=> "fragment" \in client
    BY <1>3, <1>4 DEF Carried
  <2>3. CASE "pkce" \in client
    <3>1. "code" \in r.params  BY <1>3, <1>4, <2>1, <2>3 DEF Carried
    <3>2. TV!PlaceOf(r) = TV!HashOrSearch
      BY <2>2, <2>3, <3>1 DEF TV!PlaceOf, TV!HashOrSearch, TV!AnswersWithTokens
    <3>q. QED  BY <2>3, <3>1, <3>2 DEF TV!IsLoginRedirect
  <2>4. CASE "pkce" \notin client
    <3>1. "code" \notin r.params /\ "access" \in r.params /\ "id" \in r.params
      BY <1>3, <1>4, <2>1, <2>4 DEF Carried
    <3>2. TV!AnswersWithTokens(r)  BY <1>5, <3>1 DEF TV!AnswersWithTokens
    <3>3. TV!PlaceOf(r) = TV!HashOrSearch
      BY <2>4, <3>2 DEF TV!PlaceOf, TV!HashOrSearch
    <3>4. (r.params \cap {"access", "id"}) \ {r.fault} # {}  BY <3>1
    <3>q. QED  BY <2>4, <3>2, <3>3, <3>4 DEF TV!IsLoginRedirect
  <2>q. QED  BY <2>3, <2>4
<1>6. PICK to \in {"answered", "ignored", "unread"} :
         /\ to # "answered" => r.path = "enroll" \/ "pkce" \in r.off
         /\ TV!Set(v, [r EXCEPT !.stage = to])
         /\ UNCHANGED <<client, newest, published, cached>>
  <2>1. CASE TV!HandleRedirect(v)
    <3>1. PICK to : to = IF TV!IsLoginRedirect(r) THEN "answered" ELSE "ignored"  OBVIOUS
    <3>2. TV!Set(v, [r EXCEPT !.stage = to])
      BY <1>1, <2>1, <3>1 DEF TV!HandleRedirect
    <3>q. QED  BY <1>5, <2>1, <3>1, <3>2 DEF TV!HandleRedirect
  <2>2. CASE TV!ParseFromUrl(v)
    <3>1. PICK to : to = IF TV!PlaceOf(r) = TV!HashOrSearch THEN "answered" ELSE "unread"
      OBVIOUS
    <3>2. TV!Set(v, [r EXCEPT !.stage = to])
      BY <1>1, <2>2, <3>1 DEF TV!ParseFromUrl
    <3>q. QED  BY <1>5, <2>2, <3>1, <3>2 DEF TV!ParseFromUrl
  <2>q. QED  BY <2>1, <2>2
<1>7. PICK s : s = [r EXCEPT !.stage = to]  OBVIOUS
<1>8. /\ s \in RequestRecords
      /\ s.path = r.path /\ s.on = r.on /\ s.off = r.off /\ s.params = r.params
      /\ s.direct = r.direct /\ s.keys = r.keys /\ s.stage = to
      /\ s.fault = r.fault /\ s.kid = r.kid
  BY <1>7 DEF RequestRecords, TV!Over
<1>9. Carried(s) /\ s.fault \in TV!FaultsOf(s)  BY <1>3, <1>8, StageOK
<1>10. Passed(s)  BY <1>3, <1>8, <1>9 DEF Passed
<1>11. Withdrawn(s) /\ Right(s)
  BY <1>1, <1>6, <1>8 DEF RequestOK, Withdrawn, Right
<1>12. RequestOK(s)  BY <1>8, <1>9, <1>10, <1>11 DEF RequestOK
<1>q. QED  BY <1>6, <1>7, <1>8, <1>12, VerifyOne DEF VerifyInv, KeysOfServer

\* A verdict on a request keeps the invariant when it is right.
LEMMA VerifyJudged ==
    ASSUME VerifyInv, NEW v \in Verified, NEW r \in RequestRecords, r = request[v],
           NEW good \in BOOLEAN, TV!Set(v, TV!Verdict(r, good)),
           good /\ TV!Complete(r) => ~Demands(r, r.fault) \/ (r.fault = "nonce" /\ r.direct),
           ~(good /\ TV!Complete(r)) => Demands(r, r.fault) \/ r.kid \notin published,
           cached' \subseteq 1 .. newest, UNCHANGED <<client, newest, published>>
    PROVE  VerifyInv'
<1>1. RequestOK(r)  BY DEF VerifyInv
<1>2. PICK s : s = TV!Verdict(r, good)  OBVIOUS
<1>3. s \in RequestRecords /\ RequestOK(s)  BY <1>1, <1>2, VerdictOK
<1>4. TV!Set(v, s)  BY <1>2
<1>q. QED  BY <1>3, <1>4, VerifyOne

\* A request goes on to its next stage and keeps the invariant.
LEMMA VerifyGoesOn ==
    ASSUME VerifyInv, NEW v \in Verified, NEW r \in RequestRecords, r = request[v],
           Carried(r), NEW to \in {"claims", "key", "asking", "served"},
           NEW keys \in SUBSET (1 .. newest),
           TV!Set(v, [r EXCEPT !.stage = to, !.keys = keys]),
           r.fault \in TV!FaultsOf(r), r.fault = "kid" <=> r.kid = 0,
           TV!ResponseValid(r), TV!TokenTypeValid(r), TV!AnswersWithId(r), r.fault # "id",
           to # "claims" => TV!ClaimsValid(r) /\ "ignoreSignature" \notin r.params,
           to = "served" => keys = published,
           cached' \subseteq 1 .. newest, UNCHANGED <<client, newest, published>>
    PROVE  VerifyInv'
<1>1. RequestOK(r)  BY DEF VerifyInv
<1>2. keys \subseteq 1 .. MaxKeys
  <2>1. newest \in Nat /\ MaxKeys \in Nat /\ newest <= MaxKeys
    BY BoundsAssumption DEF VerifyInv, KeysOfServer
  <2>2. \A k \in 1 .. newest : k \in 1 .. MaxKeys  BY <2>1
  <2>q. QED  BY <2>2
<1>3. PICK s : s = [r EXCEPT !.stage = to, !.keys = keys]  OBVIOUS
<1>4. /\ s \in RequestRecords
      /\ s.path = r.path /\ s.on = r.on /\ s.off = r.off /\ s.params = r.params
      /\ s.direct = r.direct /\ s.keys = keys /\ s.stage = to
      /\ s.fault = r.fault /\ s.kid = r.kid
  <2> DEFINE S == {"new", "sent", "landed", "answered", "claims", "key", "asking", "served"}
                  \cup TV!Over
             P == SUBSET (TV!Flags \cup {"acrValues", "fragment", "nonce", "state",
                                          "openid", "access", "id", "code"})
             K == SUBSET (1 .. MaxKeys)
             F == TV!Faults
  <2>1. to \in S /\ keys \in K  BY <1>2
  <2>2. RequestRecords = [path : {"redirect", "page", "refresh", "enroll"},
                          on : SUBSET {"acrValues", "ignoreSignature"},
                          off : SUBSET {"pkce", "ignoreSignature", "openid"},
                          params : P, direct : BOOLEAN, stage : S, fault : F,
                          kid : 0 .. MaxKeys, keys : K]
    BY DEF RequestRecords
  <2> HIDE DEF S, P, K, F
  <2>3. s \in RequestRecords  BY <1>3, <2>1, <2>2
  <2>q. QED  BY <1>3, <2>2, <2>3
<1>5. /\ Carried(s) /\ s.fault \in TV!FaultsOf(s) /\ TV!AnswersWithId(s)
      /\ TV!ResponseValid(s) /\ TV!TokenTypeValid(s)
      /\ to # "claims" => TV!ClaimsValid(s)
  BY <1>4, StageOK
<1>6. Passed(s)  BY <1>4, <1>5 DEF Passed
<1>7. Withdrawn(s) /\ Right(s)  BY <1>1, <1>4 DEF RequestOK, Withdrawn, Right
<1>8. RequestOK(s)  BY <1>4, <1>5, <1>6, <1>7 DEF RequestOK
<1>9. TV!Set(v, s)  BY <1>3
<1>q. QED  BY <1>4, <1>8, <1>9, VerifyOne

\* handleOAuthResponse(): what it refuses is demanded, a code is exchanged, and
\* what needs no more checks has nothing wrong that is demanded.
LEMMA VerifyHandled ==
    ASSUME VerifyInv, NEW v \in Verified, TV!HandleOAuthResponse(v)
    PROVE  VerifyInv'
<1>1. PICK r \in RequestRecords : r = request[v] /\ RequestOK(r)  BY DEF VerifyInv
<1>2. r.stage = "answered" /\ UNCHANGED <<client, newest, published, cached>>
  BY <1>1 DEF TV!HandleOAuthResponse
<1>3. /\ Carried(r) /\ r.fault \in TV!FaultsOf(r)
      /\ r.fault = "kid" <=> r.kid = 0
      /\ cached' \subseteq 1 .. newest
  BY <1>1, <1>2 DEF RequestOK, Passed, VerifyInv, KeysOfServer
<1>4. CASE ~(TV!ResponseValid(r) /\ TV!TokenTypeValid(r)) /\ TV!Set(v, TV!Verdict(r, FALSE))
  <2>1. Demands(r, r.fault)  BY <1>3, <1>4, RefusesRight
  <2>q. QED  BY <1>1, <1>2, <1>3, <1>4, <2>1, VerifyJudged
<1>5. CASE /\ "code" \in r.params
           /\ TV!Set(v, [r EXCEPT !.params = TV!Exchanged(r.params), !.direct = TRUE,
                                  !.stage = "sent"])
  <2>1. PICK params : params = TV!Exchanged(r.params)  OBVIOUS
  <2>2. params \subseteq {"acrValues", "ignoreSignature", "dpop", "access", "openid", "id"}
    BY <2>1 DEF TV!Exchanged
  <2>3. PICK s : s = [r EXCEPT !.params = params, !.direct = TRUE, !.stage = "sent"]
    OBVIOUS
  <2>4. /\ s \in RequestRecords
        /\ s.path = r.path /\ s.on = r.on /\ s.off = r.off /\ s.params = params
        /\ s.direct = TRUE /\ s.keys = r.keys /\ s.stage = "sent"
        /\ s.fault = r.fault /\ s.kid = r.kid
    BY <2>2, <2>3 DEF RequestRecords, TV!Flags
  <2>5. Carried(s)  BY <1>3, <1>5, <2>1, <2>4, OthersCarried
  <2>6. Passed(s) /\ Withdrawn(s) /\ Right(s)
    BY <1>1, <2>4 DEF RequestOK, Passed, Withdrawn, Right
  <2>7. RequestOK(s)  BY <2>4, <2>5, <2>6 DEF RequestOK
  <2>8. TV!Set(v, s)  BY <1>5, <2>1, <2>3
  <2>q. QED  BY <1>2, <1>3, <2>4, <2>7, <2>8, VerifyOne
<1>6. CASE /\ TV!ResponseValid(r) /\ TV!TokenTypeValid(r)
           /\ TV!AnswersWithId(r) /\ r.fault # "id"
           /\ TV!Set(v, [r EXCEPT !.stage = "claims"])
  <2>1. r.keys \in SUBSET (1 .. newest)  BY <1>1 DEF RequestOK, Withdrawn
  <2>2. [r EXCEPT !.stage = "claims"] = [r EXCEPT !.stage = "claims", !.keys = r.keys]
    BY DEF RequestRecords
  <2>3. TV!Set(v, [r EXCEPT !.stage = "claims", !.keys = r.keys])  BY <1>6, <2>2
  <2>q. QED  BY <1>1, <1>2, <1>3, <1>6, <2>1, <2>3, VerifyGoesOn
<1>7. CASE /\ TV!ResponseValid(r) /\ TV!TokenTypeValid(r) /\ "code" \notin r.params
           /\ ~(TV!AnswersWithId(r) /\ r.fault # "id")
           /\ TV!Set(v, TV!Verdict(r, TRUE))
  <2>1. TV!Complete(r) => ~Demands(r, r.fault) \/ (r.fault = "nonce" /\ r.direct)
    BY <1>3, <1>7, AcceptsRight
  <2>2. ~TV!Complete(r) => Demands(r, r.fault)  BY <1>3, RefusesRight
  <2>q. QED  BY <1>1, <1>2, <1>3, <1>7, <2>1, <2>2, VerifyJudged
<1>q. QED  BY <1>1, <1>4, <1>5, <1>6, <1>7 DEF TV!HandleOAuthResponse

\* The claims, then the key and the signature: the checks of verifyToken().
LEMMA VerifyChecked ==
    ASSUME VerifyInv, NEW v \in Verified,
           TV!ValidateClaims(v) \/ TV!GetKey(v) \/ TV!ServeKeys(v) \/ TV!KeysArrive(v)
    PROVE  VerifyInv'
<1>1. PICK r \in RequestRecords : r = request[v] /\ RequestOK(r)  BY DEF VerifyInv
<1>2. r.stage \in {"claims", "key", "asking", "served"}
  BY <1>1 DEF TV!ValidateClaims, TV!GetKey, TV!ServeKeys, TV!KeysArrive
<1>3. /\ Carried(r) /\ r.fault \in TV!FaultsOf(r)
      /\ r.fault = "kid" <=> r.kid = 0
      /\ TV!ResponseValid(r) /\ TV!TokenTypeValid(r) /\ TV!AnswersWithId(r)
      /\ r.fault # "id"
      /\ r.stage # "claims" => TV!ClaimsValid(r) /\ "ignoreSignature" \notin r.params
      /\ r.keys \subseteq 1 .. newest
      /\ r.stage = "served" /\ r.kid \notin r.keys => r.kid \notin published
  BY <1>1, <1>2 DEF RequestOK, Passed, Withdrawn
<1>4. /\ UNCHANGED <<client, newest, published>>
      /\ cached \subseteq 1 .. newest /\ published \subseteq 1 .. newest
      /\ 0 \notin 1 .. newest
  BY DEF TV!ValidateClaims, TV!GetKey, TV!ServeKeys, TV!KeysArrive, VerifyInv, KeysOfServer
<1>5. cached' \subseteq 1 .. newest
  BY <1>1, <1>3, <1>4 DEF TV!ValidateClaims, TV!GetKey, TV!ServeKeys, TV!KeysArrive
<1>6. "code" \notin r.params  BY <1>3 DEF TV!AnswersWithId, TV!AnswersWithTokens
<1>7. ~TV!Complete(r) => Demands(r, r.fault)  BY <1>3, RefusesRight
<1>8. ASSUME NEW good \in BOOLEAN, TV!Set(v, TV!Verdict(r, good)),
             r.stage # "claims", good => TV!SignatureValid(r) /\ r.kid # 0,
             ~good => ~TV!SignatureValid(r) \/ r.kid \notin published
      PROVE  VerifyInv'
  <2>1. good => r.fault \notin {"kid", "signature", "hash"}
    BY <1>3, <1>8 DEF TV!SignatureValid
  <2>2. good /\ TV!Complete(r) => ~Demands(r, r.fault) \/ (r.fault = "nonce" /\ r.direct)
    BY <1>3, <1>6, <1>8, <2>1, AcceptsRight
  <2>3. ~good => Demands(r, r.fault) \/ r.kid \notin published
    BY <1>3, <1>8, RefusesRight
  <2>q. QED  BY <1>1, <1>4, <1>5, <1>7, <1>8, <2>2, <2>3, VerifyJudged
<1>9. CASE TV!ValidateClaims(v)
  <2>1. PICK good \in BOOLEAN : good <=> TV!ClaimsValid(r)
    <3>1. CASE TV!ClaimsValid(r)  BY <3>1
    <3>2. CASE ~TV!ClaimsValid(r)  BY <3>2
    <3>q. QED  BY <3>1, <3>2
  <2>2. CASE ~good \/ "ignoreSignature" \in r.params
    <3>1. TV!Verdict(r, TV!ClaimsValid(r)) = TV!Verdict(r, good)
      BY <2>1 DEF TV!Verdict
    <3>2. TV!Set(v, TV!Verdict(r, good))
      BY <1>1, <1>9, <2>1, <2>2, <3>1 DEF TV!ValidateClaims
    <3>3. good /\ TV!Complete(r) => ~Demands(r, r.fault) \/ (r.fault = "nonce" /\ r.direct)
      BY <1>3, <1>6, <2>1, <2>2, AcceptsRight
    <3>4. ~good => Demands(r, r.fault)  BY <1>3, <2>1, RefusesRight
    <3>q. QED  BY <1>1, <1>4, <1>5, <1>7, <3>2, <3>3, <3>4, VerifyJudged
  <2>3. CASE good /\ "ignoreSignature" \notin r.params
    <3>1. TV!Set(v, [r EXCEPT !.stage = "key"])
      BY <1>1, <1>9, <2>1, <2>3 DEF TV!ValidateClaims
    <3>2. [r EXCEPT !.stage = "key"] = [r EXCEPT !.stage = "key", !.keys = r.keys]
      BY DEF RequestRecords
    <3>3. TV!Set(v, [r EXCEPT !.stage = "key", !.keys = r.keys])  BY <3>1, <3>2
    <3>q. QED  BY <1>1, <1>3, <1>4, <1>5, <2>1, <2>3, <3>3, VerifyGoesOn
  <2>q. QED  BY <2>2, <2>3
<1>10. CASE TV!GetKey(v)
  <2>1. r.stage = "key"  BY <1>1, <1>10 DEF TV!GetKey
  <2>2. CASE r.kid \in cached /\ TV!Set(v, TV!Verdict(r, TV!SignatureValid(r)))
    <3>1. PICK good \in BOOLEAN : good <=> TV!SignatureValid(r)
      <4>1. CASE TV!SignatureValid(r)  BY <4>1
      <4>2. CASE ~TV!SignatureValid(r)  BY <4>2
      <4>q. QED  BY <4>1, <4>2
    <3>2. TV!Verdict(r, TV!SignatureValid(r)) = TV!Verdict(r, good)
      BY <3>1 DEF TV!Verdict
    <3>q. QED  BY <1>4, <1>8, <2>1, <2>2, <3>1, <3>2
  <2>3. CASE TV!Set(v, [r EXCEPT !.stage = "asking"])
    <3>1. [r EXCEPT !.stage = "asking"] = [r EXCEPT !.stage = "asking", !.keys = r.keys]
      BY DEF RequestRecords
    <3>2. TV!Set(v, [r EXCEPT !.stage = "asking", !.keys = r.keys])  BY <2>3, <3>1
    <3>q. QED  BY <1>1, <1>3, <1>4, <1>5, <2>1, <3>2, VerifyGoesOn
  <2>q. QED  BY <1>1, <1>10, <2>2, <2>3 DEF TV!GetKey
<1>11. CASE TV!ServeKeys(v)
  <2>1. r.stage = "asking" /\ TV!Set(v, [r EXCEPT !.stage = "served", !.keys = published])
    BY <1>1, <1>11 DEF TV!ServeKeys
  <2>2. PICK keys : keys = published  OBVIOUS
  <2>3. TV!Set(v, [r EXCEPT !.stage = "served", !.keys = keys])  BY <2>1, <2>2
  <2>q. QED  BY <1>1, <1>3, <1>4, <1>5, <2>1, <2>2, <2>3, VerifyGoesOn
<1>12. CASE TV!KeysArrive(v)
  <2>1. r.stage = "served"  BY <1>1, <1>12 DEF TV!KeysArrive
  <2>2. PICK good \in BOOLEAN : good <=> r.kid \in r.keys /\ TV!SignatureValid(r)
    <3>1. CASE r.kid \in r.keys /\ TV!SignatureValid(r)  BY <3>1
    <3>2. CASE ~(r.kid \in r.keys /\ TV!SignatureValid(r))  BY <3>2
    <3>q. QED  BY <3>1, <3>2
  <2>3. TV!Verdict(r, r.kid \in r.keys /\ TV!SignatureValid(r)) = TV!Verdict(r, good)
    BY <2>2 DEF TV!Verdict
  <2>4. TV!Set(v, TV!Verdict(r, good))  BY <1>1, <1>12, <2>3 DEF TV!KeysArrive
  <2>5. good => TV!SignatureValid(r) /\ r.kid # 0  BY <1>3, <1>4, <2>2
  <2>6. ~good => ~TV!SignatureValid(r) \/ r.kid \notin published
    BY <1>3, <2>1, <2>2
  <2>q. QED  BY <1>8, <2>1, <2>4, <2>5, <2>6
<1>q. QED  BY <1>9, <1>10, <1>11, <1>12

\* The server changes its keys, or the cache forgets them.
LEMMA VerifyKeys ==
    ASSUME VerifyInv,
           \/ TV!Rotates \/ (\E k \in 1 .. MaxKeys : TV!Retires(k)) \/ TV!CacheExpires
           \/ UNCHANGED verifyVars
    PROVE  VerifyInv'
<1>1. /\ newest \in 1 .. MaxKeys /\ newest \in Nat /\ MaxKeys \in Nat
      /\ published \subseteq 1 .. newest /\ cached \subseteq 1 .. newest
  BY BoundsAssumption DEF VerifyInv, KeysOfServer
<1>2. PICK next : next = request  OBVIOUS
<1>3. /\ next \in [Verified -> RequestRecords]
      /\ \A v \in Verified : RequestOK(next[v])
  BY <1>2 DEF VerifyInv
<1>4. request' = next /\ client' = client
  BY <1>2 DEF TV!Rotates, TV!Retires, TV!CacheExpires, verifyVars
<1>5. /\ newest' \in 1 .. MaxKeys /\ newest <= newest'
      /\ published' \subseteq 1 .. newest' /\ cached' \subseteq 1 .. newest'
      /\ \A k \in 0 .. newest : k \in published' => k \in published
  <2>1. CASE TV!Rotates
    <3>1. /\ newest < MaxKeys /\ newest' = newest + 1 /\ cached' = cached
          /\ published' = published \cup {newest + 1}
      BY <2>1 DEF TV!Rotates
    <3>q. QED  BY <1>1, <3>1
  <2>2. CASE \E k \in 1 .. MaxKeys : TV!Retires(k)
    BY <1>1, <2>2 DEF TV!Retires
  <2>3. CASE TV!CacheExpires
    BY <1>1, <2>3 DEF TV!CacheExpires
  <2>4. CASE UNCHANGED verifyVars
    BY <1>1, <2>4 DEF verifyVars
  <2>q. QED  BY <2>1, <2>2, <2>3, <2>4
<1>q. QED  BY <1>3, <1>4, <1>5, VerifyKept

\* Every step keeps the invariant.
LEMMA VerifyStep == VerifyInv /\ [TV!Next]_verifyVars => VerifyInv'
<1> SUFFICES ASSUME VerifyInv, [TV!Next]_verifyVars  PROVE VerifyInv'
  OBVIOUS
<1>1. CASE UNCHANGED verifyVars  BY <1>1, VerifyKeys
<1>2. CASE TV!Next
  <2>1. CASE TV!Rotates \/ (\E k \in 1 .. MaxKeys : TV!Retires(k)) \/ TV!CacheExpires
    BY <2>1, VerifyKeys
  <2>2. ASSUME NEW v \in Verified,
               \/ TV!Authorize(v) \/ TV!EnrollAuthenticator(v)
               \/ TV!RenewTokensWithRefresh(v)
               \/ TV!Answer(v) \/ TV!HandleRedirect(v) \/ TV!ParseFromUrl(v)
               \/ TV!HandleOAuthResponse(v) \/ TV!ValidateClaims(v)
               \/ TV!GetKey(v) \/ TV!ServeKeys(v) \/ TV!KeysArrive(v) \/ TV!Fails(v)
        PROVE  VerifyInv'
    BY <2>2, VerifyAsked, VerifyAnswered, VerifyLanded, VerifyHandled, VerifyChecked
  <2>q. QED  BY <1>2, <2>1, <2>2 DEF TV!Next, Verified
<1>q. QED  BY <1>1, <1>2

\* It holds before any request.
LEMMA VerifyInit == TV!Init => VerifyInv
<1> SUFFICES ASSUME TV!Init  PROVE VerifyInv
  OBVIOUS
<1>1. 1 \in 1 .. MaxKeys /\ 0 \in 0 .. MaxKeys  BY BoundsAssumption
<1>2. PICK r : r = [path |-> "page", on |-> {}, off |-> {}, params |-> {}, direct |-> FALSE,
                    stage |-> "new", fault |-> "none", kid |-> 0, keys |-> {}]
  OBVIOUS
<1>3. r \in RequestRecords  BY <1>1, <1>2 DEF RequestRecords, TV!Faults, TV!Over
<1>4. request = [v \in Verified |-> r]  BY <1>2 DEF TV!Init, Verified
<1>5. published = {1} /\ newest = 1 /\ cached = {}  BY DEF TV!Init
<1>6. RequestOK(r)
  BY <1>2, <1>3, <1>5 DEF RequestOK, Passed, Withdrawn, Right
<1>7. client \subseteq TV!Flags \cup {"acrValues", "fragment"}
  <2>1. PICK args \in SomeArguments : client = TV!SdkOptions(args)  BY DEF TV!Init
  <2>2. DOMAIN args = {"pkce", "dpop", "allowBearerTokens", "ignoreSignature",
                       "ignoreLifetime", "acrValues", "fragment"}
    BY <2>1 DEF SomeArguments, ArgumentsFor
  <2>q. QED  BY <2>1, <2>2 DEF TV!SdkOptions, TV!Flags
<1>q. QED  BY <1>1, <1>3, <1>4, <1>5, <1>6, <1>7 DEF VerifyInv, KeysOfServer

-------------------------------------------------------------------------------
(* Storage.  What lies in a place is what was saved there last, or nothing, for *)
(* every place that a section can be kept in, whichever of them is found now.   *)

Memory(s) == <<s, "memory", ST!Everywhere>>

\* The places in which a section can be.
Reached == IF platform = "server" THEN {Memory(s) : s \in ST!Sections} ELSE ST!Places

Lies(q) == IF q \in DOMAIN items THEN items[q] ELSE ST!Nothing

\* What is read of a place.
Content(p) ==
    IF platform = "server" /\ p[1] = "idx" THEN Lies(<<Memory("transaction"), "idx">>)
    ELSE IF ST!Separate(p) THEN [f \in ST!Fields |-> Lies(<<p, f>>)[f]]
    ELSE Lies(<<p, "whole">>)

Saved(p) == IF p \in DOMAIN saved THEN saved[p] ELSE {ST!Nothing}

\* A server has its memory only, and nothing of it is ever full.
OnServer == platform = "server" => /\ kept \in [Tabs -> {"memory"}]
                                   /\ given = "none" /\ full = {}

StorageInv == /\ ST!TypeOK
              /\ OnServer
              /\ \A p \in Reached : Content(p) \in Saved(p)

LEMMA ObjectsTyped ==
    /\ ST!Nothing \in ST!Objects
    /\ \A f \in ST!Fields : ST!Nothing[f] = 0
    /\ \A f \in ST!Fields, size \in 0 .. 3 :
          ST!Only(f, size) \in ST!Objects /\ ST!Only(f, size)[f] = size
BY DEF ST!Nothing, ST!Objects, ST!Only, ST!Fields

\* The first type that takes an item, or the last, is one of the types.
LEMMA TypeFound ==
    ASSUME NEW types \in Seq(ST!Types), Len(types) \in 1 .. 3
    PROVE  /\ ST!FindStorageType(types) \in ST!Types
           /\ Len(types) = 1 => ST!FindStorageType(types) = types[1]
<1> DEFINE good == {n \in 1 .. Len(types) :
                       ST!TestStorageType(types[n]) \/ n = Len(types)}
           least == CHOOSE n \in good : \A m \in good : n <= m
<1>1. \E n \in good : \A m \in good : n <= m
  <2>1. Len(types) \in good /\ good \subseteq 1 .. Len(types)  OBVIOUS
  <2>2. Len(types) \in Nat /\ good \subseteq 1 .. 3  BY <2>1
  <2> HIDE DEF good
  <2>3. CASE 1 \in good  BY <2>2, <2>3
  <2>4. CASE 1 \notin good /\ 2 \in good
    <3>1. \A m \in good : 2 <= m  BY <2>2, <2>4
    <3>q. QED  BY <2>4, <3>1
  <2>5. CASE 1 \notin good /\ 2 \notin good
    <3>1. \A m \in good : m = 3  BY <2>2, <2>5
    <3>q. QED  BY <2>1, <3>1
  <2>q. QED  BY <2>3, <2>4, <2>5
<1>2. least \in good  BY <1>1
<1>3. least \in 1 .. Len(types)  BY <1>2
<1>4. ST!FindStorageType(types) = types[least]  BY DEF ST!FindStorageType
<1> HIDE DEF good, least
<1>q. QED  BY <1>3, <1>4

\* The type that is found for a section.
LEMMA TypeChosen ==
    ASSUME given \in ST!Types \cup {"none"}, NEW s \in ST!Sections
    PROVE  /\ ST!Chosen(s) \in ST!Types
           /\ platform = "server" /\ given = "none" => ST!Chosen(s) = "memory"
<1>1. PICK types : types = ST!StorageTypes(s)  OBVIOUS
<1>2. /\ types \in Seq(ST!Types) /\ Len(types) \in {1, 3}
      /\ platform = "server" => Len(types) = 1 /\ types[1] = "memory"
  <2>1. \/ types = <<"memory">> \/ types = <<"localStorage">>
        \/ types = <<"localStorage", "sessionStorage", "cookie">>
        \/ types = <<"sessionStorage", "localStorage", "cookie">>
    BY <1>1 DEF ST!StorageTypes, ST!ServerTypes, ST!Sections
  <2>2. platform = "server" => types = <<"memory">>
    BY <1>1 DEF ST!StorageTypes, ST!ServerTypes
  <2>3. /\ <<"memory">> \in Seq(ST!Types) /\ <<"localStorage">> \in Seq(ST!Types)
        /\ <<"localStorage", "sessionStorage", "cookie">> \in Seq(ST!Types)
        /\ <<"sessionStorage", "localStorage", "cookie">> \in Seq(ST!Types)
    BY DEF ST!Types
  <2>4. types \in Seq(ST!Types)  BY <2>1, <2>3
  <2>5. Len(types) \in {1, 3}
    <3>1. CASE types = <<"memory">> \/ types = <<"localStorage">>  BY <3>1
    <3>2. CASE types = <<"localStorage", "sessionStorage", "cookie">>  BY <3>2
    <3>3. CASE types = <<"sessionStorage", "localStorage", "cookie">>  BY <3>3
    <3>q. QED  BY <2>1, <3>1, <3>2, <3>3
  <2>6. platform = "server" => Len(types) = 1 /\ types[1] = "memory"  BY <2>2
  <2>q. QED  BY <2>4, <2>5, <2>6
<1>3. /\ ST!FindStorageType(types) \in ST!Types
      /\ platform = "server" => ST!FindStorageType(types) = "memory"
  BY <1>2, TypeFound
<1> DEFINE at == {n \in 1 .. Len(types) : types[n] = given}
           n0 == CHOOSE n \in at : TRUE
<1>4. ASSUME at # {}  PROVE ST!FindStorageType(SubSeq(types, n0, Len(types))) \in ST!Types
  <2>1. n0 \in at  BY <1>4
  <2>2. n0 \in 1 .. Len(types)  BY <2>1
  <2> HIDE DEF n0, at
  <2>3. PICK rest : rest = SubSeq(types, n0, Len(types))  OBVIOUS
  <2>4. rest \in Seq(ST!Types) /\ Len(rest) = Len(types) - n0 + 1
    <3>1. /\ n0 \in Int /\ Len(types) \in Int /\ n0 <= Len(types)
          /\ \A i \in n0 .. Len(types) : types[i] \in ST!Types
      BY <1>2, <2>2
    <3>2. /\ SubSeq(types, n0, Len(types)) \in Seq(ST!Types)
          /\ Len(SubSeq(types, n0, Len(types))) =
                IF n0 <= Len(types) THEN Len(types) - n0 + 1 ELSE 0
      BY <3>1, SubSeqProperties
    <3>q. QED  BY <2>3, <3>1, <3>2
  <2>5. Len(rest) \in 1 .. 3
    <3>1. PICK m : m = Len(types)  OBVIOUS
    <3>2. m \in {1, 3} /\ n0 \in 1 .. m /\ Len(rest) = m - n0 + 1
      BY <1>2, <2>2, <2>4, <3>1
    <3>q. QED  BY <3>2
  <2>q. QED  BY <2>3, <2>4, <2>5, TypeFound
<1>5. ST!Chosen(s) = IF s # "token" \/ given = "none" THEN ST!FindStorageType(types)
                     ELSE IF at = {} THEN given
                     ELSE ST!FindStorageType(SubSeq(types, n0, Len(types)))
  BY <1>1 DEF ST!Chosen
<1>q. QED  BY <1>3, <1>4, <1>5

\* Every section is in a place that it reaches.
LEMMA PlaceReached ==
    ASSUME StorageInv, NEW t \in Tabs, NEW s \in ST!Sections
    PROVE  /\ ST!PlaceOf(t, s) \in Reached /\ ST!PlaceOf(t, s) \in ST!Places
           /\ ST!PlaceOf(t, s)[1] = s
           /\ platform = "server" => ST!PlaceOf(t, s) = Memory(s)
<1>1. /\ given \in ST!Types \cup {"none"} /\ kept \in [Tabs -> ST!Types]
      /\ platform = "server" => kept[t] = "memory" /\ given = "none"
  BY DEF StorageInv, ST!TypeOK, OnServer
<1>2. PICK type : type = ST!TypeFor(t, s)  OBVIOUS
<1>3. type \in ST!Types /\ (platform = "server" => type = "memory")
  BY <1>1, <1>2, TypeChosen DEF ST!TypeFor
<1>4. ST!PlaceOf(t, s) = <<s, type, IF type \in {"localStorage", "cookie"}
                                       \/ platform = "server"
                                    THEN ST!Everywhere ELSE t>>
  BY <1>2 DEF ST!PlaceOf
<1>q. QED  BY <1>3, <1>4 DEF Reached, Memory, ST!Places

\* What a section reads is what its place holds.
LEMMA ReadsContent ==
    ASSUME StorageInv, NEW t \in Tabs, NEW s \in ST!Sections
    PROVE  ST!Read(t, s) = Content(ST!PlaceOf(t, s))
<1>1. PICK p : p = ST!PlaceOf(t, s)  OBVIOUS
<1>2. p[1] = s /\ (platform = "server" => p[2] = "memory")
  BY <1>1, PlaceReached DEF Memory
<1>3. platform = "server" => ST!PlaceOf(t, "transaction") = Memory("transaction")
  <2>1. "transaction" \in ST!Sections  BY DEF ST!Sections
  <2>q. QED  BY <2>1, PlaceReached
<1>4. \A q, x : ST!At(q, x) = Lies(<<q, x>>)  BY DEF ST!At, Lies
<1>5. CASE platform = "server" /\ s = "idx"
  <2>1. ST!Read(t, s) = ST!At(Memory("transaction"), "idx")
    BY <1>3, <1>5 DEF ST!Read, ST!InTransaction
  <2>2. Content(p) = Lies(<<Memory("transaction"), "idx">>)  BY <1>2, <1>5 DEF Content
  <2>q. QED  BY <1>1, <1>4, <2>1, <2>2
<1>6. CASE ~(platform = "server" /\ s = "idx")
  <2>1. ST!Read(t, s) = IF ST!Separate(p) THEN [f \in ST!Fields |-> ST!At(p, f)[f]]
                        ELSE ST!At(p, "whole")
    BY <1>1, <1>6 DEF ST!Read, ST!InTransaction
  <2>2. Content(p) = IF ST!Separate(p) THEN [f \in ST!Fields |-> Lies(<<p, f>>)[f]]
                     ELSE Lies(<<p, "whole">>)
    BY <1>2, <1>6 DEF Content
  <2>3. [f \in ST!Fields |-> ST!At(p, f)[f]] = [f \in ST!Fields |-> Lies(<<p, f>>)[f]]
    BY <1>4
  <2>q. QED  BY <1>1, <1>4, <2>1, <2>2, <2>3
<1>q. QED  BY <1>5, <1>6

\* The invariant says what is claimed.
LEMMA StorageInvSays == StorageInv => ST!TypeOK /\ ST!ReadsBack
<1> SUFFICES ASSUME StorageInv  PROVE ST!TypeOK /\ ST!ReadsBack
  OBVIOUS
<1>1. ASSUME NEW t \in Tabs, NEW s \in used
      PROVE  ST!Read(t, s) \in IF ST!PlaceOf(t, s) \in DOMAIN saved
                               THEN saved[ST!PlaceOf(t, s)] ELSE {ST!Nothing}
  <2>1. PICK p : p = ST!PlaceOf(t, s)  OBVIOUS
  <2>2. p \in Reached /\ ST!Read(t, s) = Content(p)
    <3>1. s \in ST!Sections  BY DEF StorageInv, ST!TypeOK
    <3>q. QED  BY <2>1, <3>1, PlaceReached, ReadsContent
  <2>3. Content(p) \in Saved(p)  BY <2>2 DEF StorageInv
  <2>q. QED  BY <2>1, <2>2, <2>3 DEF Saved
<1>2. ST!ReadsBack  BY <1>1 DEF ST!ReadsBack
<1>q. QED  BY <1>2 DEF StorageInv

\* What is read is an object.
LEMMA ContentTyped ==
    ASSUME ST!TypeOK
    PROVE  /\ \A q : Lies(q) \in ST!Objects
           /\ \A p : Content(p) \in ST!Objects
<1>1. \A q : Lies(q) \in ST!Objects
  BY ObjectsTyped DEF Lies, ST!TypeOK
<1>2. \A p : [f \in ST!Fields |-> Lies(<<p, f>>)[f]] \in ST!Objects
  BY <1>1 DEF ST!Objects
<1>q. QED  BY <1>1, <1>2 DEF Content

\* What lies where after a change.
LEMMA PutLies ==
    ASSUME ST!TypeOK, NEW changes, items' = ST!Put(changes)
    PROVE  /\ DOMAIN items' \subseteq DOMAIN changes \cup DOMAIN items
           /\ \A q \in DOMAIN items' : items'[q] # ST!Nothing
           /\ \A q : Lies(q)' = IF q \in DOMAIN changes THEN changes[q] ELSE Lies(q)
<1>1. PICK after : after = [q \in DOMAIN changes \cup DOMAIN items |->
                               IF q \in DOMAIN changes THEN changes[q] ELSE items[q]]
  OBVIOUS
<1>2. items' = [q \in {q \in DOMAIN after : after[q] # ST!Nothing} |-> after[q]]
  BY <1>1 DEF ST!Put, ST!Restrict
<1>3. \A q \in DOMAIN items : items[q] # ST!Nothing  BY DEF ST!TypeOK
<1>q. QED  BY <1>1, <1>2, <1>3 DEF Lies

\* An object in separate cookies: each of its fields in its cookie, or nothing.
LEMMA InCookies ==
    ASSUME NEW object \in ST!Objects, NEW p, NEW changes,
           changes = ST!Cookies(p, object)
    PROVE  /\ DOMAIN changes \subseteq {<<p, f>> : f \in ST!Fields}
           /\ \A q \in DOMAIN changes : changes[q] \in ST!Objects
           /\ (\A f \in ST!Fields : ST!Fits(ST!Only(f, object[f]))) =>
                 \A f \in ST!Fields : /\ <<p, f>> \in DOMAIN changes
                                      /\ changes[<<p, f>>][f] = object[f]
<1>1. \A f \in ST!Fields : object[f] \in 0 .. 3  BY DEF ST!Objects
<1>2. changes = [q \in {<<p, f>> : f \in {g \in ST!Fields :
                                             ST!Fits(ST!Only(g, object[g]))}} |->
                    ST!Only(q[2], object[q[2]])]
  BY DEF ST!Cookies
<1>3. \A f \in ST!Fields : <<p, f>>[2] = f  OBVIOUS
<1>q. QED  BY <1>1, <1>2, <1>3, ObjectsTyped

\* The object that is written, or what was there, is found again.
LEMMA WriteKeeps ==
    ASSUME StorageInv, NEW t \in Tabs, NEW s \in ST!Sections, NEW object \in ST!Objects,
           ST!Write(t, s, object)
    PROVE  StorageInv'
<1>1. PICK p : p = ST!PlaceOf(t, s)  OBVIOUS
<1>2. PICK tr : tr = ST!PlaceOf(t, "transaction")  OBVIOUS
<1>3. PICK ix : ix = ST!PlaceOf(t, "idx")  OBVIOUS
<1>4. /\ p \in ST!Places /\ tr \in ST!Places /\ ix \in ST!Places
      /\ p[1] = s /\ tr[1] = "transaction" /\ ix[1] = "idx"
      /\ platform = "server" => /\ p = Memory(s) /\ tr = Memory("transaction")
                                /\ ix = Memory("idx")
  BY <1>1, <1>2, <1>3, PlaceReached DEF ST!Sections
<1>5. PICK taken \in BOOLEAN :
         /\ taken \in ST!Taken(p, object)
         /\ items' = ST!Put(ST!Changes(t, s, object, taken))
         /\ saved' = ST!SavedBy(t, s, object, taken)
  <2>1. PICK each \in BOOLEAN :
           each <=> \A f \in ST!Fields : ST!Fits(ST!Only(f, object[f]))
    BY Zenon
  <2>2. PICK fits \in BOOLEAN : fits <=> ST!Fits(object)
    BY Zenon
  <2>a. each = (\A f \in ST!Fields : ST!Fits(ST!Only(f, object[f])))  BY <2>1
  <2>b. fits = (object["a"] + object["b"] <= 2)
    BY <2>2 DEF ST!Fits
  <2>3. p[2] \in full => p[2] # "cookie"  BY DEF StorageInv, ST!TypeOK
  <2>4. CASE p[2] \in full
    <3>1. ST!Taken(p, object) = BOOLEAN  BY <2>3, <2>4 DEF ST!Taken
    <3>q. QED  BY <1>1, <3>1 DEF ST!Write
  <2>5. CASE p[2] = "cookie"
    <3>1. CASE ST!Separate(p)
      <4>1. ST!Taken(p, object) = {each}
        BY <2>3, <2>5, <2>a, <3>1 DEF ST!Taken
      <4>q. QED  BY <1>1, <4>1 DEF ST!Write
    <3>2. CASE ~ST!Separate(p)
      <4>1. ST!Taken(p, object) = {fits}
        BY <2>3, <2>5, <2>b, <3>2 DEF ST!Taken, ST!Fits
      <4>q. QED  BY <1>1, <4>1 DEF ST!Write
    <3>q. QED  BY <3>1, <3>2
  <2>6. CASE p[2] \notin full /\ p[2] # "cookie"
    <3>1. ST!Taken(p, object) = {TRUE}  BY <2>6 DEF ST!Taken
    <3>q. QED  BY <1>1, <3>1 DEF ST!Write
  <2>q. QED  BY <2>4, <2>5, <2>6
<1>6. UNCHANGED <<used, platform, given, full, kept>> /\ writes' \in 0 .. MaxWrites
  BY BoundsAssumption DEF ST!Write, StorageInv, ST!TypeOK
<1>7. /\ ST!Separate(p) /\ taken =>
            \A f \in ST!Fields : ST!Fits(ST!Only(f, object[f]))
      /\ p[2] = "memory" => taken
  <2>1. p[2] \in full => p[2] \notin {"cookie", "memory"}
    BY DEF StorageInv, ST!TypeOK
  <2>2. ST!Separate(p) => p[2] = "cookie"  BY DEF ST!Separate
  <2>3. p[2] = "memory" => ST!Taken(p, object) = {TRUE}  BY <2>1 DEF ST!Taken
  <2>4. ST!Separate(p) => ST!Taken(p, object) =
                             {\A f \in ST!Fields : ST!Fits(ST!Only(f, object[f]))}
    BY <2>1, <2>2 DEF ST!Taken
  <2>5. p[2] = "memory" => taken  BY <1>5, <2>3
  <2>6. ASSUME ST!Separate(p), taken
        PROVE  \A f \in ST!Fields : ST!Fits(ST!Only(f, object[f]))
    <3>1. taken = (\A f \in ST!Fields : ST!Fits(ST!Only(f, object[f])))
      BY <1>5, <2>4, <2>6, Zenon
    <3>q. QED  BY <2>6, <3>1
  <2>q. QED  BY <2>5, <2>6
<1>8. PICK changes : changes = ST!Changes(t, s, object, taken)  OBVIOUS
<1>9. /\ ST!InTransaction(s) => /\ DOMAIN changes = {<<tr, "idx">>}
                                /\ changes[<<tr, "idx">>] = object
      /\ ~ST!InTransaction(s) /\ ST!Separate(p) => changes = ST!Cookies(p, object)
      /\ ~ST!InTransaction(s) /\ ~ST!Separate(p) /\ taken =>
            /\ DOMAIN changes = {<<p, "whole">>, <<p, "idx">>}
            /\ changes[<<p, "whole">>] = object /\ changes[<<p, "idx">>] = ST!Nothing
      /\ ~ST!InTransaction(s) /\ ~ST!Separate(p) /\ ~taken => DOMAIN changes = {}
  <2>1. ST!InTransaction(s) => changes = [q \in {<<tr, "idx">>} |-> object]
    BY <1>1, <1>2, <1>8 DEF ST!Changes
  <2>2. ~ST!InTransaction(s) /\ ST!Separate(p) => changes = ST!Cookies(p, object)
    BY <1>1, <1>8 DEF ST!Changes
  <2>3. ~ST!InTransaction(s) /\ ~ST!Separate(p) =>
           changes = [q \in {<<p, x>> : x \in IF taken THEN {"whole", "idx"} ELSE {}} |->
                         IF q[2] = "whole" THEN object ELSE ST!Nothing]
    BY <1>1, <1>8 DEF ST!Changes
  <2>4. <<p, "whole">>[2] = "whole" /\ <<p, "idx">>[2] = "idx"  OBVIOUS
  <2>5. ASSUME ~ST!InTransaction(s), ~ST!Separate(p), taken
        PROVE  /\ DOMAIN changes = {<<p, "whole">>, <<p, "idx">>}
               /\ changes[<<p, "whole">>] = object /\ changes[<<p, "idx">>] = ST!Nothing
    <3>1. {<<p, x>> : x \in IF taken THEN {"whole", "idx"} ELSE {}} =
             {<<p, "whole">>, <<p, "idx">>}
      BY <2>5
    <3>q. QED  BY <2>3, <2>4, <2>5, <3>1
  <2>6. ASSUME ~ST!InTransaction(s), ~ST!Separate(p), ~taken
        PROVE  DOMAIN changes = {}
    BY <2>3, <2>6
  <2>q. QED  BY <2>1, <2>2, <2>5, <2>6
<1>10. /\ DOMAIN changes \subseteq ST!Places \X ST!Parts
       /\ \A q \in DOMAIN changes : changes[q] \in ST!Objects
  <2>1. {"whole", "idx"} \cup ST!Fields = ST!Parts  BY DEF ST!Parts
  <2>2. CASE ST!InTransaction(s)  BY <1>4, <1>9, <2>1, <2>2
  <2>3. CASE ~ST!InTransaction(s) /\ ST!Separate(p)
    <3>1. /\ DOMAIN changes \subseteq {<<p, f>> : f \in ST!Fields}
          /\ \A q \in DOMAIN changes : changes[q] \in ST!Objects
      BY <1>9, <2>3, InCookies
    <3>q. QED  BY <1>4, <2>1, <3>1
  <2>4. CASE ~ST!InTransaction(s) /\ ~ST!Separate(p)
    BY <1>4, <1>9, <2>1, <2>4, ObjectsTyped
  <2>q. QED  BY <2>2, <2>3, <2>4
<1>11. /\ DOMAIN items' \subseteq DOMAIN changes \cup DOMAIN items
       /\ \A q \in DOMAIN items' : items'[q] # ST!Nothing
       /\ \A q : Lies(q)' = IF q \in DOMAIN changes THEN changes[q] ELSE Lies(q)
  BY <1>5, <1>8, PutLies DEF StorageInv
<1>12. /\ DOMAIN saved' \subseteq {p, ix} \cup DOMAIN saved
       /\ \A r : Saved(r)' =
             IF r = ix /\ s = "transaction" /\ platform = "server" THEN {ST!Nothing}
             ELSE IF ~(r = p /\ (taken \/ p[2] = "cookie")) THEN Saved(r)
             ELSE IF taken THEN {object} ELSE ST!Objects
  <2>1. PICK written : written = {q \in {p} : taken \/ p[2] = "cookie"}  OBVIOUS
  <2>2. PICK emptied : emptied = {q \in {ix} : s = "transaction" /\ platform = "server"}
    OBVIOUS
  <2>3. saved' = [q \in emptied \cup written \cup DOMAIN saved |->
                     IF q \in emptied THEN {ST!Nothing}
                     ELSE IF q \notin written THEN saved[q]
                     ELSE IF taken THEN {object} ELSE ST!Objects]
    BY <1>1, <1>3, <1>5, <2>1, <2>2 DEF ST!SavedBy
  <2>q. QED  BY <2>1, <2>2, <2>3 DEF Saved
<1>13. ST!TypeOK'
  <2>1. \A q \in DOMAIN items' : items'[q] \in ST!Objects
    <3>1. \A q \in DOMAIN items' : items'[q] = Lies(q)'  BY DEF Lies
    <3>2. \A q : Lies(q) \in ST!Objects  BY ContentTyped DEF StorageInv
    <3>q. QED  BY <1>10, <1>11, <3>1, <3>2
  <2>2. DOMAIN items' \subseteq ST!Places \X ST!Parts
    BY <1>10, <1>11 DEF StorageInv, ST!TypeOK
  <2>3. DOMAIN saved' \subseteq ST!Places
    BY <1>4, <1>12 DEF StorageInv, ST!TypeOK
  <2>4. \A r \in DOMAIN saved' : saved'[r] \subseteq ST!Objects
    <3>1. \A r \in DOMAIN saved' : saved'[r] = Saved(r)'  BY DEF Saved
    <3>2. \A r : Saved(r) \subseteq ST!Objects
      BY ObjectsTyped DEF Saved, StorageInv, ST!TypeOK
    <3>q. QED  BY <1>12, <3>1, <3>2, ObjectsTyped
  <2>q. QED  BY <1>6, <1>11, <2>1, <2>2, <2>3, <2>4 DEF StorageInv, ST!TypeOK
<1>14. OnServer'  BY <1>6 DEF StorageInv, OnServer
<1>15. ASSUME NEW r \in Reached  PROVE (Content(r) \in Saved(r))'
  <2>1. Content(r) \in Saved(r)  BY DEF StorageInv
  <2>2. /\ platform = "server" => r = Memory(r[1]) /\ r[2] = "memory"
        /\ ~(platform = "server" /\ ST!Separate(r))
    BY DEF Reached, Memory, ST!Separate
  <2>3. CASE r = p /\ ST!InTransaction(s)
    <3>1. /\ platform = "server" /\ r[1] = "idx" /\ s = "idx"
          /\ tr = Memory("transaction") /\ p[2] = "memory"
      BY <1>4, <2>2, <2>3 DEF ST!InTransaction
    <3>2. Lies(<<tr, "idx">>)' = object  BY <1>9, <1>11, <2>3
    <3>3. Content(r)' = object  BY <1>6, <3>1, <3>2 DEF Content
    <3>4. Saved(r)' = {object}  BY <1>7, <1>12, <2>3, <3>1
    <3>q. QED  BY <3>3, <3>4
  <2>4. CASE r = p /\ ~ST!InTransaction(s) /\ ST!Separate(p)
    <3>1. platform # "server"  BY <2>2, <2>4
    <3>2. Content(r)' = [f \in ST!Fields |-> Lies(<<r, f>>)'[f]]
      BY <1>6, <2>4, <3>1 DEF Content
    <3>3. CASE taken
      <4>1. \A f \in ST!Fields : /\ <<p, f>> \in DOMAIN changes
                                 /\ changes[<<p, f>>][f] = object[f]
        BY <1>7, <1>9, <2>4, <3>3, InCookies
      <4>2. \A f \in ST!Fields : Lies(<<r, f>>)'[f] = object[f]
        BY <1>11, <2>4, <4>1
      <4>3. Content(r)' = object  BY <3>2, <4>2 DEF ST!Objects
      <4>4. Saved(r)' = {object}  BY <1>12, <2>4, <3>1, <3>3
      <4>q. QED  BY <4>3, <4>4
    <3>4. CASE ~taken
      <4>1. Saved(r)' = ST!Objects
        BY <1>12, <2>4, <3>1, <3>4 DEF ST!Separate
      <4>2. \A q : Lies(q)' \in ST!Objects
        <5>1. \A q : Lies(q) \in ST!Objects  BY ContentTyped DEF StorageInv
        <5>q. QED  BY <1>10, <1>11, <5>1
      <4>3. Content(r)' \in ST!Objects  BY <3>2, <4>2 DEF ST!Objects
      <4>q. QED  BY <4>1, <4>3
    <3>q. QED  BY <3>3, <3>4
  <2>5. CASE r = p /\ ~ST!InTransaction(s) /\ ~ST!Separate(p)
    <3>1. /\ ~(platform = "server" /\ r[1] = "idx")
          /\ ~(r = ix /\ s = "transaction")
      BY <1>4, <2>5 DEF ST!InTransaction
    <3>2. Content(r) = Lies(<<r, "whole">>) /\ Content(r)' = Lies(<<r, "whole">>)'
      BY <1>6, <2>5, <3>1 DEF Content, ST!Separate
    <3>3. CASE taken
      <4>1. Lies(<<r, "whole">>)' = object  BY <1>9, <1>11, <2>5, <3>3
      <4>2. Saved(r)' = {object}  BY <1>12, <2>5, <3>1, <3>3
      <4>q. QED  BY <3>2, <4>1, <4>2
    <3>4. CASE ~taken
      <4>1. Lies(<<r, "whole">>)' = Lies(<<r, "whole">>)  BY <1>9, <1>11, <2>5, <3>4
      <4>2. CASE p[2] = "cookie"
        <5>1. Saved(r)' = ST!Objects  BY <1>12, <2>5, <3>1, <3>4, <4>2
        <5>2. Content(r) \in ST!Objects  BY ContentTyped DEF StorageInv
        <5>q. QED  BY <3>2, <4>1, <5>1, <5>2
      <4>3. CASE p[2] # "cookie"
        <5>1. Saved(r)' = Saved(r)  BY <1>12, <3>1, <3>4, <4>3
        <5>q. QED  BY <2>1, <3>2, <4>1, <5>1
      <4>q. QED  BY <4>2, <4>3
    <3>q. QED  BY <3>3, <3>4
  <2>6. CASE r # p /\ r = ix /\ s = "transaction" /\ platform = "server"
    <3>1. /\ tr = p /\ taken /\ tr = Memory("transaction") /\ r[1] = "idx"
          /\ ~ST!InTransaction(s) /\ ~ST!Separate(p)
      BY <1>4, <1>7, <2>6 DEF Memory, ST!InTransaction, ST!Separate
    <3>2. Lies(<<tr, "idx">>)' = ST!Nothing  BY <1>9, <1>11, <3>1
    <3>3. Content(r)' = ST!Nothing  BY <1>6, <2>6, <3>1, <3>2 DEF Content
    <3>4. Saved(r)' = {ST!Nothing}  BY <1>12, <2>6
    <3>q. QED  BY <3>3, <3>4
  <2>7. CASE r # p /\ ~(r = ix /\ s = "transaction" /\ platform = "server")
    <3>1. Saved(r)' = Saved(r)  BY <1>12, <2>7
    <3>2. \A x \in {"whole"} \cup ST!Fields : <<r, x>> \notin DOMAIN changes
      <4>1. CASE ST!InTransaction(s)  BY <1>9, <4>1 DEF ST!Fields
      <4>2. CASE ~ST!InTransaction(s) /\ ST!Separate(p)
        <5>1. DOMAIN changes \subseteq {<<p, f>> : f \in ST!Fields}
          BY <1>9, <4>2, InCookies
        <5>q. QED  BY <2>7, <5>1
      <4>3. CASE ~ST!InTransaction(s) /\ ~ST!Separate(p)
        BY <1>9, <2>7, <4>3
      <4>q. QED  BY <4>1, <4>2, <4>3
    <3>3. CASE platform = "server" /\ r[1] = "idx"
      <4>1. /\ r = ix /\ s # "transaction" /\ tr = Memory("transaction")
            /\ s # "idx" /\ p # tr
        BY <1>4, <2>2, <2>7, <3>3
      <4>2. ~ST!InTransaction(s) /\ ~ST!Separate(p)
        BY <1>4, <3>3, <4>1 DEF ST!InTransaction, ST!Separate, Memory
      <4>3. <<tr, "idx">> \notin DOMAIN changes
        <5>1. DOMAIN changes \subseteq {<<p, "whole">>, <<p, "idx">>}
          BY <1>9, <4>2
        <5>q. QED  BY <4>1, <5>1
      <4>4. Lies(<<tr, "idx">>)' = Lies(<<tr, "idx">>)  BY <1>11, <4>3
      <4>5. Content(r)' = Content(r)  BY <1>6, <3>3, <4>1, <4>4 DEF Content
      <4>q. QED  BY <2>1, <3>1, <4>5
    <3>4. CASE ~(platform = "server" /\ r[1] = "idx")
      <4>1. \A x \in {"whole"} \cup ST!Fields : Lies(<<r, x>>)' = Lies(<<r, x>>)
        BY <1>11, <3>2
      <4>2. Content(r)' = Content(r)
        <5>1. CASE ST!Separate(r)
          <6>1. [f \in ST!Fields |-> Lies(<<r, f>>)'[f]] =
                   [f \in ST!Fields |-> Lies(<<r, f>>)[f]]
            BY <4>1
          <6>q. QED  BY <1>6, <3>4, <5>1, <6>1 DEF Content, ST!Separate
        <5>2. CASE ~ST!Separate(r)
          BY <1>6, <3>4, <4>1, <5>2 DEF Content, ST!Separate
        <5>q. QED  BY <5>1, <5>2
      <4>q. QED  BY <2>1, <3>1, <4>2
    <3>q. QED  BY <3>3, <3>4
  <2>q. QED  BY <2>3, <2>4, <2>5, <2>6, <2>7
<1>16. Reached' = Reached  BY <1>6 DEF Reached
<1>q. QED  BY <1>13, <1>14, <1>15, <1>16 DEF StorageInv

\* Where a place is emptied, nothing is found, and that is what it holds.
LEMMA EmptiedKeeps ==
    ASSUME StorageInv, platform = "browser", NEW lost \in SUBSET ST!Places,
           items' = [q \in {q \in DOMAIN items : q[1] \notin lost} |-> items[q]],
           \A r : Saved(r)' = IF r \in lost THEN {ST!Nothing} ELSE Saved(r),
           DOMAIN saved' \subseteq lost \cup DOMAIN saved,
           UNCHANGED <<used, platform, given, full>>,
           kept' \in [Tabs -> ST!Types], writes' \in 0 .. MaxWrites
    PROVE  StorageInv'
<1>1. \A r, x : Lies(<<r, x>>)' = IF r \in lost THEN ST!Nothing ELSE Lies(<<r, x>>)
  <2>1. \A r, x : <<r, x>>[1] = r  OBVIOUS
  <2>q. QED  BY <2>1 DEF Lies
<1>2. ST!TypeOK'
  <2>1. /\ DOMAIN items' \subseteq DOMAIN items
        /\ \A q \in DOMAIN items' : items'[q] = items[q]
    OBVIOUS
  <2>2. \A r \in DOMAIN saved' : saved'[r] \subseteq ST!Objects
    <3>1. \A r \in DOMAIN saved' : saved'[r] = Saved(r)'  BY DEF Saved
    <3>2. \A r : Saved(r) \subseteq ST!Objects
      BY ObjectsTyped DEF Saved, StorageInv, ST!TypeOK
    <3>q. QED  BY <3>1, <3>2, ObjectsTyped
  <2>3. DOMAIN saved' \subseteq ST!Places  BY DEF StorageInv, ST!TypeOK
  <2>q. QED  BY <2>1, <2>2, <2>3 DEF StorageInv, ST!TypeOK
<1>3. OnServer'  BY DEF OnServer
<1>4. ASSUME NEW r \in Reached  PROVE (Content(r) \in Saved(r))'
  <2>1. CASE r \in lost
    <3>1. Content(r)' = ST!Nothing
      <4>1. CASE ST!Separate(r)
        <5>1. [f \in ST!Fields |-> Lies(<<r, f>>)'[f]] = ST!Nothing
          BY <1>1, <2>1 DEF ST!Nothing
        <5>q. QED  BY <4>1, <5>1 DEF Content, ST!Separate
      <4>2. CASE ~ST!Separate(r)  BY <1>1, <2>1, <4>2 DEF Content, ST!Separate
      <4>q. QED  BY <4>1, <4>2
    <3>q. QED  BY <2>1, <3>1
  <2>2. CASE r \notin lost
    <3>1. Content(r)' = Content(r)
      <4>1. CASE ST!Separate(r)
        <5>1. [f \in ST!Fields |-> Lies(<<r, f>>)'[f]] =
                 [f \in ST!Fields |-> Lies(<<r, f>>)[f]]
          BY <1>1, <2>2
        <5>q. QED  BY <4>1, <5>1 DEF Content, ST!Separate
      <4>2. CASE ~ST!Separate(r)  BY <1>1, <2>2, <4>2 DEF Content, ST!Separate
      <4>q. QED  BY <4>1, <4>2
    <3>q. QED  BY <2>2, <3>1 DEF StorageInv
  <2>q. QED  BY <2>1, <2>2
<1>q. QED  BY <1>2, <1>3, <1>4 DEF StorageInv, Reached

\* A page is loaded, or the browser is opened again.
LEMMA LostKeeps ==
    ASSUME StorageInv, (\E t \in Tabs : ST!Load(t)) \/ ST!Restart
    PROVE  StorageInv'
<1>1. platform = "browser"  BY DEF ST!Load, ST!Restart
<1>2. /\ given \in ST!Types \cup {"none"} /\ kept \in [Tabs -> ST!Types]
      /\ DOMAIN items \subseteq ST!Places \X ST!Parts /\ DOMAIN saved \subseteq ST!Places
      /\ writes \in 0 .. MaxWrites
  BY DEF StorageInv, ST!TypeOK
<1>3. ST!Chosen("token") \in ST!Types  BY <1>2, TypeChosen DEF ST!Sections
<1>4. ASSUME NEW lost \in SUBSET ST!Places,
             items' = [q \in {q \in DOMAIN items : q[1] \notin lost} |-> items[q]],
             saved' = [r \in {r \in DOMAIN saved : r \notin lost} |-> saved[r]],
             UNCHANGED <<used, platform, given, full, writes>>,
             kept' \in [Tabs -> ST!Types]
      PROVE  StorageInv'
  <2>1. \A r : Saved(r)' = IF r \in lost THEN {ST!Nothing} ELSE Saved(r)
    BY <1>4 DEF Saved
  <2>2. DOMAIN saved' \subseteq lost \cup DOMAIN saved  BY <1>4
  <2>q. QED  BY <1>1, <1>2, <1>4, <2>1, <2>2, EmptiedKeeps
<1>5. ASSUME NEW t \in Tabs, ST!Load(t)  PROVE StorageInv'
  <2>1. PICK lost : lost = {r \in ST!Places : r[2] = "memory" /\ r[3] = t}  OBVIOUS
  <2>2. /\ items' = [q \in {q \in DOMAIN items : ~(q[1][2] = "memory" /\ q[1][3] = t)}
                        |-> items[q]]
        /\ saved' = [r \in {r \in DOMAIN saved : ~(r[2] = "memory" /\ r[3] = t)}
                        |-> saved[r]]
        /\ UNCHANGED <<used, platform, given, full, writes>>
        /\ kept' = [kept EXCEPT ![t] = ST!Chosen("token")]
    BY <1>5 DEF ST!Load, ST!Lose, ST!Restrict
  <2>3. /\ \A q \in DOMAIN items :
              q[1] \notin lost <=> ~(q[1][2] = "memory" /\ q[1][3] = t)
        /\ \A r \in DOMAIN saved :
              r \notin lost <=> ~(r[2] = "memory" /\ r[3] = t)
    BY <1>2, <2>1
  <2>4. /\ items' = [q \in {q \in DOMAIN items : q[1] \notin lost} |-> items[q]]
        /\ saved' = [r \in {r \in DOMAIN saved : r \notin lost} |-> saved[r]]
    <3>1. {q \in DOMAIN items : q[1] \notin lost} =
          {q \in DOMAIN items :
               ~(q[1][2] = "memory" /\ q[1][3] = t)}
      BY <2>3
    <3>2. {r \in DOMAIN saved : r \notin lost} =
          {r \in DOMAIN saved :
               ~(r[2] = "memory" /\ r[3] = t)}
      BY <2>3
    <3>3. items' = [q \in {q \in DOMAIN items : q[1] \notin lost} |-> items[q]]
      BY <2>2, <3>1
    <3>4. saved' = [r \in {r \in DOMAIN saved : r \notin lost} |-> saved[r]]
      BY <2>2, <3>2
    <3>q. QED  BY <3>3, <3>4
  <2>5. kept' \in [Tabs -> ST!Types]  BY <1>2, <1>3, <2>2
  <2>6. UNCHANGED <<used, platform, given, full, writes>>  BY <2>2
  <2>7. lost \in SUBSET ST!Places  BY <2>1
  <2>q. QED  BY <1>4, <2>4, <2>5, <2>6, <2>7
<1>6. ASSUME ST!Restart  PROVE StorageInv'
  <2>1. PICK lost : lost = {r \in ST!Places :
                              \/ r[2] \in {"sessionStorage", "memory"}
                              \/ ST!Separate(r) /\ given = "sessionStorage"}
    OBVIOUS
  <2>2. /\ items' = [q \in {q \in DOMAIN items :
                              ~(\/ q[1][2] \in {"sessionStorage", "memory"}
                                \/ ST!Separate(q[1]) /\ given = "sessionStorage")}
                        |-> items[q]]
        /\ saved' = [r \in {r \in DOMAIN saved :
                              ~(\/ r[2] \in {"sessionStorage", "memory"}
                                \/ ST!Separate(r) /\ given = "sessionStorage")}
                        |-> saved[r]]
        /\ UNCHANGED <<used, platform, given, full, writes>>
        /\ kept' = [t \in Tabs |-> ST!Chosen("token")]
    BY <1>6 DEF ST!Restart, ST!Lose, ST!Restrict
  <2>3. /\ \A q \in DOMAIN items :
              q[1] \notin lost <=> ~(\/ q[1][2] \in {"sessionStorage", "memory"}
                                     \/ ST!Separate(q[1]) /\ given = "sessionStorage")
        /\ \A r \in DOMAIN saved :
              r \notin lost <=> ~(\/ r[2] \in {"sessionStorage", "memory"}
                                  \/ ST!Separate(r) /\ given = "sessionStorage")
    BY <1>2, <2>1
  <2>4. /\ items' = [q \in {q \in DOMAIN items : q[1] \notin lost} |-> items[q]]
        /\ saved' = [r \in {r \in DOMAIN saved : r \notin lost} |-> saved[r]]
    <3>1. {q \in DOMAIN items : q[1] \notin lost} =
          {q \in DOMAIN items :
               ~(\/ q[1][2] \in {"sessionStorage", "memory"}
                 \/ ST!Separate(q[1]) /\ given = "sessionStorage")}
      BY <2>3
    <3>2. {r \in DOMAIN saved : r \notin lost} =
          {r \in DOMAIN saved :
               ~(\/ r[2] \in {"sessionStorage", "memory"}
                 \/ ST!Separate(r) /\ given = "sessionStorage")}
      BY <2>3
    <3>3. items' = [q \in {q \in DOMAIN items : q[1] \notin lost} |-> items[q]]
      BY <2>2, <3>1
    <3>4. saved' = [r \in {r \in DOMAIN saved : r \notin lost} |-> saved[r]]
      BY <2>2, <3>2
    <3>q. QED  BY <3>3, <3>4
  <2>5. kept' \in [Tabs -> ST!Types]  BY <1>3, <2>2
  <2>6. UNCHANGED <<used, platform, given, full, writes>>  BY <2>2
  <2>7. lost \in SUBSET ST!Places  BY <2>1
  <2>q. QED  BY <1>4, <2>4, <2>5, <2>6, <2>7
<1>q. QED  BY <1>5, <1>6

\* What is cleared is removed, or an empty object is written.
LEMMA ClearKeeps ==
    ASSUME StorageInv, NEW t \in Tabs, NEW s \in ST!Sections, ST!ClearStorage(t, s)
    PROVE  StorageInv'
<1>1. PICK p : p = ST!PlaceOf(t, s)  OBVIOUS
<1>2. p \in ST!Places /\ (platform = "server" => p[2] = "memory")
  BY <1>1, PlaceReached DEF Memory
<1>3. CASE p[2] = "memory" \/ ST!InTransaction(s)
  <2>1. ST!Write(t, s, ST!Nothing)  BY <1>1, <1>3 DEF ST!ClearStorage
  <2>q. QED  BY <2>1, WriteKeeps, ObjectsTyped
<1>4. CASE p[2] # "memory" /\ ~ST!InTransaction(s)
  <2>1. /\ writes' = writes + 1 /\ writes < MaxWrites
        /\ items' = [q \in {q \in DOMAIN items : q[1] # p} |-> items[q]]
        /\ saved' = [q \in {p} \cup DOMAIN saved |->
                        IF q = p THEN {ST!Nothing} ELSE saved[q]]
        /\ UNCHANGED <<used, platform, given, full, kept>>
    BY <1>1, <1>4 DEF ST!ClearStorage, ST!Restrict
  <2>2. /\ platform = "browser" /\ kept \in [Tabs -> ST!Types]
        /\ writes \in 0 .. MaxWrites /\ DOMAIN saved \subseteq ST!Places
    BY <1>2, <1>4 DEF StorageInv, ST!TypeOK
  <2>3. writes' \in 0 .. MaxWrites  BY <2>1, <2>2, BoundsAssumption
  <2>4. PICK lost \in SUBSET ST!Places : lost = {p}  BY <1>2
  <2>5. items' = [q \in {q \in DOMAIN items : q[1] \notin lost} |-> items[q]]
    BY <2>1, <2>4
  <2>6. /\ \A r : Saved(r)' = IF r \in lost THEN {ST!Nothing} ELSE Saved(r)
        /\ DOMAIN saved' \subseteq lost \cup DOMAIN saved
    BY <2>1, <2>4 DEF Saved
  <2>q. QED  BY <2>1, <2>2, <2>3, <2>5, <2>6, EmptiedKeeps
<1>q. QED  BY <1>3, <1>4

\* A storage fills up or has room again: the places are others, not what they hold.
LEMMA FillsKeeps ==
    ASSUME StorageInv,
           UNCHANGED storageVars \/ \E type \in {"localStorage", "sessionStorage"} : ST!Fills(type)
    PROVE  StorageInv'
<1>1. /\ UNCHANGED <<used, platform, given, items, kept, saved, writes>>
      /\ full' \subseteq {"localStorage", "sessionStorage"}
      /\ platform = "server" => full' = full
  BY DEF StorageInv, ST!TypeOK, ST!Fills, storageVars
<1>2. ST!TypeOK'  BY <1>1 DEF StorageInv, ST!TypeOK
<1>3. OnServer'  BY <1>1 DEF StorageInv, OnServer
<1>4. Reached' = Reached  BY <1>1 DEF Reached
<1>5. \A r : Content(r)' = Content(r) /\ Saved(r)' = Saved(r)
  BY <1>1 DEF Content, Saved, Lies, ST!Separate
<1>q. QED  BY <1>2, <1>3, <1>4, <1>5 DEF StorageInv

\* Every step keeps the invariant.
LEMMA StorageStep == StorageInv /\ [ST!Next]_storageVars => StorageInv'
<1> SUFFICES ASSUME StorageInv, [ST!Next]_storageVars  PROVE StorageInv'
  OBVIOUS
<1>1. used \subseteq ST!Sections  BY DEF StorageInv, ST!TypeOK
<1>2. ASSUME NEW t \in Tabs, NEW s \in used,
             \/ \E object \in SomeObjects : ST!SetStorage(t, s, object)
             \/ \E f \in ST!Fields, size \in {0, 2} : ST!UpdateStorage(t, s, f, size)
             \/ ST!ClearStorage(t, s)
      PROVE  StorageInv'
  <2>1. s \in ST!Sections  BY <1>1
  <2>2. SomeObjects \subseteq ST!Objects
    BY DEF SomeObjects, Object, ST!Objects, ST!Fields
  <2>3. ST!Read(t, s) \in ST!Objects
    BY <2>1, ReadsContent, ContentTyped DEF StorageInv
  <2>4. \A f \in ST!Fields, size \in {0, 2} : [ST!Read(t, s) EXCEPT ![f] = size] \in ST!Objects
    BY <2>3 DEF ST!Objects
  <2>5. CASE \E object \in ST!Objects : ST!Write(t, s, object)
    BY <2>1, <2>5, WriteKeeps
  <2>6. CASE ST!ClearStorage(t, s)  BY <2>1, <2>6, ClearKeeps
  <2>q. QED  BY <1>2, <2>2, <2>4, <2>5, <2>6 DEF ST!SetStorage, ST!UpdateStorage
<1>q. QED  BY <1>2, LostKeeps, FillsKeeps DEF ST!Next

\* It holds before anything is written.
LEMMA StorageInit == ST!Init => StorageInv
<1> SUFFICES ASSUME ST!Init  PROVE StorageInv
  OBVIOUS
<1>1. /\ used \in SomeSections /\ platform \in {"browser", "server"}
      /\ given \in ST!Types \cup {"none"}
      /\ platform = "server" => given = "none" /\ full = {}
      /\ full \subseteq {"localStorage", "sessionStorage"}
      /\ items = <<>> /\ saved = <<>> /\ writes = 0
      /\ kept = [t \in Tabs |-> ST!Chosen("token")]
  BY DEF ST!Init
<1>2. DOMAIN items = {} /\ DOMAIN saved = {}  BY <1>1
<1>3. /\ ST!Chosen("token") \in ST!Types
      /\ platform = "server" => ST!Chosen("token") = "memory"
  BY <1>1, TypeChosen DEF ST!Sections
<1>4. used \subseteq ST!Sections  BY <1>1 DEF SomeSections, ST!Sections
<1>5. writes \in 0 .. MaxWrites  BY <1>1, BoundsAssumption
<1>6. ST!TypeOK  BY <1>1, <1>2, <1>3, <1>4, <1>5 DEF ST!TypeOK
<1>7. OnServer  BY <1>1, <1>3 DEF OnServer
<1>8. ASSUME NEW r  PROVE Content(r) \in Saved(r)
  <2>1. \A q : Lies(q) = ST!Nothing  BY <1>2 DEF Lies
  <2>2. [f \in ST!Fields |-> ST!Nothing[f]] = ST!Nothing  BY DEF ST!Nothing
  <2>3. Content(r) = ST!Nothing  BY <2>1, <2>2 DEF Content
  <2>q. QED  BY <1>2, <2>3 DEF Saved
<1>q. QED  BY <1>6, <1>7, <1>8 DEF StorageInv

-------------------------------------------------------------------------------
(* Remediation: what was submitted and should be gone is in nothing that the    *)
(* next submission is taken from, not even in the list of authenticators that a *)
(* given password is appended to.                                               *)

Consumed == /\ spent.values \cap values = {}
            /\ \A k \in spent.picks : /\ k \notin ToSet(picks)
                                      /\ k = "password" => ~PresetsPassword
            /\ \A k \in spent.data : /\ k # "password" /\ k \notin data
                                     /\ k \notin ToSet(picks)

RemediationInv == TypeOK /\ Consumed

LEMMA FirstIsIn ==
    ASSUME NEW list, NEW set
    PROVE FirstIn(list, set) \subseteq ToSet(list) \cap set
BY DEF FirstIn, ToSet

LEMMA WithoutDrops ==
    ASSUME NEW T, NEW list \in Seq(T), NEW set, "none" \in T
    PROVE /\ Without(list, set) \in Seq(T)
          /\ ToSet(Without(list, set)) \subseteq (ToSet(list) \ set) \cup {"none"}
<1>1. Without(list, set) \in Seq(T)
  <2>1. DOMAIN list = 1 .. Len(list) /\ Len(list) \in Nat
        /\ \A i \in DOMAIN list : list[i] \in T
    OBVIOUS
  <2>2. \A i \in 1 .. Len(list) : (IF list[i] \in set THEN "none" ELSE list[i]) \in T
    BY <2>1
  <2>3. [i \in 1 .. Len(list) |-> IF list[i] \in set THEN "none" ELSE list[i]] \in Seq(T)
    BY <2>1, <2>2, IsASeq
  <2>q. QED  BY <2>1, <2>3 DEF Without
<1>2. ToSet(Without(list, set)) \subseteq (ToSet(list) \ set) \cup {"none"}
  BY DEF ToSet, Without
<1>q. QED  BY <1>1, <1>2

\* The forms that can be answered are forms of the response.
LEMMA RemediableTyped == ASSUME TypeOK PROVE Remediable \subseteq Form
<1>1. answer.forms \in Seq(Form)  BY DEF TypeOK, Response
<1>2. \A i \in DOMAIN answer.forms : answer.forms[i] \in Form  BY <1>1
<1>3. \A at : at \subseteq DOMAIN answer.forms => FirstForm(at) \subseteq Form
  BY <1>2 DEF FirstForm
<1>4. FormsNamed(options.step) \subseteq DOMAIN answer.forms  BY DEF FormsNamed
<1>q. QED  BY <1>3, <1>4 DEF Remediable

\* The names of the forms of the remediators are distinct, so a form has one.
LEMMA RemediatorClasses ==
    ASSUME NEW f
    PROVE /\ f.name \in Identifies => Remediator(f) = Identify(f)
          /\ f.name \in Verifies => Remediator(f) = VerifyAuthenticator(f)
          /\ f.name \in Reenrolls => Remediator(f) = ReEnrollAuthenticator(f)
          /\ f.name = "select-authenticator-unlock-account" =>
                 Remediator(f) = SelectAuthenticatorUnlockAccount(f)
          /\ f.name \in Selects \ {"select-authenticator-unlock-account"} =>
                 Remediator(f) = SelectAuthenticator(f)
          /\ f.name = "authenticator-verification-data" =>
                 Remediator(f) = AuthenticatorVerificationData(f)
          /\ f.name = "authenticator-enrollment-data" =>
                 Remediator(f) = AuthenticatorEnrollmentData(f)
          /\ f.name \in PollForms => Remediator(f) = EnrollPoll(f)
          /\ f.name = "select-enrollment-channel" => Remediator(f) = SelectEnrollmentChannel
          /\ f.name = "enrollment-channel-data" => Remediator(f) = EnrollmentChannelData
          /\ f.name = "enroll-profile" => Remediator(f) = EnrollProfile(f)
          /\ f.name = "skip" => Remediator(f) = Skip
          /\ f.name \in {"select-enroll-profile", "redirect-idp", "unlock-account"} =>
                 /\ Remediator(f).takes = {}
                 /\ Remediator(f).trims = {"stateHandle"}
BY DEF Remediator, Identifies, Verifies, Reenrolls, Selects, PollForms

\* The credentials that a form takes are removed after it, or kept by name.
LEMMA CredentialsTrimmed ==
    ASSUME NEW f \in Form, f.credentials \/ f.name \in Verifies \cup Reenrolls
    PROVE ToSet(Credentials(f)) \subseteq Trimmed(f) \cup Keeps(f)
<1>f. f.credentials => f.name \in Identifies \cup {"enroll-profile"}  BY DEF Form
<1>1. CASE f.name \in Identifies
  <2>1. f.credentials  BY <1>1 DEF Identifies, Verifies, Reenrolls
  <2>2. ToSet(Credentials(f)) = {"credentials", "password"}
    BY <1>1 DEF Credentials, ToSet, Identifies, Reenrolls
  <2>3. Trimmed(f) = Identify(f).trims  BY <1>1, RemediatorClasses DEF Trimmed
  <2>q. QED  BY <2>1, <2>2, <2>3 DEF Identify
<1>2. CASE f.name \in Verifies
  <2>1. f.name \notin Identifies \cup Reenrolls \cup {"enroll-profile",
                                                      "select-authenticator-unlock-account"}
    BY <1>2 DEF Identifies, Reenrolls, Verifies
  <2>2. Trimmed(f) = VerifyAuthenticator(f).trims /\ Keeps(f) = {"passcode", "otp"}
    BY <1>2, <2>1, RemediatorClasses DEF Trimmed, Keeps
  <2>3. ToSet(Credentials(f)) =
            IF f.key = "password" THEN {"credentials", "passcode", "password"}
            ELSE IF f.key = "question" THEN {"answer", "credentials"}
            ELSE {"credentials", "verificationCode", "otp"}
    BY <2>1 DEF Credentials, ToSet
  <2>q. QED  BY <2>2, <2>3 DEF VerifyAuthenticator
<1>3. CASE f.name \in Reenrolls
  <2>1. f.name \notin Identifies \cup Verifies  BY <1>3 DEF Identifies, Reenrolls, Verifies
  <2>2. Trimmed(f) = ReEnrollAuthenticator(f).trims
    BY <1>3, RemediatorClasses DEF Trimmed
  <2>3. ToSet(Credentials(f)) = {"newPassword", "credentials"}
    BY <1>3, <2>1 DEF Credentials, ToSet, Reenrolls
  <2>q. QED  BY <2>2, <2>3 DEF ReEnrollAuthenticator
<1>4. CASE f.name = "enroll-profile" /\ f.credentials
  <2>1. Trimmed(f) = EnrollProfile(f).trims /\ Keeps(f) = {"password"}
    BY <1>4, RemediatorClasses DEF Trimmed, Keeps
  <2>2. ToSet(Credentials(f)) = {"credentials", "passcode", "password"}
    BY <1>4 DEF Credentials, ToSet, Identifies, Reenrolls
  <2>q. QED  BY <1>4, <2>1, <2>2 DEF EnrollProfile
<1>q. QED  BY <1>f, <1>1, <1>2, <1>3, <1>4

\* ... and so are the other values.
LEMMA TakesTrimmed ==
    ASSUME NEW f \in Form
    PROVE Remediator(f).takes \subseteq Trimmed(f) \cup Keeps(f)
<1>1. CASE f.name \in Identifies
  BY <1>1, RemediatorClasses DEF Trimmed, Identify
<1>2. CASE f.name \in Verifies \cup Reenrolls \cup PollForms
  <2>1. Remediator(f).takes = {}
    BY <1>2, RemediatorClasses DEF VerifyAuthenticator, ReEnrollAuthenticator, EnrollPoll
  <2>q. QED  BY <2>1
<1>3. CASE f.name \in Selects
  <2>1. f.name = "select-authenticator-unlock-account" => Keeps(f) = {"methodType"}
    BY DEF Keeps
  <2>q. QED
    BY <1>3, <2>1, RemediatorClasses
    DEF Trimmed, SelectAuthenticator, SelectAuthenticatorUnlockAccount
<1>4. CASE f.name \in {"authenticator-verification-data", "authenticator-enrollment-data"}
  BY <1>4, RemediatorClasses
  DEF Trimmed, AuthenticatorVerificationData, AuthenticatorEnrollmentData
<1>5. CASE f.name \in Channels \cup {"enroll-profile", "skip"}
  BY <1>5, RemediatorClasses
  DEF Trimmed, Channels, SelectEnrollmentChannel, EnrollmentChannelData, EnrollProfile, Skip
<1>6. CASE f.name \in {"select-enroll-profile", "redirect-idp", "unlock-account"}
  <2>1. Remediator(f).takes = {}  BY <1>6, RemediatorClasses
  <2>q. QED  BY <2>1
<1>q. QED
  BY <1>1, <1>2, <1>3, <1>4, <1>5, <1>6 DEF Form, FormNames, NeedsData

\* What is submitted was left, and is removed or kept by name.
LEMMA SubmittedValues ==
    ASSUME NEW f \in Form
    PROVE Submitted(f).values \subseteq values \cap (Trimmed(f) \cup Keeps(f))
<1>1. FirstGiven(Credentials(f)) \subseteq ToSet(Credentials(f)) \cap values
  BY FirstIsIn DEF FirstGiven
<1>2. CASE f.credentials \/ f.name \in Verifies \cup Reenrolls
  <2>1. Submitted(f).values = (values \cap Remediator(f).takes) \cup FirstGiven(Credentials(f))
    BY <1>2 DEF Submitted
  <2>2. ToSet(Credentials(f)) \subseteq Trimmed(f) \cup Keeps(f)  BY <1>2, CredentialsTrimmed
  <2>q. QED  BY <1>1, <2>1, <2>2, TakesTrimmed
<1>3. CASE ~(f.credentials \/ f.name \in Verifies \cup Reenrolls)
  <2>1. Submitted(f).values = values \cap Remediator(f).takes  BY <1>3 DEF Submitted
  <2>q. QED  BY <2>1, TakesTrimmed
<1>q. QED  BY <1>2, <1>3

\* An authenticator that is selected is an option of the form, and was left or is the
\* password that is preset.
LEMMA SelectedPicks ==
    ASSUME TypeOK, NEW f \in Form
    PROVE /\ Picks(f) \in Seq(Keys \cup {"none"})
          /\ \A k \in ToSet(Picks(f)) : k \in ToSet(picks) \/ (k = "password" /\ PresetsPassword)
          /\ Selected(f) \subseteq ToSet(Picks(f)) \cap Keys
          /\ Submitted(f).picks \subseteq Selected(f)
<1>1. picks \in Seq(Keys \cup {"none"}) /\ "password" \in Keys \cup {"none"}
  BY DEF TypeOK, Keys
<1>2. Append(picks, "password") \in Seq(Keys \cup {"none"})  BY <1>1
<1>3. \A k \in ToSet(Append(picks, "password")) : k \in ToSet(picks) \/ k = "password"
  BY <1>1 DEF ToSet
<1>4. Selected(f) \subseteq ToSet(Picks(f)) \cap f.options  BY FirstIsIn DEF Selected
<1>5. f.options \subseteq Keys  BY DEF Form
<1>q. QED  BY <1>1, <1>2, <1>3, <1>4, <1>5 DEF Picks, Submitted

LEMMA RemediationInit == Init => RemediationInv
<1> SUFFICES ASSUME Init PROVE RemediationInv  OBVIOUS
<1> USE InputsAssumption
<1>1. PICK input \in Inputs : /\ options = input.options
                              /\ values = input.values \cup {"stateHandle"}
                              /\ picks = input.picks
                              /\ methods = input.methods
  BY DEF Init
<1>2. /\ input.options \in Options /\ input.values \subseteq Names
      /\ input.picks \in Seq(Keys) /\ input.methods \subseteq Keys
  BY DEF CallerInput
<1>3. "stateHandle" \in Names  BY DEF Names
<1>4. picks \in Seq(Keys \cup {"none"})
  BY <1>1, <1>2, SeqMonotonic
<1>5. answer \in Response /\ data = {} /\ phase = "deciding" /\ submitted = Nothing
      /\ spent = Nothing /\ requests = 0
  BY DEF Init
<1>6. Nothing \in Submission  BY DEF Nothing, Submission
<1>7. TypeOK  BY <1>1, <1>2, <1>3, <1>4, <1>5, <1>6 DEF TypeOK
<1>8. Consumed  BY <1>5 DEF Consumed, Nothing
<1>q. QED  BY <1>7, <1>8 DEF RemediationInv

\* A call that goes on without a form has submitted no more, and has no value more.
LEMMA RemediationKept ==
    ASSUME RemediationInv,
           values' \subseteq values, options'.flow = options.flow,
           picks' = picks, data' = data, methods' = methods, spent' = spent
    PROVE Consumed'
<1>1. PresetsPassword' => PresetsPassword  BY DEF PresetsPassword
<1>2. Consumed  BY DEF RemediationInv
<1>3. (spent.values \cap values = {})'  BY <1>2 DEF Consumed
<1>4. \A k \in spent'.picks : k \notin ToSet(picks') /\ (k = "password" => ~PresetsPassword')
  BY <1>1, <1>2 DEF Consumed
<1>5. \A k \in spent'.data : k # "password" /\ k \notin data' /\ k \notin ToSet(picks')
  BY <1>2 DEF Consumed
<1>q. QED  BY <1>3, <1>4, <1>5 DEF Consumed

LEMMA EndsKeeps == ASSUME RemediationInv, Ends PROVE RemediationInv'
<1>1. Consumed'  BY RemediationKept DEF Ends, bagVars
<1>2. Nothing \in Submission  BY DEF Nothing, Submission
<1>3. TypeOK'  BY <1>2 DEF Ends, bagVars, TypeOK, RemediationInv
<1>q. QED  BY <1>1, <1>3 DEF RemediationInv

LEMMA RunsActionKeeps == ASSUME RemediationInv, RunsAction PROVE RemediationInv'
<1>1. PICK action \in Matching :
          /\ Asks(Nothing, action # "cancel")
          /\ options' = [options EXCEPT !.actions = Without(@, {action})]
          /\ values' = IF action \in answer.actions THEN values \ {"resend"} ELSE values
  BY DEF RunsAction
<1>2. UNCHANGED <<picks, data, methods, answer, spent>>  BY DEF RunsAction
<1>3. TypeOK  BY DEF RemediationInv
<1>4. options \in Options /\ options.actions \in Seq(Actions \cup {"none"})
  BY <1>3 DEF TypeOK, Options
<1>5. Without(options.actions, {action}) \in Seq(Actions \cup {"none"})
  BY <1>4, WithoutDrops
<1>6. options' \in Options /\ options'.flow = options.flow
  BY <1>1, <1>4, <1>5 DEF Options
<1>7. values' \subseteq values  BY <1>1
<1>8. Consumed'  BY <1>2, <1>6, <1>7, RemediationKept
<1>9. Nothing \in Submission  BY DEF Nothing, Submission
<1>10. requests' \in 0 .. MaxRequests  BY <1>1, <1>3, InputsAssumption DEF Asks, TypeOK
<1>11. phase' \in {"asked", "last"} /\ submitted' = Nothing  BY <1>1 DEF Asks
<1>12. TypeOK'  BY <1>2, <1>3, <1>6, <1>7, <1>9, <1>10, <1>11 DEF TypeOK
<1>q. QED  BY <1>8, <1>12 DEF RemediationInv

LEMMA AnsweredKeeps == ASSUME RemediationInv, Answered PROVE RemediationInv'
<1>1. Consumed'  BY RemediationKept DEF Answered, bagVars
<1>2. Nothing \in Submission  BY DEF Nothing, Submission
<1>3. TypeOK'
  BY <1>2, InputsAssumption DEF Answered, bagVars, TypeOK, RemediationInv
<1>q. QED  BY <1>1, <1>3 DEF RemediationInv

LEMMA ProceedsKeeps == ASSUME RemediationInv, ProceedsAnyway PROVE RemediationInv'
<1>1. CASE Ends  BY <1>1, EndsKeeps
<1>2. CASE Asks(Nothing, FALSE) /\ UNCHANGED <<options, bagVars, methods, answer, spent>>
  <2>1. Consumed'  BY <1>2, RemediationKept DEF bagVars
  <2>2. Nothing \in Submission  BY DEF Nothing, Submission
  <2>3. TypeOK'
    BY <1>2, <2>2, InputsAssumption DEF Asks, bagVars, TypeOK, RemediationInv
  <2>q. QED  BY <2>1, <2>3 DEF RemediationInv
<1>q. QED  BY <1>1, <1>2 DEF ProceedsAnyway

\* What a form submits comes from what is left, and no earlier form submitted it.
LEMMA SubmittedOnce ==
    ASSUME RemediationInv, NEW f \in Form, CanRemediate(f)
    PROVE /\ Submitted(f).values \cap spent.values = {}
          /\ Submitted(f).picks \cap spent.picks = {}
          /\ Submitted(f).data \cap spent.data = {}
          /\ Submitted(f).data \subseteq Data \ {"password"}
<1>1. TypeOK /\ Consumed  BY DEF RemediationInv
<1>2. Submitted(f).values \cap spent.values = {}  BY <1>1, SubmittedValues DEF Consumed
<1>3. Submitted(f).picks \cap spent.picks = {}
  <2>1. Submitted(f).picks \subseteq ToSet(Picks(f))  BY <1>1, SelectedPicks
  <2>2. \A k \in ToSet(Picks(f)) : k \in ToSet(picks) \/ (k = "password" /\ PresetsPassword)
    BY <1>1, SelectedPicks
  <2>q. QED  BY <1>1, <2>1, <2>2 DEF Consumed
<1>4. Data \cap spent.data = {}  BY <1>1 DEF Consumed, Data
<1>5. Submitted(f).data \subseteq Data \ {"password"}
  <2>1. CASE f.name \in NeedsData /\ "methodType" \notin values
    <3>1. Remediator(f) = AuthenticatorVerificationData(f)
          \/ Remediator(f) = AuthenticatorEnrollmentData(f)
      BY <2>1, RemediatorClasses DEF NeedsData
    <3>2. Remediator(f).can  BY DEF CanRemediate
    <3>3. f.key \in Data
      <4>1. AuthenticatorVerificationData(f).can => f.key \in Data \/ "methodType" \in values
        BY DEF AuthenticatorVerificationData
      <4>2. AuthenticatorEnrollmentData(f).can => f.key \in Data \/ "methodType" \in values
        BY DEF AuthenticatorEnrollmentData
      <4>q. QED  BY <2>1, <3>1, <3>2, <4>1, <4>2
    <3>4. f.key # "password"  BY <2>1 DEF Form
    <3>q. QED  BY <2>1, <3>3, <3>4 DEF Submitted
  <2>2. CASE ~(f.name \in NeedsData /\ "methodType" \notin values)
    BY <2>2 DEF Submitted
  <2>q. QED  BY <2>1, <2>2
<1>q. QED  BY <1>2, <1>3, <1>4, <1>5

LEMMA SubmittedTyped ==
    ASSUME TypeOK, NEW f \in Form PROVE Submitted(f) \in Submission
<1>1. Submitted(f).values \subseteq Names  BY SubmittedValues DEF TypeOK
<1>2. Submitted(f).picks \subseteq Keys  BY SelectedPicks
<1>3. Submitted(f).data \subseteq Keys  BY DEF Submitted, Form
<1>4. Submitted(f) = [values |-> Submitted(f).values, picks |-> Submitted(f).picks,
                      data |-> Submitted(f).data]
  BY DEF Submitted
<1>q. QED  BY <1>1, <1>2, <1>3, <1>4 DEF Submission

LEMMA SubmitsKeeps ==
    ASSUME RemediationInv, NEW f \in Form, CanRemediate(f), Submits(f)
    PROVE RemediationInv'
<1> DEFINE what == Submitted(f)
<1> DEFINE later == [values |-> spent.values \cup (what.values \ Keeps(f)),
                     picks |-> spent.picks \cup
                         (IF PresetsPassword THEN what.picks \ {"password"} ELSE what.picks),
                     data |-> spent.data \cup (what.data \ ToSet(picks))]
<1>1. TypeOK /\ Consumed  BY DEF RemediationInv
<1>2. /\ Asks(what, TRUE) /\ spent' = later
      /\ values' = values \ Trimmed(f) /\ picks' = PicksLeft(f) /\ data' = DataLeft(f)
      /\ options' = [options EXCEPT !.step = "none"]
      /\ methods' = methods /\ answer' = answer
  BY DEF Submits
<1>3. what \in Submission  BY <1>1, SubmittedTyped
<1>4. what.values \subseteq values \cap (Trimmed(f) \cup Keeps(f))  BY SubmittedValues
<1>5. what.data \subseteq Data \ {"password"}  BY SubmittedOnce
<1>6. /\ Picks(f) \in Seq(Keys \cup {"none"})
      /\ \A k \in ToSet(Picks(f)) : k \in ToSet(picks) \/ (k = "password" /\ PresetsPassword)
      /\ Selected(f) \subseteq ToSet(Picks(f)) \cap Keys
      /\ what.picks \subseteq Selected(f)
  BY <1>1, SelectedPicks
<1>7. picks \in Seq(Keys \cup {"none"}) /\ data \subseteq Keys /\ methods \subseteq Keys
  BY <1>1 DEF TypeOK
<1>8. Without(Picks(f), Selected(f)) \in Seq(Keys \cup {"none"})
      /\ ToSet(Without(Picks(f), Selected(f)))
             \subseteq (ToSet(Picks(f)) \ Selected(f)) \cup {"none"}
  BY <1>6, WithoutDrops
<1>9. <<>> \in Seq(Keys \cup {"none"}) /\ ToSet(<<>>) = {}  BY DEF ToSet
\* What is left of the authenticators was left before, or is a password that is preset.
<1>10. picks' \in Seq(Keys \cup {"none"})
  BY <1>2, <1>7, <1>8, <1>9 DEF PicksLeft
<1>11. \A k \in ToSet(picks') : k \in ToSet(picks) \/ k = "none"
                                \/ (k = "password" /\ PresetsPassword)
  <2>1. ToSet(PicksLeft(f)) = ToSet(picks) \/ ToSet(PicksLeft(f)) = {}
        \/ ToSet(PicksLeft(f)) = ToSet(Without(Picks(f), Selected(f)))
    BY <1>9 DEF PicksLeft
  <2>2. ToSet(picks') = ToSet(PicksLeft(f))  BY <1>2
  <2>q. QED  BY <1>6, <1>8, <2>1, <2>2
<1>12. \A k \in what.picks : k \notin ToSet(picks')
  <2>1. CASE f.name \in Selects
    <3>1. PicksLeft(f) = Without(Picks(f), Selected(f))
      BY <2>1 DEF PicksLeft, Selects
    <3>2. "none" \notin Keys  BY DEF Keys
    <3>q. QED  BY <1>2, <1>6, <1>8, <3>1, <3>2
  <2>2. CASE f.name \notin Selects
    BY <2>2 DEF Submitted
  <2>q. QED  BY <2>1, <2>2
<1>13. options' \in Options /\ options'.flow = options.flow
  <2>1. options \in Options /\ "none" \in FormNames \cup {"none"}  BY <1>1 DEF TypeOK
  <2>q. QED  BY <1>2, <2>1 DEF Options
<1>14. PresetsPassword' => PresetsPassword  BY <1>2, <1>13 DEF PresetsPassword
<1>15. data' \subseteq Data /\ \A k \in what.data : k \notin data'
  <2>1. f.name \in NeedsData => DataLeft(f) = Data \ {f.key}  BY DEF DataLeft
  <2>2. f.name \notin NeedsData => DataLeft(f) = Data /\ what.data = {}
    BY DEF DataLeft, Submitted
  <2>3. what.data \subseteq {f.key}  BY DEF Submitted
  <2>q. QED  BY <1>2, <2>1, <2>2, <2>3
<1>16. Data \subseteq Keys /\ \A k \in Data : k \in data \/ k \in ToSet(picks)
  BY <1>7 DEF Data
<1>17. TypeOK'
  <2>1. later \in Submission
    <3>1. spent \in Submission  BY <1>1 DEF TypeOK
    <3>2. /\ spent.values \subseteq Names /\ spent.picks \subseteq Keys
          /\ spent.data \subseteq Keys
      BY <3>1 DEF Submission
    <3>3. /\ what.values \subseteq Names /\ what.picks \subseteq Keys
          /\ what.data \subseteq Keys
      BY <1>3 DEF Submission
    <3> HIDE DEF what
    <3>q. QED  BY <3>2, <3>3 DEF Submission
  <2>2. submitted' = what /\ phase' \in {"asked", "last"} /\ requests' \in 0 .. MaxRequests
    BY <1>1, <1>2, InputsAssumption DEF Asks, TypeOK
  <2>3. values' \subseteq Names /\ data' \subseteq Keys
    BY <1>1, <1>2, <1>7, <1>15, <1>16 DEF TypeOK
  <2>4. methods' \subseteq Keys /\ answer' \in Response  BY <1>1, <1>2 DEF TypeOK
  <2> HIDE DEF what, later
  <2>q. QED  BY <1>2, <1>3, <1>10, <1>13, <2>1, <2>2, <2>3, <2>4 DEF TypeOK
<1>18. Consumed'
  <2>1. /\ spent'.values = spent.values \cup (what.values \ Keeps(f))
        /\ spent'.picks = spent.picks \cup
               (IF PresetsPassword THEN what.picks \ {"password"} ELSE what.picks)
        /\ spent'.data = spent.data \cup (what.data \ ToSet(picks))
    BY <1>2
  <2> HIDE DEF what, later
  <2>2. spent'.values \cap values' = {}  BY <1>1, <1>2, <1>4, <2>1 DEF Consumed
  <2>3. \A k \in spent'.picks : k \notin ToSet(picks') /\ (k = "password" => ~PresetsPassword')
    <3>1. ASSUME NEW k \in spent.picks
          PROVE k \notin ToSet(picks') /\ (k = "password" => ~PresetsPassword')
      <4>1. k \notin ToSet(picks) /\ (k = "password" => ~PresetsPassword)
        BY <1>1, <3>1 DEF Consumed
      <4>2. k # "none"  BY <1>1, <3>1 DEF TypeOK, Submission, Keys
      <4>q. QED  BY <1>11, <1>14, <4>1, <4>2
    <3>2. ASSUME NEW k \in (IF PresetsPassword THEN what.picks \ {"password"} ELSE what.picks)
          PROVE k \notin ToSet(picks') /\ (k = "password" => ~PresetsPassword')
      BY <1>12, <1>14, <3>2
    <3>q. QED  BY <2>1, <3>1, <3>2
  <2>4. \A k \in spent'.data :
            k # "password" /\ k \notin data' /\ k \notin ToSet(picks')
    <3>1. "none" \notin spent.data /\ "none" \notin what.data
      BY <1>1, <1>3 DEF TypeOK, Submission, Keys
    <3>2. ASSUME NEW k \in spent.data
          PROVE k # "password" /\ k \notin data' /\ k \notin ToSet(picks')
      <4>1. k # "password" /\ k \notin data /\ k \notin ToSet(picks)
        BY <1>1, <3>2 DEF Consumed
      <4>q. QED  BY <1>11, <1>15, <1>16, <3>1, <4>1
    <3>3. ASSUME NEW k \in what.data \ ToSet(picks)
          PROVE k # "password" /\ k \notin data' /\ k \notin ToSet(picks')
      BY <1>5, <1>11, <1>15, <3>1, <3>3
    <3>q. QED  BY <2>1, <3>2, <3>3
  <2>q. QED  BY <2>2, <2>3, <2>4 DEF Consumed
<1>q. QED  BY <1>17, <1>18 DEF RemediationInv

LEMMA RemediationStep == RemediationInv /\ [Next]_remediationVars => RemediationInv'
<1> SUFFICES ASSUME RemediationInv, [Next]_remediationVars PROVE RemediationInv'
  OBVIOUS
<1>1. CASE Returns \/ Throws \/ NeedsCaller \/ LastAnswered
  BY <1>1, EndsKeeps DEF Returns, Throws, NeedsCaller, LastAnswered
<1>2. CASE RunsAction  BY <1>2, RunsActionKeeps
<1>3. CASE ProceedsAnyway  BY <1>3, ProceedsKeeps
<1>4. CASE Answered  BY <1>4, AnsweredKeeps
<1>5. CASE Submit
  <2>1. PICK f \in Remediable : CanRemediate(f) /\ Submits(f)  BY <1>5 DEF Submit
  <2>2. f \in Form  BY RemediableTyped DEF RemediationInv
  <2>q. QED  BY <2>1, <2>2, SubmitsKeeps
<1>6. CASE UNCHANGED remediationVars
  BY <1>6 DEF remediationVars, bagVars, RemediationInv, TypeOK, Consumed, PresetsPassword
<1>q. QED  BY <1>1, <1>2, <1>3, <1>4, <1>5, <1>6 DEF Next

\* A request of a call submits nothing that an earlier one submitted.
LEMMA NothingTwice ==
    ASSUME RemediationInv, Next, phase' \in {"asked", "last"}
    PROVE /\ submitted'.values \cap spent.values = {}
          /\ submitted'.picks \cap spent.picks = {}
          /\ submitted'.data \cap spent.data = {}
<1>1. CASE Submit
  <2>1. PICK f \in Remediable : CanRemediate(f) /\ Submits(f)  BY <1>1 DEF Submit
  <2>2. f \in Form  BY RemediableTyped DEF RemediationInv
  <2>3. submitted' = Submitted(f)  BY <2>1 DEF Submits, Asks
  <2>q. QED  BY <2>1, <2>2, <2>3, SubmittedOnce
<1>2. CASE RunsAction \/ ProceedsAnyway \/ Answered \/ Returns \/ Throws \/ NeedsCaller
           \/ LastAnswered
  <2>1. phase' \in {"over", "deciding"} \/ submitted' = Nothing
    BY <1>2 DEF RunsAction, ProceedsAnyway, Answered, Returns, Throws, NeedsCaller,
                LastAnswered, Ends, Asks
  <2>q. QED  BY <2>1 DEF Nothing
<1>q. QED  BY <1>1, <1>2 DEF Next

-------------------------------------------------------------------------------
(* A step of the instance is a step of a part or leaves its variables alone.    *)

\* The numbers of interactions grow, the calls hold none that is finished, and so
\* do the storages, in every tab (IdxTransactions).
THEOREM IdxInvariant == MCSpec => []IdxInv
<1>1. MCInit => IdxInv  BY IdxInit DEF MCInit
<1>2. IdxInv /\ [MCNext]_all => IdxInv'
  <2>1. [MCNext]_all => [IT!Next]_idxVars  BY DEF MCNext, all
  <2>q. QED  BY <2>1, IdxStep
<1>q. QED  BY <1>1, <1>2, PTL DEF MCSpec

\* A pair under a call for tokens, or of a stored token, is stored or excused
\* (DPoPKeys).
THEOREM KeysInvariant == MCSpec => []KeysInv
<1>1. MCInit => KeysInv  BY KeysInit DEF MCInit
<1>2. KeysInv /\ [MCNext]_all => KeysInv'
  <2>1. [MCNext]_all => [DK!Next]_keyVars  BY DEF MCNext, all
  <2>q. QED  BY <2>1, KeysStep
<1>q. QED  BY <1>1, <1>2, PTL DEF MCSpec

\* What the answers under way say of the transactions is true when they arrive, and
\* the cookie follows them (AuthnTransactions).
THEOREM AuthnInvariant == MCSpec => []AuthnInv
<1>1. MCInit => AuthnInv  BY AuthnInit DEF MCInit
<1>2. AuthnInv /\ [MCNext]_all => AuthnInv'
  <2>1. [MCNext]_all => [AT!Next]_authnVars  BY DEF MCNext, all
  <2>q. QED  BY <2>1, AuthnStep
<1>q. QED  BY <1>1, <1>2, PTL DEF MCSpec

\* A request carries of the options and of what its caller set what the checks of
\* its answer look at, and a check that was passed found nothing that is demanded
\* (TokenVerification).
THEOREM VerifyInvariant == MCSpec => []VerifyInv
<1>1. MCInit => VerifyInv  BY VerifyInit DEF MCInit
<1>2. VerifyInv /\ [MCNext]_all => VerifyInv'
  <2>1. [MCNext]_all => [TV!Next]_verifyVars  BY DEF MCNext, all
  <2>q. QED  BY <2>1, VerifyStep
<1>q. QED  BY <1>1, <1>2, PTL DEF MCSpec

\* Whatever tabs, sections and storages there are, a place holds what was saved there
\* last, or nothing, also while another place is the one that is found (Storage).
THEOREM StorageInvariant == MCSpec => []StorageInv
<1>1. MCInit => StorageInv  BY StorageInit DEF MCInit
<1>2. StorageInv /\ [MCNext]_all => StorageInv'
  <2>1. [MCNext]_all => [ST!Next]_storageVars  BY DEF MCNext, all
  <2>q. QED  BY <2>1, StorageStep
<1>q. QED  BY <1>1, <1>2, PTL DEF MCSpec

\* What a form submitted is left in nothing that a later one takes from, whatever
\* callers give and servers answer, but for what is named as kept (Remediation).
THEOREM RemediationInvariant == MCSpec => []RemediationInv
<1>1. MCInit => RemediationInv  BY RemediationInit DEF MCInit
<1>2. RemediationInv /\ [MCNext]_all => RemediationInv'
  <2>1. [MCNext]_all => [Next]_remediationVars  BY DEF MCNext, all
  <2>q. QED  BY <2>1, RemediationStep
<1>q. QED  BY <1>1, <1>2, PTL DEF MCSpec

\* The code of an interaction is exchanged with the verifier of that interaction,
\* whichever tabs and calls share the transaction (IdxTransactions).
THEOREM RightVerifier == MCSpec => []CodeWithItsVerifier
<1>1. IdxInv => CodeWithItsVerifier  BY IdxInvSays DEF CodeWithItsVerifier
<1>q. QED  BY <1>1, IdxInvariant, PTL

\* An interaction that ended, while no other call or tab had it, is in no storage
\* where a later call would find it (IdxTransactions).
THEOREM NothingLeft == MCSpec => []FinishedLeavesNothing
<1>1. IdxInv => FinishedLeavesNothing  BY IdxInvSays DEF FinishedLeavesNothing
<1>q. QED  BY <1>1, IdxInvariant, PTL

\* The key pair of a stored token is stored, but when a sign-out or a revocation
\* deleted it under the token (DPoPKeys).
THEOREM TokensUsable == MCSpec => []BoundTokensUsable
<1>1. KeysInv => BoundTokensUsable  BY DEF KeysInv, BoundTokensUsable
<1>q. QED  BY <1>1, KeysInvariant, PTL

\* The cookie names a transaction in progress, or one whose end was not told, and
\* the last that answered is found (AuthnTransactions).
THEOREM Resumes == MCSpec => []ResumesInProgress
<1>1. AuthnInv => ResumesInProgress  BY AuthnInvSays DEF ResumesInProgress
<1>q. QED  BY <1>1, AuthnInvariant, PTL

\* An error says that something is wrong with the answer, or that its key was withdrawn,
\* and what lands on a page is looked at; tokens say that nothing is wrong, or that the
\* nonce is of an ID token that was got for a code, which the README says is validated
\* and exchangeCodeForTokens does not hand on (TokenVerification, NonceIsValidated).
THEOREM VerdictRight == MCSpec => []VerdictIsRight
<1>1. VerifyInv => VerdictIsRight  BY VerifyInvSays DEF VerdictIsRight
<1>q. QED  BY <1>1, VerifyInvariant, PTL

\* What is read is what was saved there last by any of those who share the place, all
\* of its fields and no others, if it fits (Storage).
THEOREM SavedIsRead == MCSpec => []ReadsBack
<1>1. StorageInv => ReadsBack  BY StorageInvSays DEF ReadsBack
<1>q. QED  BY <1>1, StorageInvariant, PTL

\* No value or authenticator of the caller is submitted twice by one call, so a server
\* that asks the same again ends it (Remediation).
THEOREM NoneTwice == MCSpec => NoValueTwice
<1> DEFINE Once == phase' \in {"asked", "last"} =>
                      /\ submitted'.values \cap spent.values = {}
                      /\ submitted'.picks \cap spent.picks = {}
                      /\ submitted'.data \cap spent.data = {}
<1>1. RemediationInv /\ [MCNext]_all => [Once]_remediationVars
  <2>1. [MCNext]_all => [Next]_remediationVars  BY DEF MCNext, all
  <2>q. QED  BY <2>1, NothingTwice
<1>q. QED  BY <1>1, RemediationInvariant, PTL DEF MCSpec, NoValueTwice

\* What the modules keep has the types they declare: the bags of a call, its forms and
\* what it submitted, the transactions and pairs, the requests and their checks, and
\* what is stored.
THEOREM Typed == MCSpec => []Types
<1>1. IdxInv /\ KeysInv /\ AuthnInv /\ VerifyInv /\ StorageInv /\ RemediationInv => Types
  BY IdxInvSays, VerifyInvSays, StorageInvSays DEF Types, KeysInv, AuthnInv, RemediationInv
<1>q. QED
  BY <1>1, IdxInvariant, KeysInvariant, AuthnInvariant, VerifyInvariant, StorageInvariant,
     RemediationInvariant, PTL
===============================================================================
