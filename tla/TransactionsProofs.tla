-------------------------- MODULE TransactionsProofs --------------------------
(* Proofs about Transactions, for any number of flows, tabs and calls, and, at  *)
(* the end, what TokenSyncProofs proves, for MCTabs.                            *)
EXTENDS MCTabs, TLAPS

\* What a running parseFromUrl() knows.
RunInv == \A t \in Tabs :
             /\ run[t].pc # "idle" => run[t].answer \in Answers
             /\ run[t].pc = "exchanging" => run[t].meta = run[t].answer.flow

\* The flow of a queued sign-in, of an answer and of a running method was begun.
BegunInv == /\ \A t \in Tabs : \A i \in 1..Len(queue[t]) :
                  queue[t][i].kind = "signIn"
                  => stage[queue[t][i].flow] # "unused"
            /\ \A t \in Tabs : answer[t] # NoAnswer
                               => stage[answer[t].flow] # "unused"
            /\ \A t \in Tabs : run[t].pc # "idle"
                               => stage[run[t].answer.flow] # "unused"

\* Until a flow whose state the app chose has been restored, its URI is in the
\* shared storage and in its logins.
UriInv == /\ \A f \in StateFlows : stage[f] # "unused" /\ restored[f] = "never"
                                   => f \in sharedUri
          /\ \A t \in Tabs, c \in Calls :
                /\ login[t][c].state \in StateFlows
                /\ restored[login[t][c].state] = "never"
                => login[t][c].uri = login[t][c].state

\* An answer is in one URL at most, and then was not exchanged.
AnswerInv == /\ \A t \in Tabs : answer[t] # NoAnswer
                                => /\ answer[t] \notin exchanged
                                   /\ answer[t].id <= answered[answer[t].flow]
             /\ \A t, u \in Tabs : t # u /\ answer[t] # NoAnswer
                                   => answer[t] # answer[u]
             /\ \A a \in exchanged : a.id <= answered[a.flow]

Inv == TypeOK /\ RunInv /\ EndedLeavesNothing /\ BegunInv /\ UriInv
       /\ RestoresOwnUri /\ AnswerInv

-------------------------------------------------------------------------------
(* The head of a queue.                                                        *)

\* The first of a queue is a job, and of a flow or call if its kind is.
LEMMA HeadIsJob ==
    ASSUME TypeOK, NEW t \in Tabs, queue[t] # <<>>
    PROVE  /\ Head(queue[t]) \in Jobs
           /\ Tail(queue[t]) \in Seq(Jobs)
           /\ Head(queue[t]).kind = "signIn" => Head(queue[t]).flow \in Flows
           /\ Head(queue[t]).kind = "parse" => Head(queue[t]).call \in Calls
<1>1. queue[t] \in Seq(Jobs)
  BY DEF TypeOK
<1>2. Head(queue[t]) \in Jobs /\ Tail(queue[t]) \in Seq(Jobs)
  BY <1>1
<1> QED
  BY <1>2 DEF Jobs

Runs == [pc : {"idle", "exchanging", "resolved", "rejected"},
         answer : Answers \cup {NoAnswer}, meta : Flows \cup {None}]

Logins == [pc : {"none", "parsing", "updating"}, state : Flows \cup {None},
           uri : Flows \cup {None}]

\* A login of a page can be replaced by another.
LEMMA LoginUpdate ==
    ASSUME TypeOK, NEW t \in Tabs, NEW c \in Calls, NEW l \in Logins
    PROVE  [login EXCEPT ![t][c] = l] \in [Tabs -> [Calls -> Logins]]
  BY DEF TypeOK, Logins

\* No answer is an answer.
LEMMA NoAnswerIsNone == NoAnswer \notin Answers
  BY TransactionsAssumption DEF NoAnswer, Answers

-------------------------------------------------------------------------------
LEMMA InitInv == Init => Inv
<1> SUFFICES ASSUME Init PROVE Inv
  OBVIOUS
<1>1. TypeOK
  BY TransactionsAssumption
  DEF Init, TypeOK, Idle, NoLogin, NoAnswer, Answers
<1>2. RunInv /\ EndedLeavesNothing
  BY DEF Init, RunInv, EndedLeavesNothing, Idle
<1>3. UriInv /\ RestoresOwnUri
  BY TransactionsAssumption DEF Init, UriInv, RestoresOwnUri, NoLogin
<1>4. AnswerInv /\ BegunInv
  BY DEF Init, AnswerInv, BegunInv, Idle
<1> QED
  BY <1>1, <1>2, <1>3, <1>4 DEF Inv

-------------------------------------------------------------------------------
(* Types.                                                                      *)

\* Every step keeps the types.
LEMMA TypeNext == TypeOK /\ [Next]_vars => TypeOK'
<1> SUFFICES ASSUME TypeOK, [Next]_vars PROVE TypeOK'
  OBVIOUS
<1> USE TransactionsAssumption
<1>1. CASE Tick
  BY <1>1 DEF TypeOK, Tick, page, stores, history
<1>2. ASSUME NEW t \in Tabs, NEW f \in Flows, SignInWithRedirect(t, f)
      PROVE  TypeOK'
  <2>1. [kind |-> "signIn", flow |-> f] \in Jobs
    BY DEF Jobs
  <2>2. queue' \in [Tabs -> Seq(Jobs)]
    BY <1>2, <2>1 DEF TypeOK, SignInWithRedirect, Push
  <2> QED
    BY <1>2, <2>2 DEF TypeOK, SignInWithRedirect, SetOriginalUri, history
<1>3. ASSUME NEW t \in Tabs, PrepareFails(t)
      PROVE  TypeOK'
  BY <1>3, HeadIsJob
  DEF TypeOK, PrepareFails, Running, Shift, Idle, stores, flows, history
<1>4. ASSUME NEW t \in Tabs, Redirect(t)
      PROVE  TypeOK'
  BY <1>4, HeadIsJob
  DEF TypeOK, Redirect, Running, Shift, Idle, Save, history
<1>5. ASSUME NEW t \in Tabs, NEW c \in Calls, HandleLoginRedirect(t, c)
      PROVE  TypeOK'
  <2>1. [kind |-> "parse", call |-> c] \in Jobs
    BY DEF Jobs
  <2>2. queue' \in [Tabs -> Seq(Jobs)]
    BY <1>5, <2>1 DEF TypeOK, HandleLoginRedirect, Push
  <2>3. answer[t].flow \in Flows
    BY <1>5 DEF TypeOK, HandleLoginRedirect, Answers
  <2> QED
    BY <1>5, <2>2, <2>3
    DEF TypeOK, HandleLoginRedirect, GetOriginalUri, stores, flows, history
<1>6. ASSUME NEW t \in Tabs, NEW c \in Calls, FinishLogin(t, c)
      PROVE  TypeOK'
  <2>1. login[t][c].state \in Flows \cup {None}
        /\ login[t][c].uri \in Flows \cup {None}
    BY DEF TypeOK
  <2>2. restored' \in [Flows -> Flows \cup {None, "never"}]
    BY <1>6, <2>1 DEF TypeOK, FinishLogin
  <2>3. login' \in [Tabs -> [Calls -> Logins]]
    <3>1. NoLogin \in Logins
      BY DEF NoLogin, Logins
    <3>2. login' = [login EXCEPT ![t][c] = NoLogin]
      BY <1>6 DEF FinishLogin
    <3> QED
      BY <3>1, <3>2, LoginUpdate
  <2>4. uri' \in [Tabs -> Flows \cup {None}] /\ sharedUri' \subseteq Flows
    BY <1>6 DEF TypeOK, FinishLogin, RemoveOriginalUri
  <2> QED
    BY <1>6, <2>2, <2>3, <2>4 DEF TypeOK, FinishLogin, flows, Logins
<1>7. ASSUME NEW t \in Tabs, ParseFails(t)
      PROVE  TypeOK'
  <2>1. shared' \subseteq Flows
    BY <1>7 DEF TypeOK, ParseFails
  <2> QED
    BY <1>7, <2>1, HeadIsJob
    DEF TypeOK, ParseFails, Running, Shift, Idle, NoLogin, flows, history
<1>8. ASSUME NEW t \in Tabs, Parse(t)
      PROVE  TypeOK'
  <2>1. answer[t] \in Answers /\ answer[t].flow \in Flows
    BY <1>8 DEF TypeOK, Parse, Answers
  <2>2. Load(t, answer[t].flow) \in Flows \cup {None}
    BY <2>1 DEF TypeOK, Load
  <2> QED
    BY <1>8, <2>1, <2>2 DEF TypeOK, Parse, CleanUrl, flows
<1>9. ASSUME NEW t \in Tabs, SettleParse(t)
      PROVE  TypeOK'
  <2>1. /\ session' \in [Tabs -> Flows \cup {None}]
        /\ shared' \subseteq Flows
    BY <1>9 DEF TypeOK, SettleParse, Clear
  <2>2. stage' \in [Flows -> {"unused", "asked", "saved", "visited", "ended"}]
    BY <1>9 DEF TypeOK, SettleParse
  <2>3. /\ Head(queue[t]).call \in Calls
        /\ Tail(queue[t]) \in Seq(Jobs)
    BY <1>9, HeadIsJob DEF SettleParse, Running
  <2>4. login' \in [Tabs -> [Calls -> Logins]]
    <3> DEFINE k == Head(queue[t]).call
               l == IF run[t].pc = "resolved"
                    THEN [login[t][k] EXCEPT !.pc = "updating"] ELSE NoLogin
    <3>1. login[t][k] \in Logins
      BY <2>3 DEF TypeOK, Logins
    <3>2. l \in Logins
      BY <3>1 DEF Logins, NoLogin
    <3>3. login' = [login EXCEPT ![t][k] = l]
      BY <1>9 DEF SettleParse
    <3> QED
      BY <2>3, <3>2, <3>3, LoginUpdate
  <2> QED
    BY <1>9, <2>1, <2>2, <2>3, <2>4
    DEF TypeOK, SettleParse, Shift, Idle, history, Logins
<1>10. ASSUME NEW t \in Tabs, NEW pc \in {"resolved", "rejected"},
              ExchangeEnds(t, pc)
       PROVE  TypeOK'
  <2>1. run' = [run EXCEPT ![t] = [run[t] EXCEPT !.pc = pc]]
    BY <1>10 DEF ExchangeEnds
  <2>2. /\ session' \in [Tabs -> Flows \cup {None}]
        /\ shared' \subseteq Flows
    BY <1>10 DEF TypeOK, ExchangeEnds, Clear
  <2>3. run[t] \in Runs
    BY DEF TypeOK, Runs
  <2>4. [run[t] EXCEPT !.pc = pc] \in Runs
    BY <2>3 DEF Runs
  <2>5. run' \in [Tabs -> Runs]
    BY <2>1, <2>4 DEF TypeOK, Runs
  <2> QED
    BY <1>10, <2>2, <2>5 DEF TypeOK, ExchangeEnds, flows, history, Runs
<1>11. ASSUME NEW t \in Tabs, RenewTokens(t)
       PROVE  TypeOK'
  <2>1. [kind |-> "renew"] \in Jobs
    BY DEF Jobs
  <2>2. queue' \in [Tabs -> Seq(Jobs)]
    BY <1>11, <2>1 DEF TypeOK, RenewTokens, Push
  <2> QED
    BY <1>11, <2>2 DEF TypeOK, RenewTokens, stores, flows, history
<1>12. ASSUME NEW t \in Tabs, RenewFails(t)
       PROVE  TypeOK'
  BY <1>12, HeadIsJob
  DEF TypeOK, RenewFails, Running, Shift, Idle, stores, flows, history
<1>13. ASSUME NEW t \in Tabs, RenewEnds(t)
       PROVE  TypeOK'
  BY <1>13, HeadIsJob
  DEF TypeOK, RenewEnds, Running, Shift, Idle, Clear, flows, history
<1>14. ASSUME NEW t \in Tabs, Leave(t) \/ Back(t) \/ Reload(t) \/ Close(t)
       PROVE  TypeOK'
  <2>1. <<>> \in Seq(Jobs)
    OBVIOUS
  <2>2. CASE Leave(t)
    BY <2>1, <2>2
    DEF TypeOK, Leave, Unloaded, Idle, NoLogin, stores, history
  <2>3. CASE Back(t)
    BY <2>3 DEF TypeOK, Back, page, stores, flows, history
  <2>4. CASE Reload(t)
    BY <2>1, <2>4
    DEF TypeOK, Reload, Unloaded, Idle, NoLogin, stores, flows, history
  <2>5. CASE Close(t)
    BY <2>1, <2>5
    DEF TypeOK, Close, Unloaded, Idle, NoLogin, flows, history
  <2> QED
    BY <1>14, <2>2, <2>3, <2>4, <2>5
<1>15. ASSUME NEW t \in Tabs, NEW f \in Flows, NEW kind \in Kinds,
              Answer(t, f, kind)
       PROVE  TypeOK'
  <2>1. [flow |-> f, id |-> answered[f] + 1, kind |-> kind] \in Answers
    BY <1>15 DEF TypeOK, Answer, Answers
  <2> QED
    BY <1>15, <2>1 DEF TypeOK, Answer, page, stores, history
<1>16. CASE UNCHANGED vars
  BY <1>16 DEF TypeOK, vars, page, stores, flows, history
<1> QED
  BY <1>1, <1>2, <1>3, <1>4, <1>5, <1>6, <1>7, <1>8, <1>9, <1>10, <1>11, <1>12,
     <1>13, <1>14, <1>15, <1>16
  DEF Next, TabNext

-------------------------------------------------------------------------------
(* The running method.                                                         *)

\* A running parse keeps a genuine answer.
LEMMA RunNext == TypeOK /\ RunInv /\ [Next]_vars => RunInv'
<1> SUFFICES ASSUME TypeOK, RunInv, [Next]_vars PROVE RunInv'
  OBVIOUS
<1>1. CASE UNCHANGED run
  BY <1>1 DEF RunInv
<1>2. ASSUME NEW t \in Tabs, run' = [run EXCEPT ![t] = Idle]
      PROVE  RunInv'
  BY <1>2 DEF TypeOK, RunInv, Idle
<1>3. ASSUME NEW t \in Tabs, Parse(t)
      PROVE  RunInv'
  <2>1. answer[t] \in Answers
    BY <1>3 DEF TypeOK, Parse
  <2> QED
    BY <1>3, <2>1 DEF TypeOK, RunInv, Parse, StateMatches
<1>4. ASSUME NEW t \in Tabs, NEW pc \in {"resolved", "rejected"},
             ExchangeEnds(t, pc)
      PROVE  RunInv'
  <2>1. run' = [run EXCEPT ![t] = [run[t] EXCEPT !.pc = pc]]
    BY <1>4 DEF ExchangeEnds
  <2>2. run[t].answer \in Answers
    BY <1>4 DEF RunInv, ExchangeEnds
  <2>3. run[t] \in Runs /\ run \in [Tabs -> Runs]
    BY DEF TypeOK, Runs
  <2>4. run'[t].answer = run[t].answer /\ run'[t].pc = pc
    BY <2>1, <2>3 DEF Runs
  <2>5. \A u \in Tabs : u # t => run'[u] = run[u]
    BY <2>1, <2>3
  <2> QED
    BY <2>2, <2>4, <2>5 DEF RunInv
<1>5. CASE Tick \/ UNCHANGED vars
  BY <1>1, <1>5 DEF Tick, vars, page
<1>6. ASSUME NEW t \in Tabs,
             \/ PrepareFails(t) \/ Redirect(t) \/ ParseFails(t)
             \/ SettleParse(t) \/ RenewFails(t) \/ RenewEnds(t)
             \/ Leave(t) \/ Reload(t) \/ Close(t)
      PROVE  run' = [run EXCEPT ![t] = Idle]
  BY <1>6
  DEF PrepareFails, Redirect, ParseFails, SettleParse, RenewFails, RenewEnds,
      Leave, Reload, Close, Shift, Unloaded
<1>7. ASSUME NEW t \in Tabs,
             \/ RenewTokens(t) \/ Back(t)
             \/ \E f \in Flows : SignInWithRedirect(t, f)
             \/ \E c \in Calls : HandleLoginRedirect(t, c) \/ FinishLogin(t, c)
             \/ \E f \in Flows, kind \in Kinds : Answer(t, f, kind)
      PROVE  UNCHANGED run
  BY <1>7
  DEF SignInWithRedirect, HandleLoginRedirect, FinishLogin, RenewTokens, Back,
      Answer, page
<1> QED
  BY <1>1, <1>2, <1>3, <1>4, <1>5, <1>6, <1>7 DEF Next, TabNext

-------------------------------------------------------------------------------
(* Ended flows.                                                                *)

\* A flow that has ended stays without an entry.
LEMMA EndedNext ==
    TypeOK /\ RunInv /\ EndedLeavesNothing /\ [Next]_vars => EndedLeavesNothing'
<1> SUFFICES ASSUME TypeOK, RunInv, EndedLeavesNothing, [Next]_vars
             PROVE  EndedLeavesNothing'
  OBVIOUS
<1>1. CASE UNCHANGED stage /\ shared' \subseteq shared
  BY <1>1 DEF EndedLeavesNothing
<1>2. ASSUME NEW t \in Tabs, NEW f \in Flows, SignInWithRedirect(t, f)
      PROVE  EndedLeavesNothing'
  BY <1>2 DEF TypeOK, EndedLeavesNothing, SignInWithRedirect
<1>3. ASSUME NEW t \in Tabs, Redirect(t)
      PROVE  EndedLeavesNothing'
  <2>1. Head(queue[t]).flow \in Flows
    BY <1>3, HeadIsJob DEF Redirect, Running
  <2> QED
    BY <1>3, <2>1 DEF TypeOK, EndedLeavesNothing, Redirect, Save
<1>4. ASSUME NEW t \in Tabs, SettleParse(t)
      PROVE  EndedLeavesNothing'
  <2>1. run[t].answer.flow \in Flows /\ run[t].answer.flow # None
    BY <1>4, TransactionsAssumption DEF RunInv, SettleParse, Answers
  <2> QED
    BY <1>4, <2>1 DEF TypeOK, EndedLeavesNothing, SettleParse, Clear
<1>5. ASSUME NEW t \in Tabs, Leave(t)
      PROVE  EndedLeavesNothing'
  BY <1>5 DEF TypeOK, EndedLeavesNothing, Leave, stores
<1>6. CASE Tick \/ UNCHANGED vars
  BY <1>1, <1>6 DEF Tick, vars, stores, flows
<1>7. ASSUME NEW t \in Tabs,
             \/ PrepareFails(t) \/ ParseFails(t) \/ Parse(t) \/ RenewTokens(t)
             \/ RenewFails(t) \/ RenewEnds(t)
             \/ Back(t) \/ Reload(t) \/ Close(t)
             \/ \E pc \in {"resolved", "rejected"} : ExchangeEnds(t, pc)
             \/ \E c \in Calls : HandleLoginRedirect(t, c) \/ FinishLogin(t, c)
             \/ \E f \in Flows, kind \in Kinds : Answer(t, f, kind)
      PROVE  UNCHANGED stage /\ shared' \subseteq shared
  BY <1>7
  DEF stores, flows, PrepareFails, HandleLoginRedirect, FinishLogin, ParseFails,
      Parse, ExchangeEnds, RenewTokens, RenewFails, RenewEnds, Back, Reload,
      Close, Answer, Clear
<1> QED
  BY <1>1, <1>2, <1>3, <1>4, <1>5, <1>6, <1>7 DEF Next, TabNext

-------------------------------------------------------------------------------
(* Begun flows stay begun.                                                     *)

\* A flow that was begun stays begun.
LEMMA StageNext ==
    ASSUME TypeOK, [Next]_vars
    PROVE  \A f \in Flows : stage[f] # "unused" => stage'[f] # "unused"
<1> SUFFICES ASSUME NEW g \in Flows, stage[g] # "unused"
             PROVE  stage'[g] # "unused"
  OBVIOUS
<1>1. CASE Tick \/ UNCHANGED vars
  BY <1>1 DEF Tick, vars, flows
<1>2. ASSUME NEW t \in Tabs,
             \/ PrepareFails(t) \/ ParseFails(t) \/ Parse(t) \/ RenewTokens(t)
             \/ RenewFails(t) \/ RenewEnds(t)
             \/ Back(t) \/ Reload(t) \/ Close(t)
             \/ \E pc \in {"resolved", "rejected"} : ExchangeEnds(t, pc)
             \/ \E c \in Calls : HandleLoginRedirect(t, c) \/ FinishLogin(t, c)
             \/ \E f \in Flows, kind \in Kinds : Answer(t, f, kind)
      PROVE  UNCHANGED stage
  BY <1>2
  DEF flows, PrepareFails, HandleLoginRedirect, FinishLogin, ParseFails,
      Parse, ExchangeEnds, RenewTokens, RenewFails, RenewEnds, Back, Reload,
      Close, Answer
<1>3. ASSUME NEW t \in Tabs, NEW f \in Flows, SignInWithRedirect(t, f)
      PROVE  stage'[g] # "unused"
  BY <1>3 DEF TypeOK, SignInWithRedirect
<1>4. ASSUME NEW t \in Tabs, Redirect(t)
      PROVE  stage'[g] # "unused"
  BY <1>4 DEF TypeOK, Redirect
<1>5. ASSUME NEW t \in Tabs, SettleParse(t)
      PROVE  stage'[g] # "unused"
  BY <1>5 DEF TypeOK, SettleParse
<1>6. ASSUME NEW t \in Tabs, Leave(t)
      PROVE  stage'[g] # "unused"
  BY <1>6 DEF TypeOK, Leave
<1> QED
  BY <1>1, <1>2, <1>3, <1>4, <1>5, <1>6 DEF Next, TabNext

\* The flow of a queued sign-in, an answer or a running method was begun.
LEMMA BegunNext == TypeOK /\ RunInv /\ BegunInv /\ [Next]_vars => BegunInv'
<1> SUFFICES ASSUME TypeOK, RunInv, BegunInv, [Next]_vars PROVE BegunInv'
  OBVIOUS
<1> USE TransactionsAssumption
<1> DEFINE Sound(q, s) == \A i \in 1..Len(q) : q[i].kind = "signIn"
                                               => s[q[i].flow] # "unused"
           AnswersSound == \A t \in Tabs : answer'[t] # NoAnswer
                                           => stage'[answer'[t].flow] # "unused"
           RunsSound == \A t \in Tabs : run'[t].pc # "idle"
                                        => stage'[run'[t].answer.flow] # "unused"
           QueuesSound == \A t \in Tabs : Sound(queue'[t], stage')
<1>1. \A f \in Flows : stage[f] # "unused" => stage'[f] # "unused"
  BY StageNext
<1>2. \A t \in Tabs : answer[t] # NoAnswer
                      => stage'[answer[t].flow] # "unused"
  BY <1>1 DEF TypeOK, BegunInv, Answers
<1>3. \A t \in Tabs : run[t].pc # "idle"
                      => stage'[run[t].answer.flow] # "unused"
  BY <1>1 DEF TypeOK, RunInv, BegunInv, Answers
<1>4. \A t \in Tabs : Sound(queue[t], stage')
  <2> SUFFICES ASSUME NEW t \in Tabs, NEW i \in 1..Len(queue[t]),
                      queue[t][i].kind = "signIn"
               PROVE  stage'[queue[t][i].flow] # "unused"
    OBVIOUS
  <2>1. queue[t][i] \in Jobs
    BY DEF TypeOK
  <2>2. queue[t][i].flow \in Flows
    BY <2>1 DEF Jobs
  <2> QED
    BY <1>1, <2>2 DEF BegunInv
\* What each kind of step does to the three.
<1>5. ASSUME \A t \in Tabs : answer'[t] \in {answer[t], NoAnswer}
      PROVE  AnswersSound
  BY <1>2, <1>5
<1>6. ASSUME \A t \in Tabs : run'[t] \in {run[t], Idle}
      PROVE  RunsSound
  BY <1>3, <1>6 DEF Idle
<1>7. ASSUME NEW t \in Tabs,
             queue' = [queue EXCEPT ![t] = Tail(@)], queue[t] # <<>>
      PROVE  QueuesSound
  <2>1. queue[t] \in Seq(Jobs)
    BY DEF TypeOK
  <2>2. \A i \in 1..Len(Tail(queue[t])) :
           i + 1 \in 1..Len(queue[t]) /\ Tail(queue[t])[i] = queue[t][i + 1]
    BY <1>7, <2>1
  <2>3. Sound(Tail(queue[t]), stage')
    BY <1>4, <2>2
  <2> QED
    BY <1>4, <1>7, <2>3 DEF TypeOK
<1>8. ASSUME NEW t \in Tabs, NEW job \in Jobs,
             queue' = [queue EXCEPT ![t] = Append(@, job)],
             job.kind = "signIn" => stage'[job.flow] # "unused"
      PROVE  QueuesSound
  <2>1. queue[t] \in Seq(Jobs)
    BY DEF TypeOK
  <2>2. \A i \in 1..Len(Append(queue[t], job)) :
           \/ i \in 1..Len(queue[t]) /\ Append(queue[t], job)[i] = queue[t][i]
           \/ Append(queue[t], job)[i] = job
    BY <2>1
  <2>3. Sound(Append(queue[t], job), stage')
    BY <1>4, <1>8, <2>2
  <2> QED
    BY <1>4, <1>8, <2>3 DEF TypeOK
<1>9. ASSUME NEW t \in Tabs, queue' = [queue EXCEPT ![t] = <<>>]
      PROVE  QueuesSound
  BY <1>4, <1>9 DEF TypeOK
<1>10. CASE Tick \/ UNCHANGED vars
  BY <1>2, <1>3, <1>4, <1>10 DEF Tick, vars, page, flows, BegunInv
<1>11. ASSUME NEW t \in Tabs, NEW f \in Flows, SignInWithRedirect(t, f)
       PROVE  AnswersSound /\ RunsSound /\ QueuesSound
  <2>1. [kind |-> "signIn", flow |-> f] \in Jobs
    BY DEF Jobs
  <2>2. stage'[f] # "unused"
    BY <1>11 DEF TypeOK, SignInWithRedirect
  <2>3. QueuesSound
    BY <1>8, <1>11, <2>1, <2>2 DEF SignInWithRedirect, Push
  <2> QED
    BY <1>2, <1>3, <1>11, <2>3 DEF SignInWithRedirect
<1>12. ASSUME NEW t \in Tabs, NEW c \in Calls, HandleLoginRedirect(t, c)
       PROVE  AnswersSound /\ RunsSound /\ QueuesSound
  <2>1. [kind |-> "parse", call |-> c] \in Jobs
    BY DEF Jobs
  <2>2. QueuesSound
    BY <1>8, <1>12, <2>1 DEF HandleLoginRedirect, Push
  <2> QED
    BY <1>2, <1>3, <1>12, <2>2 DEF HandleLoginRedirect, flows
<1>13. ASSUME NEW t \in Tabs, RenewTokens(t)
       PROVE  AnswersSound /\ RunsSound /\ QueuesSound
  <2>1. [kind |-> "renew"] \in Jobs
    BY DEF Jobs
  <2>2. QueuesSound
    BY <1>8, <1>13, <2>1 DEF RenewTokens, Push
  <2> QED
    BY <1>2, <1>3, <1>13, <2>2 DEF RenewTokens, flows
<1>14. ASSUME NEW t \in Tabs,
              \/ PrepareFails(t) \/ Redirect(t) \/ ParseFails(t)
              \/ SettleParse(t) \/ RenewFails(t) \/ RenewEnds(t)
       PROVE  AnswersSound /\ RunsSound /\ QueuesSound
  <2>1. Shift(t) /\ queue[t] # <<>> /\ UNCHANGED answer
    BY <1>14
    DEF PrepareFails, Redirect, ParseFails, SettleParse, RenewFails, RenewEnds,
        Running
  <2>2. \A u \in Tabs : run'[u] \in {run[u], Idle}
    BY <2>1 DEF TypeOK, Shift
  <2> QED
    BY <1>5, <1>6, <1>7, <2>1, <2>2 DEF Shift
<1>15. ASSUME NEW t \in Tabs, Leave(t) \/ Reload(t) \/ Close(t)
       PROVE  AnswersSound /\ RunsSound /\ QueuesSound
  <2>1. Unloaded(t) /\ answer' \in {answer, [answer EXCEPT ![t] = NoAnswer]}
    BY <1>15 DEF Leave, Reload, Close
  <2>2. /\ \A u \in Tabs : run'[u] \in {run[u], Idle}
        /\ \A u \in Tabs : answer'[u] \in {answer[u], NoAnswer}
    BY <2>1 DEF TypeOK, Unloaded
  <2> QED
    BY <1>5, <1>6, <1>9, <2>1, <2>2 DEF Unloaded
<1>16. ASSUME NEW t \in Tabs, Parse(t)
       PROVE  AnswersSound /\ RunsSound /\ QueuesSound
  <2>1. \A u \in Tabs : answer'[u] \in {answer[u], NoAnswer}
    BY <1>16 DEF TypeOK, Parse, CleanUrl
  <2>2. stage'[answer[t].flow] # "unused"
    BY <1>2, <1>16 DEF Parse
  <2>3. /\ run'[t].answer = answer[t]
        /\ \A u \in Tabs : u # t => run'[u] = run[u]
    BY <1>16 DEF TypeOK, Parse
  <2>4. RunsSound
    BY <1>3, <2>2, <2>3
  <2> QED
    BY <1>4, <1>5, <1>16, <2>1, <2>4 DEF Parse
<1>17. ASSUME NEW t \in Tabs, NEW pc \in {"resolved", "rejected"},
              ExchangeEnds(t, pc)
       PROVE  AnswersSound /\ RunsSound /\ QueuesSound
  <2>1. run' = [run EXCEPT ![t] = [run[t] EXCEPT !.pc = pc]]
    BY <1>17 DEF ExchangeEnds
  <2>2. run[t] \in Runs /\ run \in [Tabs -> Runs]
    BY DEF TypeOK, Runs
  <2>3. /\ run'[t].answer = run[t].answer /\ run[t].pc # "idle"
        /\ \A u \in Tabs : u # t => run'[u] = run[u]
    BY <1>17, <2>1, <2>2 DEF ExchangeEnds, Runs
  <2>4. RunsSound
    BY <1>3, <2>3
  <2> QED
    BY <1>2, <1>4, <1>17, <2>4 DEF ExchangeEnds, flows
<1>18. ASSUME NEW t \in Tabs, NEW f \in Flows, NEW kind \in Kinds,
              Answer(t, f, kind)
       PROVE  AnswersSound /\ RunsSound /\ QueuesSound
  <2>1. AnswersSound
    BY <1>2, <1>18 DEF TypeOK, Answer
  <2> QED
    BY <1>3, <1>4, <1>18, <2>1 DEF Answer, page
<1>19. ASSUME NEW t \in Tabs, Back(t) \/ \E c \in Calls : FinishLogin(t, c)
       PROVE  AnswersSound /\ RunsSound /\ QueuesSound
  BY <1>2, <1>3, <1>4, <1>19 DEF Back, FinishLogin, page, flows
<1> QED
  BY <1>10, <1>11, <1>12, <1>13, <1>14, <1>15, <1>16, <1>17, <1>18, <1>19
  DEF Next, TabNext, BegunInv

-------------------------------------------------------------------------------
(* Original URIs.                                                              *)

\* The original URI of a flow stays its own until it is restored.
LEMMA UriNext ==
    TypeOK /\ RunInv /\ BegunInv /\ UriInv /\ RestoresOwnUri /\ [Next]_vars
    => UriInv' /\ RestoresOwnUri'
<1> SUFFICES ASSUME TypeOK, RunInv, BegunInv, UriInv, RestoresOwnUri,
                    [Next]_vars
             PROVE  UriInv' /\ RestoresOwnUri'
  OBVIOUS
<1> USE TransactionsAssumption
<1> DEFINE Kept(t, c) == /\ login'[t][c].state = login[t][c].state
                         /\ login'[t][c].uri = login[t][c].uri
           Dropped(t, c) == login'[t][c].state = None
<1>1. ASSUME UNCHANGED <<sharedUri, restored>>,
             \A f \in Flows : stage'[f] # "unused" => stage[f] # "unused",
             \A t \in Tabs, c \in Calls : Kept(t, c) \/ Dropped(t, c)
      PROVE  UriInv' /\ RestoresOwnUri'
  BY <1>1 DEF UriInv, RestoresOwnUri
<1>2. ASSUME NEW t \in Tabs, NEW f \in Flows, SignInWithRedirect(t, f)
      PROVE  UriInv' /\ RestoresOwnUri'
  BY <1>2
  DEF TypeOK, UriInv, RestoresOwnUri, SignInWithRedirect, SetOriginalUri,
      history
<1>3. ASSUME NEW t \in Tabs, NEW c \in Calls, HandleLoginRedirect(t, c)
      PROVE  UriInv' /\ RestoresOwnUri'
  <2> DEFINE f == answer[t].flow
             l == [pc |-> "parsing", state |-> f, uri |-> GetOriginalUri(t, f)]
  <2>1. f \in Flows /\ stage[f] # "unused"
    BY <1>3 DEF TypeOK, BegunInv, HandleLoginRedirect, Answers
  <2>2. f \in StateFlows /\ restored[f] = "never" => GetOriginalUri(t, f) = f
    BY <2>1 DEF UriInv, GetOriginalUri
  <2>3. login' = [login EXCEPT ![t][c] = l]
    BY <1>3 DEF HandleLoginRedirect
  <2>4. \A u \in Tabs, d \in Calls :
           login'[u][d] = IF u = t /\ d = c THEN l ELSE login[u][d]
    BY <2>3 DEF TypeOK
  <2> QED
    BY <1>3, <2>2, <2>4
    DEF UriInv, RestoresOwnUri, HandleLoginRedirect, stores, flows, history
<1>4. ASSUME NEW t \in Tabs, NEW c \in Calls, FinishLogin(t, c)
      PROVE  UriInv' /\ RestoresOwnUri'
  <2> DEFINE f == login[t][c].state
  <2>1. \A g \in Flows :
           restored'[g] = IF g = f /\ restored[f] = "never"
                          THEN login[t][c].uri ELSE restored[g]
    BY <1>4 DEF TypeOK, FinishLogin
  <2>2. f \in StateFlows /\ restored[f] = "never" => login[t][c].uri = f
    BY DEF UriInv
  <2>3. RestoresOwnUri'
    BY <2>1, <2>2 DEF RestoresOwnUri
  <2>4. \A u \in Tabs, d \in Calls :
           login'[u][d] = IF u = t /\ d = c THEN NoLogin ELSE login[u][d]
    BY <1>4 DEF TypeOK, FinishLogin
  <2>5. \A g \in StateFlows : restored'[g] = "never"
                              => restored[g] = "never" /\ g # f
    BY <2>1, <2>2
  <2>6. \A g \in StateFlows : stage'[g] # "unused" /\ restored'[g] = "never"
                              => g \in sharedUri'
    BY <1>4, <2>5 DEF UriInv, FinishLogin, RemoveOriginalUri, flows
  <2>7. \A u \in Tabs, d \in Calls :
           /\ login'[u][d].state \in StateFlows
           /\ restored'[login'[u][d].state] = "never"
           => login'[u][d].uri = login'[u][d].state
    BY <2>4, <2>5 DEF UriInv, NoLogin
  <2> QED
    BY <2>3, <2>6, <2>7 DEF UriInv
<1>5. ASSUME NEW t \in Tabs, Redirect(t)
      PROVE  UriInv' /\ RestoresOwnUri'
  <2> DEFINE f == Head(queue[t]).flow
  <2>1. stage[f] # "unused"
    <3>1. queue[t] \in Seq(Jobs) /\ queue[t] # <<>>
      BY <1>5 DEF TypeOK, Redirect, Running
    <3>2. 1 \in 1..Len(queue[t]) /\ Head(queue[t]) = queue[t][1]
      BY <3>1
    <3> QED
      BY <1>5, <3>2 DEF BegunInv, Redirect, Running
  <2>2. \A g \in Flows : stage'[g] # "unused" => stage[g] # "unused"
    BY <1>5, <2>1 DEF TypeOK, Redirect
  <2> QED
    BY <1>1, <1>5, <2>2 DEF Redirect, history
<1>6. ASSUME NEW t \in Tabs, SettleParse(t)
      PROVE  UriInv' /\ RestoresOwnUri'
  <2> DEFINE k == Head(queue[t]).call
             f == run[t].answer.flow
             l == IF run[t].pc = "resolved"
                  THEN [login[t][k] EXCEPT !.pc = "updating"] ELSE NoLogin
  <2>1. k \in Calls
    BY <1>6, HeadIsJob DEF SettleParse, Running
  <2>2. stage[f] # "unused"
    BY <1>6 DEF BegunInv, SettleParse
  <2>3. \A g \in Flows : stage'[g] # "unused" => stage[g] # "unused"
    BY <1>6, <2>2 DEF TypeOK, SettleParse
  <2>4. login' = [login EXCEPT ![t][k] = l]
    BY <1>6 DEF SettleParse
  <2>5. \A u \in Tabs, d \in Calls :
           login'[u][d] = IF u = t /\ d = k THEN l ELSE login[u][d]
    BY <2>1, <2>4 DEF TypeOK
  <2>6. l.state = None \/ (l.state = login[t][k].state /\ l.uri = login[t][k].uri)
    BY <2>1 DEF TypeOK, NoLogin
  <2>7. \A u \in Tabs, d \in Calls : Kept(u, d) \/ Dropped(u, d)
    BY <2>5, <2>6
  <2> QED
    BY <1>1, <1>6, <2>3, <2>7 DEF SettleParse, history
<1>7. ASSUME NEW t \in Tabs, ParseFails(t)
      PROVE  UriInv' /\ RestoresOwnUri'
  <2> DEFINE k == Head(queue[t]).call
  <2>1. login' = [login EXCEPT ![t][k] = NoLogin]
    BY <1>7 DEF ParseFails
  <2>2. \A u \in Tabs, d \in Calls : Kept(u, d) \/ Dropped(u, d)
    BY <2>1 DEF TypeOK, NoLogin
  <2> QED
    BY <1>1, <1>7, <2>2 DEF ParseFails, flows, history
<1>8. ASSUME NEW t \in Tabs, Leave(t)
      PROVE  UriInv' /\ RestoresOwnUri'
  <2>1. \A g \in Flows : stage'[g] # "unused" => stage[g] # "unused"
    BY <1>8 DEF TypeOK, Leave
  <2>2. \A u \in Tabs, d \in Calls : Kept(u, d) \/ Dropped(u, d)
    BY <1>8 DEF TypeOK, Leave, Unloaded, NoLogin
  <2> QED
    BY <1>1, <1>8, <2>1, <2>2 DEF Leave, stores, history
<1>9. ASSUME NEW t \in Tabs, Reload(t) \/ Close(t)
      PROVE  UriInv' /\ RestoresOwnUri'
  <2>1. \A u \in Tabs, d \in Calls : Kept(u, d) \/ Dropped(u, d)
    <3>1. Unloaded(t)
      BY <1>9 DEF Reload, Close
    <3> QED
      BY <3>1 DEF TypeOK, Unloaded, NoLogin
  <2> QED
    BY <1>1, <1>9, <2>1 DEF Reload, Close, stores, flows, history
<1>10. CASE Tick \/ UNCHANGED vars
  BY <1>1, <1>10 DEF Tick, vars, page, stores, flows, history
<1>11. ASSUME NEW t \in Tabs,
              \/ PrepareFails(t) \/ Parse(t) \/ RenewTokens(t) \/ RenewFails(t)
              \/ RenewEnds(t) \/ Back(t)
              \/ \E pc \in {"resolved", "rejected"} : ExchangeEnds(t, pc)
              \/ \E f \in Flows, kind \in Kinds : Answer(t, f, kind)
       PROVE  UNCHANGED <<sharedUri, restored, stage, login>>
  BY <1>11
  DEF PrepareFails, Parse, RenewTokens, RenewFails, RenewEnds, Back,
      ExchangeEnds, Answer, page, stores, flows, history
<1> QED
  BY <1>1, <1>2, <1>3, <1>4, <1>5, <1>6, <1>7, <1>8, <1>9, <1>10, <1>11
  DEF Next, TabNext

-------------------------------------------------------------------------------
(* Answers and exchanges.                                                      *)

\* An answer stays in one URL at most, and is used once.
LEMMA AnswerNext == TypeOK /\ AnswerInv /\ [Next]_vars => AnswerInv'
<1> SUFFICES ASSUME TypeOK, AnswerInv, [Next]_vars PROVE AnswerInv'
  OBVIOUS
<1> USE NoAnswerIsNone
<1>1. ASSUME \A t \in Tabs : answer'[t] \in {answer[t], NoAnswer},
             UNCHANGED <<answered, exchanged>>
      PROVE  AnswerInv'
  BY <1>1 DEF AnswerInv
<1>2. ASSUME NEW t \in Tabs, Parse(t)
      PROVE  AnswerInv'
  <2>1. answer' = [answer EXCEPT ![t] = NoAnswer] /\ UNCHANGED answered
    BY <1>2 DEF Parse, CleanUrl, flows
  <2>2. exchanged' \in {exchanged, exchanged \cup {answer[t]}}
        /\ answer[t] # NoAnswer
    BY <1>2 DEF Parse
  <2>3. \A u \in Tabs : answer'[u] = IF u = t THEN NoAnswer ELSE answer[u]
    BY <2>1 DEF TypeOK
  <2> QED
    BY <2>1, <2>2, <2>3 DEF AnswerInv
<1>3. ASSUME NEW t \in Tabs, NEW f \in Flows, NEW kind \in Kinds,
             Answer(t, f, kind)
      PROVE  AnswerInv'
  <2> DEFINE a == [flow |-> f, id |-> answered[f] + 1, kind |-> kind]
  <2>1. \A u \in Tabs : answer'[u] = IF u = t THEN a ELSE answer[u]
    BY <1>3 DEF TypeOK, Answer
  <2>2. /\ \A g \in Flows : answered[g] \in Nat
        /\ \A g \in Flows : answered'[g] = IF g = f THEN answered[f] + 1
                                           ELSE answered[g]
        /\ UNCHANGED exchanged
    BY <1>3 DEF TypeOK, Answer, history
  <2>3. \A b \in Answers : b.flow \in Flows /\ b.id \in Nat
    BY DEF Answers
  <2>4. a \notin exchanged
    BY <2>2 DEF AnswerInv
  <2>5. \A u \in Tabs : answer[u] # NoAnswer => answer[u] # a
    <3> SUFFICES ASSUME NEW u \in Tabs, answer[u] # NoAnswer, answer[u] = a
                 PROVE  FALSE
      OBVIOUS
    <3>1. answer[u].id <= answered[answer[u].flow]
      BY DEF AnswerInv
    <3>2. answer[u].id = answered[f] + 1 /\ answer[u].flow = f
      OBVIOUS
    <3> QED
      BY <2>2, <3>1, <3>2
  <2>6. \A b \in exchanged : b.id <= answered'[b.flow]
    <3> SUFFICES ASSUME NEW b \in exchanged PROVE b.id <= answered'[b.flow]
      OBVIOUS
    <3>1. b.flow \in Flows /\ b.id \in Nat
      BY <2>3 DEF TypeOK
    <3>2. b.id <= answered[b.flow]
      BY DEF AnswerInv
    <3>3. answered[b.flow] \in Nat /\ answered'[b.flow] >= answered[b.flow]
      BY <2>2, <3>1
    <3> QED
      BY <2>2, <3>1, <3>2, <3>3
  <2>7. \A u \in Tabs : answer'[u] # NoAnswer
                        => /\ answer'[u] \notin exchanged'
                           /\ answer'[u].id <= answered'[answer'[u].flow]
    <3> SUFFICES ASSUME NEW u \in Tabs, answer'[u] # NoAnswer
                 PROVE  /\ answer'[u] \notin exchanged'
                        /\ answer'[u].id <= answered'[answer'[u].flow]
      OBVIOUS
    <3>1. CASE u = t
      BY <2>1, <2>2, <2>4, <3>1
    <3>2. CASE u # t
      <4>1. answer'[u] = answer[u] /\ answer[u] \in Answers
        BY <2>1, <3>2 DEF TypeOK
      <4>2. answer[u].flow \in Flows /\ answer[u].id \in Nat
        BY <2>3, <4>1
      <4> QED
        BY <2>2, <4>1, <4>2 DEF AnswerInv
    <3> QED
      BY <3>1, <3>2
  <2>8. \A u, w \in Tabs : u # w /\ answer'[u] # NoAnswer
                           => answer'[u] # answer'[w]
    BY <2>1, <2>5 DEF AnswerInv
  <2> QED
    BY <2>2, <2>6, <2>7, <2>8 DEF AnswerInv
<1>4. CASE Tick \/ UNCHANGED vars
  BY <1>1, <1>4 DEF Tick, vars, flows, history
<1>5. ASSUME NEW t \in Tabs,
             \/ PrepareFails(t) \/ Redirect(t) \/ ParseFails(t)
             \/ SettleParse(t) \/ RenewTokens(t) \/ RenewFails(t)
             \/ RenewEnds(t) \/ Back(t) \/ Reload(t)
             \/ \E f \in Flows : SignInWithRedirect(t, f)
             \/ \E pc \in {"resolved", "rejected"} : ExchangeEnds(t, pc)
             \/ \E c \in Calls : HandleLoginRedirect(t, c) \/ FinishLogin(t, c)
      PROVE  UNCHANGED <<answer, answered, exchanged>>
  BY <1>5
  DEF flows, history, SignInWithRedirect, PrepareFails, Redirect,
      HandleLoginRedirect, FinishLogin, ParseFails, SettleParse, ExchangeEnds,
      RenewTokens, RenewFails, RenewEnds, Back, Reload
<1>6. ASSUME NEW t \in Tabs, Leave(t) \/ Close(t)
      PROVE  /\ UNCHANGED <<answered, exchanged>>
             /\ \A u \in Tabs : answer'[u] \in {answer[u], NoAnswer}
  <2>1. answer' = [answer EXCEPT ![t] = NoAnswer]
        /\ UNCHANGED <<answered, exchanged>>
    BY <1>6 DEF Leave, Close, flows, history
  <2> QED
    BY <2>1 DEF TypeOK
<1> QED
  BY <1>1, <1>2, <1>3, <1>4, <1>5, <1>6 DEF Next, TabNext

-------------------------------------------------------------------------------
(* The theorems.                                                               *)

\* The inductive invariant holds of every reachable state.
THEOREM Invariant == Spec => []Inv
<1>1. Inv /\ [Next]_vars => Inv'
  BY TypeNext, RunNext, EndedNext, BegunNext, UriNext, AnswerNext DEF Inv
<1> QED
  BY InitInv, <1>1, PTL DEF Spec

\* Every variable keeps its type.
THEOREM TypeCorrect == Spec => []TypeOK
<1>1. Inv => TypeOK
  BY DEF Inv
<1> QED
  BY Invariant, <1>1, PTL

\* A code is only exchanged with the verifier saved for its own flow.
THEOREM VerifierOwn == Spec => []VerifierIsOwn
<1>1. Inv => VerifierIsOwn
  BY DEF Inv, RunInv, VerifierIsOwn
<1> QED
  BY Invariant, <1>1, PTL

\* A flow that has ended has no entry in the shared storage.
THEOREM EndedIsGone == Spec => []EndedLeavesNothing
<1>1. Inv => EndedLeavesNothing
  BY DEF Inv
<1> QED
  BY Invariant, <1>1, PTL

\* A flow with a state of its own is brought back to its own original URI.
THEOREM OwnUri == Spec => []RestoresOwnUri
<1>1. Inv => RestoresOwnUri
  BY DEF Inv
<1> QED
  BY Invariant, <1>1, PTL

\* No step sends a code to /token that was sent before.
THEOREM CodesOnce == Spec => ExchangedOnce
<1> DEFINE Once == \A t \in Tabs : run[t].pc = "idle" /\ run'[t].pc = "exchanging"
                                   => run'[t].answer \notin exchanged
<1>1. Inv /\ [Next]_vars => [Once]_vars
  <2> SUFFICES ASSUME Inv, Next, NEW t \in Tabs,
                      run[t].pc = "idle", run'[t].pc = "exchanging"
               PROVE  run'[t].answer \notin exchanged
    BY DEF Inv
  <2>1. TypeOK /\ AnswerInv /\ run[t].pc # "exchanging"
    BY DEF Inv
  <2>2. ASSUME NEW u \in Tabs, run' = [run EXCEPT ![u] = Idle]
        PROVE  FALSE
    BY <2>1, <2>2 DEF TypeOK, Idle
  <2>3. CASE UNCHANGED run
    BY <2>3
  <2>4. ASSUME NEW u \in Tabs, Parse(u)
        PROVE  run'[t].answer \notin exchanged
    <3>1. t = u
      BY <2>1, <2>4 DEF TypeOK, Parse
    <3> QED
      BY <2>1, <2>4, <3>1 DEF TypeOK, AnswerInv, Parse
  <2>5. ASSUME NEW u \in Tabs, NEW pc \in {"resolved", "rejected"},
               ExchangeEnds(u, pc)
        PROVE  FALSE
    <3>1. t # u
      BY <2>5 DEF ExchangeEnds
    <3> QED
      BY <2>1, <2>5, <3>1 DEF TypeOK, ExchangeEnds
  <2>6. ASSUME NEW u \in Tabs,
               \/ PrepareFails(u) \/ Redirect(u) \/ ParseFails(u)
               \/ SettleParse(u) \/ RenewFails(u) \/ RenewEnds(u)
               \/ Leave(u) \/ Reload(u) \/ Close(u)
        PROVE  run' = [run EXCEPT ![u] = Idle]
    BY <2>6
    DEF PrepareFails, Redirect, ParseFails, SettleParse, RenewFails, RenewEnds,
        Leave, Reload, Close, Shift, Unloaded
  <2>7. ASSUME NEW u \in Tabs,
               \/ RenewTokens(u) \/ Back(u)
               \/ \E f \in Flows : SignInWithRedirect(u, f)
               \/ \E c \in Calls : HandleLoginRedirect(u, c) \/ FinishLogin(u, c)
               \/ \E f \in Flows, kind \in Kinds : Answer(u, f, kind)
        PROVE  UNCHANGED run
    BY <2>7
    DEF SignInWithRedirect, HandleLoginRedirect, FinishLogin, RenewTokens, Back,
        Answer, page
  <2>8. CASE Tick
    BY <2>3, <2>8 DEF Tick, page
  <2> QED
    BY <2>2, <2>3, <2>4, <2>5, <2>6, <2>7, <2>8 DEF Next, TabNext
<1> QED
  BY Invariant, <1>1, PTL DEF Spec, ExchangedOnce

\* No step takes another tab's live flow out of the shared storage.
THEOREM OthersAreKept == Spec => OwnFlowsOnly
<1> DEFINE Own == \A f \in shared \ shared' :
                     \/ age[f] > Lifetime
                     \/ \E t \in Tabs : run[t].answer.flow = f /\ run'[t] # run[t]
                     \/ \E t \in Tabs : session[t] = f /\ session'[t] = None
<1>1. Inv /\ [Next]_vars => [Own]_vars
  <2> SUFFICES ASSUME Inv, Next, NEW f \in shared \ shared'
               PROVE  \/ age[f] > Lifetime
                      \/ \E t \in Tabs :
                            run[t].answer.flow = f /\ run'[t] # run[t]
                      \/ \E t \in Tabs : session[t] = f /\ session'[t] = None
    BY DEF Inv
  <2> USE TransactionsAssumption
  <2>1. TypeOK /\ RunInv
    BY DEF Inv
  <2>2. ASSUME NEW t \in Tabs, Parse(t) \/ ParseFails(t)
        PROVE  age[f] > Lifetime
    <3>1. shared' = shared \/ shared' = shared \ Expired
      BY <2>2 DEF Parse, ParseFails
    <3> QED
      BY <3>1 DEF Expired
  <2>3. ASSUME NEW t \in Tabs, Clear(t, None)
        PROVE  session[t] = f /\ session'[t] = None
    BY <2>1, <2>3 DEF TypeOK, Clear
  <2>4. ASSUME NEW t \in Tabs, SettleParse(t)
        PROVE  run[t].answer.flow = f /\ run'[t] # run[t]
    <3>1. run[t].answer.flow # None
      BY <2>1, <2>4 DEF RunInv, SettleParse, Answers
    <3>2. shared' = shared \/ shared' = shared \ {run[t].answer.flow}
      BY <2>4, <3>1 DEF SettleParse, Clear
    <3>3. run'[t] # run[t]
      BY <2>1, <2>4 DEF TypeOK, SettleParse, Shift, Idle
    <3> QED
      BY <3>2, <3>3
  <2>5. ASSUME NEW t \in Tabs,
               \/ RenewEnds(t)
               \/ \E pc \in {"resolved", "rejected"} : ExchangeEnds(t, pc)
        PROVE  Clear(t, None)
    BY <2>5 DEF RenewEnds, ExchangeEnds
  <2>6. ASSUME NEW t \in Tabs, Redirect(t)
        PROVE  FALSE
    BY <2>6 DEF Redirect, Save
  <2>7. ASSUME NEW t \in Tabs,
               \/ PrepareFails(t) \/ RenewTokens(t) \/ RenewFails(t)
               \/ Leave(t) \/ Back(t) \/ Reload(t) \/ Close(t)
               \/ \E g \in Flows : SignInWithRedirect(t, g)
               \/ \E c \in Calls : HandleLoginRedirect(t, c) \/ FinishLogin(t, c)
               \/ \E g \in Flows, kind \in Kinds : Answer(t, g, kind)
        PROVE  UNCHANGED shared
    BY <2>7
    DEF stores, PrepareFails, RenewTokens, RenewFails, Leave, Back, Reload,
        Close, SignInWithRedirect, HandleLoginRedirect, FinishLogin, Answer
  <2>8. CASE Tick
    BY <2>8 DEF Tick, stores
  <2> QED
    BY <2>2, <2>3, <2>4, <2>5, <2>6, <2>7, <2>8 DEF Next, TabNext
<1> QED
  BY Invariant, <1>1, PTL DEF Spec, OwnFlowsOnly

-------------------------------------------------------------------------------
(* MCTabs runs Transactions or TokenSync: a step of it is a step of one and     *)
(* leaves the variables of the other alone.                                     *)

TS == INSTANCE TokenSyncProofs

\* Every behaviour of MCTabs is one of Transactions.
LEMMA IsTransactions == MCSpec => Spec
<1>1. MCInit => Init  BY DEF MCInit
<1>2. [MCNext]_all => [Next]_vars  BY DEF MCNext, all
<1>q. QED  BY <1>1, <1>2, PTL DEF MCSpec, Spec

\* A step of Sync is a step of TS, its other instance.
LEMMA SameSync == Sync!Next => TS!Next
BY DEF Sync!Next, TS!Next, Sync!InTab, TS!InTab, Sync!Expire, TS!Expire,
       Sync!Open, TS!Open, Sync!Login, TS!Login, Sync!RemoveToken, TS!RemoveToken,
       Sync!RenewalAnswered, TS!RenewalAnswered, Sync!RenewalFails, TS!RenewalFails,
       Sync!TimerFires, TS!TimerFires, Sync!BecomesLeader, TS!BecomesLeader,
       Sync!ReturnsToTab, TS!ReturnsToTab, Sync!Close, TS!Close,
       Sync!SignOut, TS!SignOut, Sync!SignOutRevoked, TS!SignOutRevoked,
       Sync!SignOutFails, TS!SignOutFails, Sync!SessionClosed, TS!SessionClosed,
       Sync!NoSession, TS!NoSession, Sync!GoesOn, TS!GoesOn,
       Sync!CloseSession, TS!CloseSession,
       Sync!RedirectToLogout, TS!RedirectToLogout,
       Sync!WriteAndGo, TS!WriteAndGo, Sync!Lasts, TS!Lasts,
       Sync!Receive, TS!Receive, Sync!Store, TS!Store, Sync!Posted, TS!Posted,
       Sync!Renew, TS!Renew, Sync!Gone, TS!Gone, Sync!Expired, TS!Expired,
       Sync!store, TS!store, Sync!leaving, TS!leaving,
       Sync!Cardinality, TS!Cardinality

\* Every behaviour of MCTabs is one of TokenSync.
LEMMA IsSync == MCSpec => TS!Spec
<1>1. MCInit => TS!Init
  BY DEF MCInit, Sync!Init, TS!Init
<1>2. [MCNext]_all => [TS!Next]_TS!vars
  BY SameSync DEF MCNext, all, syncVars, TS!vars, TS!store, TS!leaving
<1>q. QED  BY <1>1, <1>2, PTL DEF MCSpec, TS!Spec

\* What the proofs of TokenSync take for granted is assumed here.
LEMMA TabsAssumed == TS!SyncAssumption
BY TabsAssumption DEF Sync!SyncAssumption, TS!SyncAssumption

\* Every variable keeps its type.
THEOREM TypesCorrect == MCSpec => []Types
<1>1. Spec => []TypeOK  BY TypeCorrect
<1>2. TS!Spec => []TS!TypeOK  BY TabsAssumed, TS!TypeCorrect
<1>3. TS!TypeOK => Sync!TypeOK
  BY DEF Sync!TypeOK, TS!TypeOK, Sync!Versions, TS!Versions
<1>4. TypeOK /\ Sync!TypeOK => Types  BY DEF Types
<1>q. QED  BY <1>1, <1>2, <1>3, <1>4, IsTransactions, IsSync, PTL

\* Tabs that do not write at the same time come to agree: the last thing each hears
\* is what is stored, and each watches the stored token (SyncStorageService).
THEOREM Follow == MCSpec => []TabsFollow
<1>1. TS!Spec => []TS!TabsFollow  BY TabsAssumed, TS!Follow
<1>2. TS!TabsFollow => TabsFollow
  BY DEF TabsFollow, Sync!TabsFollow, TS!TabsFollow, Sync!Expired, TS!Expired
<1>q. QED  BY <1>1, <1>2, IsSync, PTL

\* After a signOut() that was to last, no tab has tokens again until a login, but
\* for those that go when it starts: one that had cleared the storage, or revoked
\* what it flagged, while no other tab was renewing (signOut of lib/oidc/mixin).
THEOREM StaysSignedOut == MCSpec => []SignedOutStaysOut
<1>1. TS!Spec => []TS!SignedOutStaysOut  BY TabsAssumed, TS!StaysSignedOut
<1>2. TS!SignedOutStaysOut => SignedOutStaysOut
  BY DEF SignedOutStaysOut, Sync!SignedOutStaysOut, TS!SignedOutStaysOut
<1>q. QED  BY <1>1, <1>2, IsSync, PTL

\* The leading tab does not let the stored token expire unattended, whichever tabs
\* lead one after the other (AutoRenewService).
THEOREM Attends == MCSpec => []LeaderAttends
<1>1. TS!Spec => []TS!LeaderAttends  BY TabsAssumed, TS!Attends
<1>2. TS!LeaderAttends => LeaderAttends
  BY DEF LeaderAttends, Sync!LeaderAttends, TS!LeaderAttends, Sync!Expired, TS!Expired
<1>q. QED  BY <1>1, <1>2, IsSync, PTL
===============================================================================
