-------------------------- MODULE TokenManagerProofs --------------------------
(* What TokenManager keeps, for every number of renewals, of versions, and     *)
(* every set of answers: the timers and the subscribers agree with the token   *)
(* storage, and the shared promise belongs to a renewal under way.             *)
EXTENDS TokenManager, TLAPS, SequenceTheorems

USE TokenManagerAssumption

\* No timeout is ever set for a refresh token, so that updateRefreshToken() may
\* replace it without touching the timers.
NoRefreshTimer == timers["refreshToken"].state = "none"

IInv == /\ TypeOK
        /\ NoRefreshTimer
        /\ TimersMatchStorage
        /\ SubscribersSeeStorage
        /\ JoinedRenewalIsLive

\* The part of IInv about the storage, its timers and its subscribers.
StorageInv == /\ stored \in [Keys -> Nat]
              /\ flagged \subseteq Keys
              /\ timers \in [Keys -> Timers]
              /\ view \in [Keys -> Nat]
              /\ renewPromise \in Renewals \cup {NoRenewal}
              /\ NoRefreshTimer
              /\ TimersMatchStorage
              /\ SubscribersSeeStorage

-------------------------------------------------------------------------------
(* The parts of the handlers keep the storage, its timers and its subscribers  *)
(* in step, whatever they are applied to.                                      *)

\* A fresh response is a vector of versions.
LEMMA FreshTyped ==
    ASSUME TypeOK, NEW T
    PROVE  Fresh(T) \in [Keys -> Nat]
  BY DEF TypeOK, Fresh

\* setTokens() leaves a timer for each new token and none for a dropped one.
LEMMA SetTokensKeeps ==
    ASSUME StorageInv, NEW tokens \in [Keys -> Nat], NEW flags \in SUBSET Keys,
           SetTokens(tokens, flags)
    PROVE  StorageInv' /\ renewPromise' \in {renewPromise, NoRenewal}
  <1>1. /\ stored' \in [Keys -> Nat] /\ flagged' \subseteq Keys
        /\ view' \in [Keys -> Nat]
        /\ renewPromise' \in {renewPromise, NoRenewal}
    BY DEF StorageInv, SetTokens
  <1>2. timers' \in [Keys -> Timers]
    BY DEF StorageInv, SetTokens, TimerFor, NoTimer, Timers
  <1>3. NoRefreshTimer'
    BY DEF StorageInv, SetTokens, NoRefreshTimer, TimerFor, NoTimer, Timed, Keys
  <1>4. TimersMatchStorage'
    BY DEF StorageInv, SetTokens, TimersMatchStorage, TimerFor, NoTimer
  <1>5. SubscribersSeeStorage'
    BY DEF StorageInv, SetTokens, SubscribersSeeStorage, Keys
  <1> QED
    BY <1>1, <1>2, <1>3, <1>4, <1>5 DEF StorageInv

\* remove() takes the token, its timer and the subscribers' copy away together.
LEMMA RemoveKeyKeeps ==
    ASSUME StorageInv, NEW k \in Keys, RemoveKey(k)
    PROVE  StorageInv' /\ renewPromise' = NoRenewal
  <1>1. /\ stored' \in [Keys -> Nat] /\ flagged' \subseteq Keys
        /\ view' \in [Keys -> Nat] /\ renewPromise' = NoRenewal
    BY DEF StorageInv, RemoveKey
  <1>2. timers' \in [Keys -> Timers] /\ NoRefreshTimer' /\ TimersMatchStorage'
    BY DEF StorageInv, RemoveKey, NoTimer, Timers, NoRefreshTimer,
           TimersMatchStorage, Keys
  <1>3. SubscribersSeeStorage'
    BY DEF StorageInv, RemoveKey, SubscribersSeeStorage, Keys
  <1> QED
    BY <1>1, <1>2, <1>3 DEF StorageInv

\* clearExpireEventTimeoutAll() leaves no timer.
LEMMA ClearAllKeeps ==
    ASSUME StorageInv, ClearTimeoutAll
    PROVE  /\ timers' \in [Keys -> Timers]
           /\ \A k \in Keys : timers'[k].state = "none"
           /\ renewPromise' \in {renewPromise, NoRenewal}
  BY DEF ClearTimeoutAll, NoTimer, Timers

\* renew() takes at most timers away; it stores nothing.
LEMMA RenewKeeps ==
    ASSUME StorageInv, NEW k \in Keys, NEW tm \in [Keys -> Timers],
           \A j \in Keys : /\ tm[j].version = timers[j].version
                           /\ tm[j].state = "none" <=> timers[j].state = "none",
           Renew(k, tm),
           UNCHANGED <<stored, flagged, view>>
    PROVE  StorageInv'
  <1>1. \/ timers' = tm
        \/ timers' = [tm EXCEPT ![k] = NoTimer]
    BY DEF Renew
  <1>2. timers' \in [Keys -> Timers]
    BY <1>1 DEF NoTimer, Timers
  <1>3. NoRefreshTimer' /\ TimersMatchStorage'
    BY <1>1 DEF StorageInv, NoTimer, NoRefreshTimer, TimersMatchStorage, Keys
  <1>4. renewPromise' \in Renewals \cup {NoRenewal}
    BY DEF StorageInv, Renew, mem
  <1> QED
    BY <1>2, <1>3, <1>4 DEF StorageInv, SubscribersSeeStorage

-------------------------------------------------------------------------------
(* Every step keeps StorageInv.                                                *)

\* Calls of the application, start() and stop().
LEMMA AppKeepsStorage ==
    ASSUME TypeOK, StorageInv, App
    PROVE  StorageInv'
  <1>1. ASSUME NEW T \in Answers, AppSetTokens(T) PROVE StorageInv'
    BY <1>1, SetTokensKeeps, FreshTyped DEF AppSetTokens
  <1>2. ASSUME NEW k \in Keys, Add(k) PROVE StorageInv'
    <2>1. issued + 1 \in Nat /\ issued + 1 # 0
      BY DEF TypeOK
    <2>2. /\ stored' \in [Keys -> Nat] /\ flagged' \subseteq Keys
          /\ view' \in [Keys -> Nat]
          /\ renewPromise' \in Renewals \cup {NoRenewal}
      BY <1>2, <2>1 DEF Add, StorageInv
    <2>3. timers' \in [Keys -> Timers]
      BY <1>2, <2>1 DEF Add, StorageInv, TimerFor, NoTimer, Timers
    <2>4. NoRefreshTimer' /\ TimersMatchStorage'
      BY <1>2, <2>1 DEF Add, StorageInv, TimerFor, NoTimer, NoRefreshTimer,
                        TimersMatchStorage, Timed, Keys
    <2>5. SubscribersSeeStorage'
      BY <1>2, <2>1 DEF Add, StorageInv, SubscribersSeeStorage, Keys
    <2> QED
      BY <2>2, <2>3, <2>4, <2>5 DEF StorageInv
  <1>3. ASSUME NEW k \in Keys, Remove(k) PROVE StorageInv'
    BY <1>3, RemoveKeyKeeps DEF Remove
  <1>4. ASSUME NEW k \in Keys, AppRenew(k) PROVE StorageInv'
    BY <1>4, RenewKeeps DEF AppRenew, StorageInv
  <1>5. CASE Clear
    <2>1. /\ timers' \in [Keys -> Timers]
          /\ \A k \in Keys : timers'[k].state = "none"
          /\ renewPromise' \in {renewPromise, NoRenewal}
      BY <1>5, ClearAllKeeps DEF Clear
    <2>2. stored' \in [Keys -> Nat] /\ flagged' \subseteq Keys
          /\ view' \in [Keys -> Nat]
      BY <1>5 DEF Clear, StorageInv, NoTokens
    <2>3. SubscribersSeeStorage'
      BY <1>5 DEF Clear, StorageInv, SubscribersSeeStorage, NoTokens, Keys
    <2> QED
      BY <2>1, <2>2, <2>3
      DEF StorageInv, NoRefreshTimer, TimersMatchStorage, Keys
  <1>6. CASE AddPendingRemoveFlags
    BY <1>6, SetTokensKeeps DEF AddPendingRemoveFlags, StorageInv
  <1>7. CASE Start
    <2>1. /\ stored' \in [Keys -> Nat] /\ flagged' \subseteq Keys
          /\ view' \in [Keys -> Nat]
          /\ renewPromise' \in Renewals \cup {NoRenewal}
      BY <1>7 DEF Start, StorageInv
    <2>2. timers' \in [Keys -> Timers]
      BY <1>7 DEF Start, StorageInv, TimerFor, NoTimer, Timers
    <2>3. NoRefreshTimer' /\ TimersMatchStorage'
      BY <1>7 DEF Start, StorageInv, TimerFor, NoTimer, NoRefreshTimer,
                  TimersMatchStorage, Timed, Keys
    <2>4. SubscribersSeeStorage'
      BY <1>7 DEF Start, StorageInv, SubscribersSeeStorage, Keys
    <2> QED
      BY <2>1, <2>2, <2>3, <2>4 DEF StorageInv
  <1>8. CASE Stop
    <2>1. /\ timers' \in [Keys -> Timers]
          /\ \A k \in Keys : timers'[k].state = "none"
          /\ renewPromise' \in {renewPromise, NoRenewal}
      BY <1>8, ClearAllKeeps DEF Stop
    <2> QED
      BY <1>8, <2>1 DEF Stop, StorageInv, NoRefreshTimer, TimersMatchStorage,
                        SubscribersSeeStorage, Keys
  <1> QED
    BY <1>1, <1>2, <1>3, <1>4, <1>5, <1>6, <1>7, <1>8 DEF App

\* A timeout elapses.
LEMMA TimerKeepsStorage ==
    ASSUME StorageInv, NEW k \in Keys, TimerFires(k)
    PROVE  StorageInv'
  <1> DEFINE fired == [timers EXCEPT ![k].state = "fired"]
  <1>1. /\ fired \in [Keys -> Timers]
        /\ \A j \in Keys : /\ fired[j].version = timers[j].version
                           /\ fired[j].state = "none" <=> timers[j].state = "none"
    BY DEF TimerFires, StorageInv, Timers
  <1>2. CASE Renew(k, fired) /\ UNCHANGED <<stored, flagged, view>>
    <2> HIDE DEF fired
    <2> QED
      BY <1>1, <1>2, RenewKeeps, Zenon
  <1>3. CASE RemoveKey(k)
    BY <1>3, RemoveKeyKeeps
  <1>4. CASE timers' = fired /\ UNCHANGED <<stored, flagged, mem, view>>
    BY <1>1, <1>4 DEF StorageInv, NoRefreshTimer, TimersMatchStorage,
                      SubscribersSeeStorage, mem, Keys
  <1>5. \/ Renew(k, fired) /\ UNCHANGED <<stored, flagged, view>>
        \/ RemoveKey(k)
        \/ timers' = fired /\ UNCHANGED <<stored, flagged, mem, view>>
    BY Zenon DEF TimerFires
  <1> QED
    BY <1>2, <1>3, <1>4, <1>5

\* The answer to a request: only a rotated refresh token is stored here, and it
\* has neither timer nor event.
LEMMA NetworkKeepsStorage ==
    ASSUME TypeOK, StorageInv, Network
    PROVE  StorageInv'
  <1>1. ASSUME NEW r \in Renewals, NEW T \in Answers, AnswerTokens(r, T)
        PROVE  StorageInv'
    <2>1. PICK v \in {presented, issued + 1} :
                 \/ stored' = stored
                 \/ stored' = [stored EXCEPT !["refreshToken"] = v]
      BY <1>1, Zenon DEF AnswerTokens
    <2>2. stored' \in [Keys -> Nat] /\ flagged' \subseteq Keys
      <3>1. v \in Nat
        BY <2>1 DEF TypeOK
      <3>2. flagged' \in {flagged, flagged \ {"refreshToken"}}
        BY <1>1, Zenon DEF AnswerTokens
      <3> QED
        BY <2>1, <3>1, <3>2 DEF StorageInv
    <2>3. UNCHANGED <<timers, renewPromise, view>>
      BY <1>1 DEF AnswerTokens
    <2>4. TimersMatchStorage' /\ SubscribersSeeStorage'
      BY <2>1, <2>3 DEF StorageInv, NoRefreshTimer, TimersMatchStorage,
                        SubscribersSeeStorage, Timed, Keys
    <2> QED
      BY <2>2, <2>3, <2>4 DEF StorageInv, NoRefreshTimer
  <1>2. ASSUME NEW r \in Renewals, AnswerFails(r) PROVE StorageInv'
    BY <1>2 DEF AnswerFails, StorageInv, NoRefreshTimer, TimersMatchStorage,
                SubscribersSeeStorage
  <1>3. ASSUME NEW r \in Renewals, AnswerInvalidGrant(r) PROVE StorageInv'
    BY <1>3, RemoveKeyKeeps DEF AnswerInvalidGrant, Keys
  <1> QED
    BY <1>1, <1>2, <1>3 DEF Network

\* The microtasks of a renewal, and a reload.
LEMMA MicrotaskKeepsStorage ==
    ASSUME TypeOK, StorageInv, Microtask \/ Reload
    PROVE  StorageInv'
  <1>1. ASSUME NEW r \in Renewals, ApplyTokens(r) PROVE StorageInv'
    <2>1. Head(jobs).tokens \in [Keys -> Nat]
      <3>1. jobs \in Seq(Jobs) /\ jobs # <<>>
        BY <1>1 DEF ApplyTokens, Runs, TypeOK
      <3>2. Head(jobs) \in Jobs
        BY <3>1
      <3> QED
        BY <3>2 DEF Jobs
    <2> QED
      BY <1>1, <2>1, SetTokensKeeps DEF ApplyTokens
  <1>2. ASSUME NEW r \in Renewals, RemoveToken(r) PROVE StorageInv'
    <2>1. asked[r].key \in Keys
      BY DEF TypeOK
    <2> QED
      BY <1>2, <2>1, RemoveKeyKeeps DEF RemoveToken
  <1>3. ASSUME NEW r \in Renewals, Passes(r) \/ Forget(r) \/ Release(r)
        PROVE  StorageInv'
    <2>1. /\ UNCHANGED <<stored, flagged, timers, view>>
          /\ renewPromise' \in {renewPromise, NoRenewal}
      BY <1>3 DEF Passes, Forget, Release, mem
    <2> QED
      BY <2>1 DEF StorageInv, NoRefreshTimer, TimersMatchStorage,
                  SubscribersSeeStorage
  <1>4. CASE Reload
    BY <1>4 DEF Reload, StorageInv, NoTimer, Timers, NoRefreshTimer,
                TimersMatchStorage, SubscribersSeeStorage, Keys
  <1> QED
    BY <1>1, <1>2, <1>3, <1>4 DEF Microtask

-------------------------------------------------------------------------------
(* Every step keeps the types of the other variables.                          *)

\* What the variables outside StorageInv hold.
EngineTypes == /\ started \in BOOLEAN
               /\ phase \in [Renewals ->
                                {"new", "queued", "inFlight", "settling", "done"}]
               /\ asked \in [Renewals -> [key : Keys, version : Nat]]
               /\ tokenQueue \in Seq(Renewals)
               /\ executing \in Renewals \cup {NoRenewal}
               /\ presented \in Nat
               /\ jobs \in Seq(Jobs)
               /\ issued \in Nat
               /\ spent \subseteq Nat
               /\ lost \subseteq Nat

\* TypeOK is the two halves together.
LEMMA Halves == /\ EngineTypes /\ StorageInv => TypeOK
                /\ IInv => EngineTypes /\ StorageInv
  BY DEF EngineTypes, StorageInv, TypeOK, IInv

\* Jobs are what Job() makes.
LEMMA JobTyped ==
    ASSUME NEW do \in JobKinds, NEW r \in Renewals
    PROVE  Job(do, r) \in Jobs
  BY DEF Job, Jobs, NoTokens

\* Running a job leaves a sequence of jobs.
LEMMA RunsTyped ==
    ASSUME EngineTypes, NEW do, NEW r \in Renewals, NEW more \in Seq(Jobs),
           Runs(do, r, more)
    PROVE  /\ jobs \in Seq(Jobs) /\ jobs # <<>>
           /\ Head(jobs) \in Jobs
           /\ jobs' \in Seq(Jobs)
  <1>1. jobs \in Seq(Jobs) /\ jobs # <<>>
    BY DEF EngineTypes, Runs
  <1>2. Head(jobs) \in Jobs /\ Tail(jobs) \in Seq(Jobs)
    BY <1>1
  <1>3. jobs' \in Seq(Jobs)
    BY <1>2, ConcatProperties DEF Runs
  <1> QED
    BY <1>1, <1>2, <1>3

\* renew() starts or queues a renewal that had not been used.
LEMMA RenewTyped ==
    ASSUME EngineTypes, StorageInv, NEW k \in Keys, NEW tm, Renew(k, tm),
           UNCHANGED <<jobs, server>>
    PROVE  EngineTypes'
  <1>1. CASE UNCHANGED mem
    BY <1>1 DEF EngineTypes, mem, server
  <1>2. CASE ~UNCHANGED mem
    <2>1. PICK r \in Renewals :
             /\ asked' = [asked EXCEPT ![r] = [key |-> k, version |-> stored[k]]]
             /\ PushRenewal(r)
      BY <1>2 DEF Renew
    <2>2. started' = started
      BY <1>2 DEF Renew
    <2>3. stored[k] \in Nat /\ stored["refreshToken"] \in Nat
      BY DEF StorageInv, Keys
    <2>4. asked' \in [Renewals -> [key : Keys, version : Nat]]
      BY <2>1, <2>3 DEF EngineTypes
    <2>5. phase' \in [Renewals ->
                         {"new", "queued", "inFlight", "settling", "done"}]
      BY <2>1 DEF EngineTypes, PushRenewal
    <2>6. tokenQueue' \in Seq(Renewals)
      <3>1. tokenQueue \in Seq(Renewals)
        BY DEF EngineTypes
      <3>2. tokenQueue' = tokenQueue \/ tokenQueue' = Append(tokenQueue, r)
        BY <2>1 DEF PushRenewal
      <3> QED
        BY <3>1, <3>2
    <2>7. executing' \in Renewals \cup {NoRenewal} /\ presented' \in Nat
      BY <2>1, <2>3 DEF EngineTypes, PushRenewal, Begins
    <2> QED
      BY <2>2, <2>4, <2>5, <2>6, <2>7 DEF EngineTypes, server
  <1> QED
    BY <1>1, <1>2

\* Every step keeps EngineTypes.
LEMMA NextKeepsEngineTypes ==
    ASSUME EngineTypes, StorageInv, Next
    PROVE  EngineTypes'
  <1>1. CASE App
    <2>1. ASSUME NEW k \in Keys, AppRenew(k) PROVE EngineTypes'
      BY <2>1, RenewTyped DEF AppRenew
    <2>2. ASSUME NEW T \in Answers, AppSetTokens(T) PROVE EngineTypes'
      BY <2>2 DEF AppSetTokens, EngineTypes
    <2>3. ASSUME NEW k \in Keys, Add(k) PROVE EngineTypes'
      BY <2>3 DEF Add, EngineTypes
    <2>4. ASSUME NEW k \in Keys, Remove(k) PROVE EngineTypes'
      BY <2>4 DEF Remove, EngineTypes, server
    <2>5. CASE Clear \/ AddPendingRemoveFlags \/ Start \/ Stop
      BY <2>5 DEF Clear, AddPendingRemoveFlags, Start, Stop, EngineTypes, server
    <2> QED
      BY <1>1, <2>1, <2>2, <2>3, <2>4, <2>5 DEF App
  <1>2. ASSUME NEW k \in Keys, TimerFires(k) PROVE EngineTypes'
    <2>1. UNCHANGED <<jobs, server>>
      BY <1>2 DEF TimerFires
    <2>2. \/ \E tm : Renew(k, tm)
          \/ UNCHANGED <<started, phase, asked, tokenQueue, executing, presented>>
      BY <1>2, Zenon DEF TimerFires, mem
    <2> QED
      BY <2>1, <2>2, RenewTyped DEF EngineTypes, server
  <1>3. ASSUME NEW r \in Renewals, NEW T \in Answers, AnswerTokens(r, T)
        PROVE  EngineTypes'
    <2>1. /\ issued' = issued + 1
          /\ UNCHANGED <<started, asked, tokenQueue, executing, presented, lost>>
          /\ phase' = [phase EXCEPT ![r] = "settling"]
          /\ spent' \in {spent, spent \cup {presented}}
      BY <1>3, Zenon DEF AnswerTokens, Answered
    <2>2. PICK rt \in {presented, issued + 1} :
            LET tokens == IF "refreshToken" \in T /\ presented # 0
                          THEN [Fresh(T) EXCEPT !["refreshToken"] = rt]
                          ELSE Fresh(T)
            IN jobs' = <<[Job("applyTokens", r) EXCEPT !.tokens = tokens],
                         Job("release", r)>>
      BY <1>3, Zenon DEF AnswerTokens
    <2> DEFINE tokens == IF "refreshToken" \in T /\ presented # 0
                         THEN [Fresh(T) EXCEPT !["refreshToken"] = rt]
                         ELSE Fresh(T)
    <2>3. Fresh(T) \in [Keys -> Nat] /\ rt \in Nat
      BY DEF Fresh, EngineTypes
    <2>4. tokens \in [Keys -> Nat]
      BY <2>3
    <2>5. [Job("applyTokens", r) EXCEPT !.tokens = tokens] \in Jobs
      BY <2>4, JobTyped DEF Jobs, JobKinds
    <2>6. Job("release", r) \in Jobs
      BY JobTyped DEF JobKinds
    <2>7. jobs' \in Seq(Jobs)
      BY <2>2, <2>5, <2>6
    <2> QED
      BY <2>1, <2>7 DEF EngineTypes
  <1>4. ASSUME NEW r \in Renewals, AnswerFails(r) \/ AnswerInvalidGrant(r)
        PROVE  EngineTypes'
    <2>1. /\ UNCHANGED <<started, asked, tokenQueue, executing, presented, issued>>
          /\ phase' = [phase EXCEPT ![r] = "settling"]
          /\ jobs' = <<Job("forwardError", r), Job("release", r)>>
      BY <1>4 DEF AnswerFails, AnswerInvalidGrant, Answered, server
    <2>2. spent' \subseteq Nat /\ lost' \subseteq Nat
      BY <1>4 DEF AnswerFails, AnswerInvalidGrant, server, EngineTypes
    <2>3. Job("forwardError", r) \in Jobs /\ Job("release", r) \in Jobs
      BY JobTyped DEF JobKinds
    <2>4. jobs' \in Seq(Jobs)
      BY <2>1, <2>3
    <2> QED
      BY <2>1, <2>2, <2>4 DEF EngineTypes
  <1>5. ASSUME NEW r \in Renewals,
               ApplyTokens(r) \/ Passes(r) \/ RemoveToken(r) \/ Forget(r)
        PROVE  EngineTypes'
    <2>1. \E do, more : more \in Seq(Jobs) /\ Runs(do, r, more)
      <3>1. \A do \in JobKinds : <<Job(do, r)>> \in Seq(Jobs)
        BY JobTyped
      <3>2. <<Job("forwardError", r), Job("release", r)>> \in Seq(Jobs)
        BY JobTyped DEF JobKinds
      <3>3. <<>> \in Seq(Jobs)
        OBVIOUS
      <3> QED
        BY <1>5, <3>1, <3>2, <3>3
        DEF ApplyTokens, Passes, RemoveToken, Forget, JobKinds
    <2>2. jobs' \in Seq(Jobs)
      BY <2>1, RunsTyped
    <2>3. /\ UNCHANGED <<started, tokenQueue, executing, presented, server>>
          /\ phase' \in {phase, [phase EXCEPT ![r] = "done"]}
          /\ asked' \in {asked, [asked EXCEPT ![r] = NotAsked]}
      BY <1>5 DEF ApplyTokens, Passes, RemoveToken, Forget, mem
    <2>4. NotAsked \in [key : Keys, version : Nat]
      BY DEF NotAsked, Keys, Timed
    <2>5. phase' \in [Renewals ->
                         {"new", "queued", "inFlight", "settling", "done"}]
      BY <2>3 DEF EngineTypes
    <2>6. asked' \in [Renewals -> [key : Keys, version : Nat]]
      BY <2>3, <2>4 DEF EngineTypes
    <2> QED
      BY <2>2, <2>3, <2>5, <2>6 DEF EngineTypes, server
  <1>6. ASSUME NEW r \in Renewals, Release(r) PROVE EngineTypes'
    <2>1. UNCHANGED <<started, asked, server>>
      BY <1>6 DEF Release
    <2>2. CASE tokenQueue = <<>>
      <3>1. Runs("release", r, <<>>)
        BY <1>6, <2>2 DEF Release
      <3>2. jobs' \in Seq(Jobs)
        <4>1. <<>> \in Seq(Jobs)
          OBVIOUS
        <4> QED
          BY <3>1, <4>1, RunsTyped
      <3> QED
        BY <1>6, <2>1, <2>2, <3>2 DEF Release, EngineTypes, server
    <2>3. CASE tokenQueue # <<>>
      <3> DEFINE next == Head(tokenQueue)
      <3>1. next \in Renewals /\ Tail(tokenQueue) \in Seq(Renewals)
        BY <2>3 DEF EngineTypes
      <3>2. /\ Begins(next)
            /\ tokenQueue' = Tail(tokenQueue)
            /\ phase' \in {[phase EXCEPT ![next] = "settling"],
                           [phase EXCEPT ![next] = "inFlight"]}
            /\ \/ Runs("release", r, <<Job("reject", next)>>)
               \/ Runs("release", r, <<>>)
        BY <1>6, <2>3 DEF Release
      <3>3. <<Job("reject", next)>> \in Seq(Jobs) /\ <<>> \in Seq(Jobs)
        BY <3>1, JobTyped DEF JobKinds
      <3>4. jobs' \in Seq(Jobs)
        BY <3>2, <3>3, RunsTyped
      <3>5. executing' \in Renewals /\ presented' \in Nat
        BY <3>1, <3>2 DEF Begins, StorageInv, Keys
      <3> QED
        BY <2>1, <3>1, <3>2, <3>4, <3>5 DEF EngineTypes, server
    <2> QED
      BY <2>2, <2>3
  <1>7. CASE Reload
    <2>1. spent' \subseteq Nat /\ lost' \subseteq Nat
      BY <1>7 DEF Reload, EngineTypes
    <2>2. NotAsked \in [key : Keys, version : Nat]
      BY DEF NotAsked, Keys, Timed
    <2>3. asked' \in [Renewals -> [key : Keys, version : Nat]]
      BY <1>7, <2>2 DEF Reload
    <2>4. phase' \in [Renewals ->
                         {"new", "queued", "inFlight", "settling", "done"}]
      BY <1>7 DEF Reload, EngineTypes
    <2>5. tokenQueue' \in Seq(Renewals)
      BY <1>7 DEF Reload
    <2> QED
      BY <1>7, <2>1, <2>3, <2>4, <2>5 DEF Reload, EngineTypes
  <1> QED
    BY <1>1, <1>2, <1>3, <1>4, <1>5, <1>6, <1>7 DEF Next, Network, Microtask

-------------------------------------------------------------------------------
(* The shared promise, and the theorems.                                       *)

\* Live changes only by a renewal that starts, and by renewals that end in a
\* step that also drops the promise.
LEMMA NextKeepsJoined ==
    ASSUME TypeOK, JoinedRenewalIsLive, Next
    PROVE  JoinedRenewalIsLive'
  <1>1. ASSUME renewPromise' = NoRenewal PROVE JoinedRenewalIsLive'
    BY <1>1 DEF JoinedRenewalIsLive
  <1>2. ASSUME renewPromise' = renewPromise, Live \subseteq Live'
        PROVE  JoinedRenewalIsLive'
    BY <1>2 DEF JoinedRenewalIsLive
  <1>3. ASSUME renewPromise' \in {renewPromise, NoRenewal}, phase' = phase
        PROVE  JoinedRenewalIsLive'
    BY <1>1, <1>2, <1>3 DEF Live
  <1>4. ASSUME NEW k \in Keys, NEW tm, Renew(k, tm)
        PROVE  JoinedRenewalIsLive'
    <2>1. CASE UNCHANGED mem
      BY <1>3, <2>1 DEF mem
    <2>2. CASE ~UNCHANGED mem
      <3>1. PICK r \in Renewals : renewPromise' = r /\ PushRenewal(r)
        BY <1>4, <2>2 DEF Renew
      <3>2. phase'[r] \in {"inFlight", "queued"}
        BY <3>1 DEF PushRenewal, TypeOK
      <3>3. r \in Live'
        BY <3>2 DEF Live
      <3> QED
        BY <3>1, <3>3 DEF JoinedRenewalIsLive
    <2> QED
      BY <2>1, <2>2
  <1>5. ASSUME NEW r \in Renewals, Answered(r) PROVE Live \subseteq Live'
    BY <1>5 DEF Answered, TypeOK, Live
  <1>6. CASE App
    <2>1. ASSUME NEW k \in Keys, AppRenew(k) PROVE JoinedRenewalIsLive'
      BY <1>4, <2>1 DEF AppRenew
    <2>2. ASSUME NEW T \in Answers, AppSetTokens(T) PROVE JoinedRenewalIsLive'
      BY <1>3, <2>2 DEF AppSetTokens, SetTokens
    <2>3. ASSUME NEW k \in Keys, Add(k) \/ Remove(k) PROVE JoinedRenewalIsLive'
      BY <1>3, <2>3 DEF Add, Remove, RemoveKey
    <2>4. CASE Clear \/ AddPendingRemoveFlags \/ Start \/ Stop
      BY <1>3, <2>4 DEF Clear, AddPendingRemoveFlags, Start, Stop, SetTokens,
                        ClearTimeoutAll
    <2> QED
      BY <1>6, <2>1, <2>2, <2>3, <2>4 DEF App
  <1>7. ASSUME NEW k \in Keys, TimerFires(k) PROVE JoinedRenewalIsLive'
    <2>1. \/ \E tm : Renew(k, tm)
          \/ RemoveKey(k)
          \/ UNCHANGED mem
      BY <1>7, Zenon DEF TimerFires
    <2> QED
      BY <1>1, <1>3, <1>4, <2>1 DEF RemoveKey, mem
  <1>8. CASE Network
    <2>1. PICK r \in Renewals :
             /\ Answered(r)
             /\ renewPromise' \in {renewPromise, NoRenewal}
      BY <1>8 DEF Network, AnswerTokens, AnswerFails, AnswerInvalidGrant,
                  RemoveKey
    <2> QED
      BY <1>1, <1>2, <1>5, <2>1
  <1>9. CASE Microtask
    <2>1. ASSUME NEW r \in Renewals, Release(r) PROVE JoinedRenewalIsLive'
      <3>1. CASE tokenQueue = <<>>
        BY <1>3, <2>1, <3>1 DEF Release
      <3>2. CASE tokenQueue # <<>>
        <4>1. \E p \in {"settling", "inFlight"} :
                 phase' = [phase EXCEPT ![Head(tokenQueue)] = p]
          BY <2>1, <3>2 DEF Release
        <4>2. Live \subseteq Live'
          <5>1. \A q \in Renewals : q \in Live => phase'[q] \in {phase[q], "settling", "inFlight"}
            BY <4>1 DEF TypeOK
          <5> QED
            BY <5>1 DEF Live
        <4> QED
          BY <1>2, <2>1, <4>2 DEF Release
      <3> QED
        BY <3>1, <3>2
    <2>2. ASSUME NEW r \in Renewals, Forget(r) PROVE JoinedRenewalIsLive'
      BY <1>1, <2>2 DEF Forget
    <2>3. ASSUME NEW r \in Renewals,
                 ApplyTokens(r) \/ Passes(r) \/ RemoveToken(r)
          PROVE  JoinedRenewalIsLive'
      BY <1>3, <2>3 DEF ApplyTokens, Passes, RemoveToken, SetTokens, RemoveKey,
                        mem
    <2> QED
      BY <1>9, <2>1, <2>2, <2>3 DEF Microtask
  <1>10. CASE Reload
    BY <1>1, <1>10 DEF Reload
  <1> QED
    BY <1>6, <1>7, <1>8, <1>9, <1>10 DEF Next

\* Nothing is stored and nothing runs at first.
LEMMA InitIInv == Init => IInv
  <1> SUFFICES ASSUME Init PROVE IInv
    OBVIOUS
  <1>1. StorageInv
    BY DEF Init, StorageInv, NoTokens, NoTimer, Timers, NoRefreshTimer,
           TimersMatchStorage, SubscribersSeeStorage, Keys
  <1>2. EngineTypes
    <2>1. NotAsked \in [key : Keys, version : Nat]
      BY DEF NotAsked, Keys, Timed
    <2>2. tokenQueue \in Seq(Renewals) /\ jobs \in Seq(Jobs)
      BY DEF Init
    <2> QED
      BY <2>1, <2>2 DEF Init, EngineTypes
  <1>3. JoinedRenewalIsLive
    BY DEF Init, JoinedRenewalIsLive
  <1> QED
    BY <1>1, <1>2, <1>3, Halves DEF IInv, StorageInv

\* IInv is inductive.
LEMMA NextKeepsIInv == IInv /\ [Next]_vars => IInv'
  <1> SUFFICES ASSUME IInv, [Next]_vars PROVE IInv'
    OBVIOUS
  <1>1. CASE UNCHANGED vars
    BY <1>1 DEF vars, mem, server, IInv, TypeOK, NoRefreshTimer,
                TimersMatchStorage, SubscribersSeeStorage, JoinedRenewalIsLive,
                Live
  <1>2. CASE Next
    <2>1. EngineTypes /\ StorageInv /\ TypeOK /\ JoinedRenewalIsLive
      BY Halves DEF IInv
    <2>2. StorageInv'
      BY <1>2, <2>1, AppKeepsStorage, TimerKeepsStorage, NetworkKeepsStorage,
         MicrotaskKeepsStorage DEF Next
    <2>3. EngineTypes'
      BY <1>2, <2>1, NextKeepsEngineTypes
    <2>4. JoinedRenewalIsLive'
      BY <1>2, <2>1, NextKeepsJoined
    <2>5. TypeOK'
      BY <2>2, <2>3 DEF EngineTypes, StorageInv, TypeOK
    <2> QED
      BY <2>2, <2>4, <2>5 DEF IInv, StorageInv
  <1> QED
    BY <1>1, <1>2

\* Every reachable state satisfies IInv.
THEOREM Invariant == Spec => []IInv
  BY InitIInv, NextKeepsIInv, PTL DEF Spec

\* The variables keep their types.
THEOREM TypeCorrect == Spec => []TypeOK
  <1>1. IInv => TypeOK
    BY DEF IInv
  <1> QED
    BY <1>1, Invariant, PTL

\* setExpireEventTimeout() and its callers: a timeout, pending or elapsed, is
\* always that of the token stored under its key.
THEOREM TimersMatch == Spec => []TimersMatchStorage
  <1>1. IInv => TimersMatchStorage
    BY DEF IInv
  <1> QED
    BY <1>1, Invariant, PTL

\* The added and removed events are complete for ID and access tokens.
THEOREM EventsComplete == Spec => []SubscribersSeeStorage
  <1>1. IInv => SubscribersSeeStorage
    BY DEF IInv
  <1> QED
    BY <1>1, Invariant, PTL

\* renew() never hands out the promise of a renewal that is over.
THEOREM JoinedLive == Spec => []JoinedRenewalIsLive
  <1>1. IInv => JoinedRenewalIsLive
    BY DEF IInv
  <1> QED
    BY <1>1, Invariant, PTL

-------------------------------------------------------------------------------
(* The callbacks of the renewals, and the refresh tokens they carry.           *)

\* The callbacks of a renewal itself, as against the queue's release.
Own == JobKinds \ {"release"}

\* The queue holds renewals that wait, each once.
QueueInOrder ==
    /\ \A i \in 1..Len(tokenQueue) : phase[tokenQueue[i]] = "queued"
    /\ \A i, j \in 1..Len(tokenQueue) : i # j => tokenQueue[i] # tokenQueue[j]

\* A renewal that settles has one callback at a time.
JobsInOrder ==
    /\ \A i \in 1..Len(jobs) : jobs[i].do \in Own => phase[jobs[i].of] = "settling"
    /\ \A i, j \in 1..Len(jobs) :
          i # j /\ jobs[i].do \in Own /\ jobs[j].do \in Own => jobs[i].of # jobs[j].of

\* The token of key k, if there is one, is not left to a renewal.
Watched(k) == k \in Timed /\ stored[k] # 0 => timers[k].state # "none"

\* A renewal with nothing left to do but to be forgotten leaves no token of its
\* key unwatched.
NothingLeftUnwatched ==
    \A i \in 1..Len(jobs) :
       jobs[i].do \in {"forward", "forget"} => Watched(asked[jobs[i].of].key)

\* What is stored, presented or about to be stored was issued, and only that was
\* replaced.
Issued == /\ \A k \in Keys : stored[k] <= issued
          /\ presented <= issued
          /\ \A i \in 1..Len(jobs) : \A k \in Keys : jobs[i].tokens[k] <= issued
          /\ spent \subseteq 1..issued

\* The server has not replaced this refresh token, or its answer was lost.
Usable(v) == v \in spent => v \in lost

\* What is stored, or will be, can be presented.
StoredIsUsable ==
    /\ Usable(stored["refreshToken"])
    /\ \A i \in 1..Len(jobs) : Usable(jobs[i].tokens["refreshToken"])

EngineInv == /\ QueueInOrder /\ JobsInOrder /\ NothingLeftUnwatched
             /\ EveryTokenWatched

RotationInv == Issued /\ StoredIsUsable /\ NoRefreshTokenReplay

\* After a microtask a job is one of those that waited behind it, or is new.
LEMMA RunsShape ==
    ASSUME TypeOK, NEW do, NEW r, NEW more \in Seq(Jobs), Runs(do, r, more)
    PROVE  /\ Len(jobs) \in Nat /\ 1 \in 1..Len(jobs)
           /\ jobs[1] = Head(jobs) /\ jobs[1].do = do /\ jobs[1].of = r
           /\ \A i \in 1..Len(jobs') :
                 \/ /\ i + 1 \in 1..Len(jobs) /\ i + 1 # 1
                    /\ jobs'[i] = jobs[i + 1]
                 \/ \E j \in 1..Len(more) : /\ i = Len(jobs) - 1 + j
                                            /\ jobs'[i] = more[j]
  <1>1. jobs \in Seq(Jobs) /\ jobs # <<>> /\ jobs' = Tail(jobs) \o more
    BY DEF TypeOK, Runs
  <1>2. /\ Len(jobs) \in Nat /\ 1 \in 1..Len(jobs) /\ jobs[1] = Head(jobs)
        /\ Len(more) \in Nat
    BY <1>1
  <1>3. /\ Tail(jobs) \in Seq(Jobs) /\ Len(Tail(jobs)) = Len(jobs) - 1
        /\ \A i \in 1..(Len(jobs) - 1) : Tail(jobs)[i] = jobs[i + 1]
    BY <1>1
  <1>4. /\ Len(jobs') = Len(jobs) - 1 + Len(more)
        /\ \A i \in 1..(Len(jobs) - 1) : jobs'[i] = Tail(jobs)[i]
        /\ \A i \in 1..Len(jobs') :
              i > Len(jobs) - 1 => jobs'[i] = more[i - (Len(jobs) - 1)]
    BY <1>1, <1>2, <1>3, ConcatProperties
  <1>5. ASSUME NEW i \in 1..Len(jobs'), i <= Len(jobs) - 1
        PROVE  /\ i + 1 \in 1..Len(jobs) /\ i + 1 # 1
               /\ jobs'[i] = jobs[i + 1]
    BY <1>2, <1>3, <1>4, <1>5
  <1>6. ASSUME NEW i \in 1..Len(jobs'), i > Len(jobs) - 1
        PROVE  \E j \in 1..Len(more) : i = Len(jobs) - 1 + j /\ jobs'[i] = more[j]
    <2>1. i - (Len(jobs) - 1) \in 1..Len(more)
      BY <1>2, <1>4, <1>6
    <2> QED
      BY <1>2, <1>4, <1>6, <2>1
  <1>7. jobs[1].do = do /\ jobs[1].of = r
    BY <1>2 DEF Runs
  <1>8. \A i \in 1..Len(jobs') : i <= Len(jobs) - 1 \/ i > Len(jobs) - 1
    BY <1>2
  <1>9. \A i \in 1..Len(jobs') :
           \/ /\ i + 1 \in 1..Len(jobs) /\ i + 1 # 1
              /\ jobs'[i] = jobs[i + 1]
           \/ \E j \in 1..Len(more) : /\ i = Len(jobs) - 1 + j
                                      /\ jobs'[i] = more[j]
    BY <1>5, <1>6, <1>8
  <1> QED
    BY <1>2, <1>7, <1>9

\* When nothing is left behind they all waited behind it.
LEMMA RunsNoMore ==
    ASSUME TypeOK, NEW do, NEW r, Runs(do, r, <<>>)
    PROVE  /\ Len(jobs) \in Nat /\ 1 \in 1..Len(jobs)
           /\ jobs[1].do = do /\ jobs[1].of = r
           /\ \A i \in 1..Len(jobs') : /\ i + 1 \in 1..Len(jobs) /\ i + 1 # 1
                                       /\ jobs'[i] = jobs[i + 1]
  <1> DEFINE more == <<>>
  <1>1. Runs(do, r, more) /\ more \in Seq(Jobs) /\ 1..Len(more) = {}
    OBVIOUS
  <1> HIDE DEF more
  <1>2. \A i \in 1..Len(jobs') :
           \/ /\ i + 1 \in 1..Len(jobs) /\ i + 1 # 1
              /\ jobs'[i] = jobs[i + 1]
           \/ \E j \in 1..Len(more) : i = Len(jobs) - 1 + j /\ jobs'[i] = more[j]
    BY <1>1, RunsShape
  <1>3. /\ Len(jobs) \in Nat /\ 1 \in 1..Len(jobs)
        /\ jobs[1].do = do /\ jobs[1].of = r
    BY <1>1, RunsShape
  <1> QED
    BY <1>1, <1>2, <1>3

\* Every job is of a renewal.
LEMMA JobsOfRenewals ==
    ASSUME TypeOK
    PROVE  \A i \in 1..Len(jobs) : jobs[i] \in Jobs /\ jobs[i].of \in Renewals
  <1>1. jobs \in Seq(Jobs)
    BY DEF TypeOK
  <1>2. \A i \in 1..Len(jobs) : jobs[i] \in Jobs
    BY <1>1
  <1> QED
    BY <1>2 DEF Jobs

\* The jobs stay in order when a microtask leaves behind one callback at most, of
\* a renewal that has no other.
LEMMA RunsInOrder ==
    ASSUME TypeOK, JobsInOrder, NEW do, NEW r, NEW more \in Seq(Jobs),
           Runs(do, r, more), NEW o,
           \A i \in 1..Len(jobs) : i # 1 /\ jobs[i].do \in Own =>
               phase'[jobs[i].of] = "settling" /\ jobs[i].of # o,
           \A j \in 1..Len(more) : more[j].do \in Own =>
               more[j].of = o /\ phase'[o] = "settling",
           \A i, j \in 1..Len(more) :
               more[i].do \in Own /\ more[j].do \in Own => i = j
    PROVE  JobsInOrder'
  <1>1. /\ Len(jobs) \in Nat
        /\ \A i \in 1..Len(jobs') :
              \/ /\ i + 1 \in 1..Len(jobs) /\ i + 1 # 1
                 /\ jobs'[i] = jobs[i + 1]
              \/ \E j \in 1..Len(more) : i = Len(jobs) - 1 + j /\ jobs'[i] = more[j]
    BY RunsShape
  <1>2. \A i \in 1..Len(jobs') : jobs'[i].do \in Own => phase'[jobs'[i].of] = "settling"
    BY <1>1
  <1>3. ASSUME NEW i \in 1..Len(jobs'), NEW j \in 1..Len(jobs'), i # j,
               jobs'[i].do \in Own, jobs'[j].do \in Own,
               jobs'[i].of = jobs'[j].of
        PROVE  FALSE
    <2>1. CASE /\ i + 1 \in 1..Len(jobs) /\ i + 1 # 1 /\ jobs'[i] = jobs[i + 1]
               /\ j + 1 \in 1..Len(jobs) /\ j + 1 # 1 /\ jobs'[j] = jobs[j + 1]
      <3>1. i + 1 # j + 1
        BY <1>3
      <3> QED
        BY <1>3, <2>1, <3>1 DEF JobsInOrder
    <2>2. CASE /\ i + 1 \in 1..Len(jobs) /\ i + 1 # 1 /\ jobs'[i] = jobs[i + 1]
               /\ \E a \in 1..Len(more) : jobs'[j] = more[a]
      BY <1>3, <2>2
    <2>3. CASE /\ j + 1 \in 1..Len(jobs) /\ j + 1 # 1 /\ jobs'[j] = jobs[j + 1]
               /\ \E a \in 1..Len(more) : jobs'[i] = more[a]
      BY <1>3, <2>3
    <2>4. CASE /\ \E a \in 1..Len(more) : i = Len(jobs) - 1 + a /\ jobs'[i] = more[a]
               /\ \E a \in 1..Len(more) : j = Len(jobs) - 1 + a /\ jobs'[j] = more[a]
      BY <1>3, <2>4
    <2> QED
      BY <1>1, <2>1, <2>2, <2>3, <2>4
  <1> QED
    BY <1>2, <1>3 DEF JobsInOrder

\* A microtask of a renewal itself: its one callback is followed by one more.
LEMMA OwnRunsInOrder ==
    ASSUME TypeOK, JobsInOrder, NEW do \in Own, NEW r, NEW more \in Seq(Jobs),
           Runs(do, r, more), phase' = phase,
           \A j \in 1..Len(more) : more[j].do \in Own => more[j].of = r,
           \A i, j \in 1..Len(more) :
               more[i].do \in Own /\ more[j].do \in Own => i = j
    PROVE  JobsInOrder'
  <1>1. 1 \in 1..Len(jobs) /\ jobs[1].do = do /\ jobs[1].of = r
    BY RunsShape
  <1>2. \A i \in 1..Len(jobs) : i # 1 /\ jobs[i].do \in Own =>
            phase'[jobs[i].of] = "settling" /\ jobs[i].of # r
    BY <1>1 DEF JobsInOrder
  <1>3. phase'[r] = "settling"
    BY <1>1 DEF JobsInOrder
  <1> QED
    BY <1>2, <1>3, RunsInOrder

\* A renewal starts on the queue, behind those that wait.
LEMMA PushKeepsQueue ==
    ASSUME TypeOK, QueueInOrder, NEW r \in Renewals, phase[r] = "new",
           PushRenewal(r)
    PROVE  QueueInOrder' /\ r \in Live'
  <1>1. /\ tokenQueue \in Seq(Renewals)
        /\ \A i \in 1..Len(tokenQueue) : tokenQueue[i] # r /\ tokenQueue[i] \in Renewals
    <2>1. tokenQueue \in Seq(Renewals)
      BY DEF TypeOK
    <2>2. \A i \in 1..Len(tokenQueue) : tokenQueue[i] \in Renewals
      BY <2>1
    <2>3. \A i \in 1..Len(tokenQueue) : phase[tokenQueue[i]] = "queued"
      BY DEF QueueInOrder
    <2> QED
      BY <2>1, <2>2, <2>3
  <1>2. CASE executing = NoRenewal
    BY SMTT(30), <1>1, <1>2 DEF PushRenewal, QueueInOrder, TypeOK, Live
  <1>3. CASE executing # NoRenewal
    <2>1. /\ tokenQueue' = Append(tokenQueue, r)
          /\ phase' = [phase EXCEPT ![r] = "queued"]
      BY <1>3 DEF PushRenewal
    <2>2. /\ Len(tokenQueue') = Len(tokenQueue) + 1 /\ Len(tokenQueue) \in Nat
          /\ tokenQueue'[Len(tokenQueue) + 1] = r
          /\ \A i \in 1..Len(tokenQueue) : tokenQueue'[i] = tokenQueue[i]
      BY <1>1, <2>1
    <2>3. phase'[r] = "queued"
          /\ \A i \in 1..Len(tokenQueue) : phase'[tokenQueue[i]] = "queued"
      BY <1>1, <2>1 DEF TypeOK, QueueInOrder
    <2>4. \A i \in 1..Len(tokenQueue') : phase'[tokenQueue'[i]] = "queued"
      BY <2>2, <2>3
    <2>5. \A i, j \in 1..Len(tokenQueue') : i # j => tokenQueue'[i] # tokenQueue'[j]
      BY <1>1, <2>2 DEF QueueInOrder
    <2> QED
      BY <2>3, <2>4, <2>5 DEF QueueInOrder, Live
  <1> QED
    BY <1>2, <1>3

\* When the queue is released, the renewal at its head leaves it.
LEMMA ReleaseKeepsQueue ==
    ASSUME TypeOK, QueueInOrder, NEW r \in Renewals, Release(r)
    PROVE  QueueInOrder'
  <1>1. CASE tokenQueue = <<>>
    BY <1>1 DEF Release, QueueInOrder
  <1>2. CASE tokenQueue # <<>>
    <2>1. /\ tokenQueue' = Tail(tokenQueue)
          /\ \E p \in {"settling", "inFlight"} :
                phase' = [phase EXCEPT ![Head(tokenQueue)] = p]
      BY <1>2 DEF Release
    <2>2. /\ Len(tokenQueue) \in Nat /\ 1 \in 1..Len(tokenQueue)
          /\ Head(tokenQueue) = tokenQueue[1]
          /\ \A i \in 1..Len(tokenQueue) : tokenQueue[i] \in Renewals
      BY SMTT(30), <1>2 DEF TypeOK
    <2>3. /\ Len(tokenQueue') = Len(tokenQueue) - 1
          /\ \A i \in 1..Len(tokenQueue') : /\ i + 1 \in 1..Len(tokenQueue)
                                            /\ i + 1 # 1
                                            /\ tokenQueue'[i] = tokenQueue[i + 1]
      BY <1>2, <2>1 DEF TypeOK
    <2>4. \A i \in 1..Len(tokenQueue) : i # 1 => phase'[tokenQueue[i]] = "queued"
      <3> SUFFICES ASSUME NEW i \in 1..Len(tokenQueue), i # 1
                   PROVE  phase'[tokenQueue[i]] = "queued"
        OBVIOUS
      <3>1. /\ tokenQueue[i] # Head(tokenQueue) /\ tokenQueue[i] \in Renewals
            /\ phase[tokenQueue[i]] = "queued"
        BY <2>2 DEF QueueInOrder
      <3> QED
        BY <2>1, <3>1 DEF TypeOK
    <2>5. \A i \in 1..Len(tokenQueue') : phase'[tokenQueue'[i]] = "queued"
      BY <2>3, <2>4
    <2>6. \A i, j \in 1..Len(tokenQueue') : i # j => tokenQueue'[i] # tokenQueue'[j]
      <3> SUFFICES ASSUME NEW i \in 1..Len(tokenQueue'),
                          NEW j \in 1..Len(tokenQueue'), i # j
                   PROVE  tokenQueue'[i] # tokenQueue'[j]
        OBVIOUS
      <3> DEFINE a == i + 1
      <3> DEFINE b == j + 1
      <3>1. a \in 1..Len(tokenQueue) /\ b \in 1..Len(tokenQueue) /\ a # b
        BY <2>3
      <3>2. tokenQueue'[i] = tokenQueue[a] /\ tokenQueue'[j] = tokenQueue[b]
        BY <2>3
      <3> HIDE DEF a, b
      <3> QED
        BY <3>1, <3>2 DEF QueueInOrder
    <2> QED
      BY <2>5, <2>6 DEF QueueInOrder
  <1> QED
    BY <1>1, <1>2

\* Between macrotasks nothing is said of jobs.
LEMMA NoJobs ==
    ASSUME jobs' = <<>>
    PROVE  JobsInOrder' /\ NothingLeftUnwatched'
  <1>1. Len(jobs') = 0
    OBVIOUS
  <1> QED
    BY <1>1 DEF JobsInOrder, NothingLeftUnwatched

\* An answer leaves one callback of its renewal, and the queue's.
LEMMA AnswerKeepsJobs ==
    ASSUME TypeOK, NEW r \in Renewals, Answered(r), NEW a, NEW b,
           jobs' = <<a, b>>, a.do \in Own \ {"forward", "forget"}, a.of = r,
           b.do = "release"
    PROVE  JobsInOrder' /\ NothingLeftUnwatched'
  <1>1. Len(jobs') = 2 /\ jobs'[1] = a /\ jobs'[2] = b
    OBVIOUS
  <1>2. phase'[r] = "settling"
    BY DEF Answered, TypeOK
  <1>3. \A i \in 1..Len(jobs') : i = 1 \/ (i = 2 /\ jobs'[i].do = "release")
    BY <1>1
  <1>4. "release" \notin Own
    BY DEF Own
  <1>5. JobsInOrder'
    BY <1>1, <1>2, <1>3, <1>4 DEF JobsInOrder
  <1>6. NothingLeftUnwatched'
    BY <1>1, <1>3 DEF NothingLeftUnwatched
  <1> QED
    BY <1>5, <1>6

-------------------------------------------------------------------------------
(* Every step keeps EngineInv.                                                 *)

\* A token stays watched: by its timer, or by a renewal that goes on.
LEMMA StaysWatched ==
    ASSUME \A k \in Timed :
              \/ Watched(k)'
              \/ ~started'
              \/ \E r \in Live' : asked'[r].key = k
              \/ /\ started /\ (Watched(k) => Watched(k)')
                 /\ \A r \in Live : asked[r].key = k => r \in Live' /\ asked'[r].key = k,
           EveryTokenWatched
    PROVE  EveryTokenWatched'
  BY DEF EveryTokenWatched, Watched

\* setTokens() leaves every token watched by its timer.
LEMMA SetTokensWatches ==
    ASSUME NEW tokens, NEW flags, SetTokens(tokens, flags)
    PROVE  \A k \in Keys : Watched(k)'
  BY DEF SetTokens, Watched, TimerFor, Keys

\* remove() leaves the other tokens as they are.
LEMMA RemoveKeyWatches ==
    ASSUME TypeOK, NEW k \in Keys, RemoveKey(k)
    PROVE  Watched(k)' /\ \A j \in Keys : Watched(j) => Watched(j)'
  BY DEF TypeOK, RemoveKey, Watched, Keys

\* renew() takes the timer of the key it asks for, and no other.
LEMMA RenewWatches ==
    ASSUME TypeOK, EngineInv, NEW k \in Keys, NEW tm \in [Keys -> Timers],
           \A j \in Keys : tm[j].state = "none" <=> timers[j].state = "none",
           Renew(k, tm), Macrotask, UNCHANGED <<stored, jobs>>
    PROVE  EngineInv'
  <1>1. JobsInOrder' /\ NothingLeftUnwatched'
    BY NoJobs DEF Macrotask
  <1>2. CASE timers' = tm /\ UNCHANGED mem
    <2>1. \A j \in Keys : Watched(j) => Watched(j)'
      BY <1>2 DEF Watched
    <2>2. EveryTokenWatched'
      BY <1>2, <2>1, StaysWatched DEF EngineInv, mem, Live, Keys, EveryTokenWatched, Watched
    <2>3. QueueInOrder'
      BY <1>2 DEF EngineInv, QueueInOrder, mem
    <2> QED
      BY <1>1, <2>2, <2>3 DEF EngineInv
  <1>3. CASE ~(timers' = tm /\ UNCHANGED mem)
    <2>1. /\ timers' = [tm EXCEPT ![k] = NoTimer]
          /\ started' = started
      BY <1>3 DEF Renew
    <2>2. PICK r \in Renewals :
             /\ phase[r] = "new"
             /\ asked' = [asked EXCEPT ![r] = [key |-> k, version |-> stored[k]]]
             /\ PushRenewal(r)
      BY <1>3 DEF Renew
    <2>3. QueueInOrder' /\ r \in Live'
      BY <2>2, PushKeepsQueue DEF EngineInv
    <2>4. asked'[r].key = k
      BY <2>2 DEF TypeOK
    <2>5. \A q \in Live : q # r /\ q \in Live' /\ asked'[q] = asked[q]
      BY <2>2 DEF PushRenewal, TypeOK, Live
    <2>6. \A j \in Keys \ {k} : Watched(j) => Watched(j)'
      BY <2>1 DEF Watched
    <2>7. EveryTokenWatched'
      BY <2>1, <2>3, <2>4, <2>5, <2>6 DEF EngineInv, EveryTokenWatched, Watched, Keys
    <2> QED
      BY <1>1, <2>3, <2>7 DEF EngineInv
  <1> QED
    BY <1>2, <1>3

\* Calls of the application, start() and stop().
LEMMA AppKeepsEngine ==
    ASSUME TypeOK, EngineInv, App
    PROVE  EngineInv'
  <1>1. ASSUME NEW k \in Keys, AppRenew(k) PROVE EngineInv'
    BY <1>1, RenewWatches DEF AppRenew, TypeOK
  <1>2. ASSUME UNCHANGED <<phase, asked, tokenQueue>>, jobs' = <<>>,
               \A k \in Timed : \/ Watched(k)'
                                \/ ~started'
                                \/ started /\ (Watched(k) => Watched(k)')
        PROVE  EngineInv'
    <2>1. QueueInOrder'
      BY <1>2 DEF EngineInv, QueueInOrder
    <2>2. EveryTokenWatched'
      BY <1>2 DEF EngineInv, EveryTokenWatched, Watched, Live
    <2> QED
      BY <1>2, <2>1, <2>2, NoJobs DEF EngineInv
  <1>3. ASSUME NEW T \in Answers, AppSetTokens(T) PROVE EngineInv'
    BY <1>2, <1>3, SetTokensWatches DEF AppSetTokens, Macrotask, Keys
  <1>4. ASSUME NEW k \in Keys, Add(k) PROVE EngineInv'
    <2>1. \A j \in Timed : Watched(j)' \/ (Watched(j) => Watched(j)')
      BY <1>4 DEF Add, Watched, TypeOK, TimerFor, Keys
    <2>2. started' = started /\ UNCHANGED <<phase, asked, tokenQueue>> /\ jobs' = <<>>
      BY <1>4 DEF Add, Macrotask
    <2> QED
      BY <1>2, <2>1, <2>2
  <1>5. ASSUME NEW k \in Keys, Remove(k) PROVE EngineInv'
    BY <1>2, <1>5, RemoveKeyWatches DEF Remove, Macrotask, Keys
  <1>6. CASE Clear
    BY <1>2, <1>6 DEF Clear, Macrotask, NoTokens, Watched, Keys
  <1>7. CASE AddPendingRemoveFlags
    BY <1>2, <1>7, SetTokensWatches DEF AddPendingRemoveFlags, Macrotask, Keys
  <1>8. CASE Start
    <2>1. \A j \in Timed : Watched(j)'
      BY <1>8 DEF Start, Watched, TimerFor, Keys, TypeOK
    <2> QED
      BY <1>2, <1>8, <2>1 DEF Start, Macrotask
  <1>9. CASE Stop
    BY <1>2, <1>9 DEF Stop, Macrotask
  <1> QED
    BY <1>1, <1>3, <1>4, <1>5, <1>6, <1>7, <1>8, <1>9 DEF App

\* Timeouts.
LEMMA TimerKeepsEngine ==
    ASSUME TypeOK, EngineInv, NEW k \in Keys, TimerFires(k)
    PROVE  EngineInv'
  <1> DEFINE fired == [timers EXCEPT ![k].state = "fired"]
  <1>1. /\ fired \in [Keys -> Timers]
        /\ \A j \in Keys : fired[j].state = "none" <=> timers[j].state = "none"
    <2>1. timers[k].state = "pending" /\ timers \in [Keys -> Timers]
      BY DEF TimerFires, TypeOK
    <2>2. /\ [timers[k] EXCEPT !.state = "fired"] \in Timers
          /\ fired = [timers EXCEPT ![k] = [timers[k] EXCEPT !.state = "fired"]]
      BY <2>1 DEF Timers
    <2> QED
      BY <2>1, <2>2 DEF Timers
  <1>2. Macrotask /\ jobs' = jobs /\ jobs' = <<>>
    BY DEF TimerFires, Macrotask
  <1> HIDE DEF fired
  <1>3. CASE Renew(k, fired) /\ UNCHANGED stored
    BY <1>1, <1>2, <1>3, RenewWatches
  <1>4. ASSUME UNCHANGED <<phase, asked, tokenQueue, started>>,
               \A j \in Keys : Watched(j) => Watched(j)'
        PROVE  EngineInv'
    <2>1. QueueInOrder'
      BY <1>4 DEF EngineInv, QueueInOrder
    <2>2. EveryTokenWatched'
      BY <1>4 DEF EngineInv, EveryTokenWatched, Watched, Live, Keys
    <2> QED
      BY <1>2, <2>1, <2>2, NoJobs DEF EngineInv
  <1>5. CASE RemoveKey(k) /\ UNCHANGED <<phase, asked, tokenQueue, started>>
    BY <1>4, <1>5, RemoveKeyWatches
  <1>6. CASE timers' = fired /\ UNCHANGED <<stored, mem>>
    <2>1. \A j \in Keys : Watched(j) => Watched(j)'
      BY <1>1, <1>6 DEF Watched
    <2> QED
      BY <1>4, <1>6, <2>1 DEF mem
  <1> QED
    BY <1>3, <1>5, <1>6, Zenon DEF TimerFires, fired

\* The answer to a renewal.
LEMMA NetworkKeepsEngine ==
    ASSUME TypeOK, EngineInv, Network
    PROVE  EngineInv'
  <1>1. PICK r \in Renewals : \/ \E T \in Answers : AnswerTokens(r, T)
                              \/ AnswerFails(r)
                              \/ AnswerInvalidGrant(r)
    BY DEF Network
  <1>2. /\ Answered(r) /\ UNCHANGED <<started, asked, tokenQueue, executing>>
        /\ \A k \in Timed : Watched(k) => Watched(k)'
    <2>1. ASSUME NEW T \in Answers, AnswerTokens(r, T)
          PROVE  /\ Answered(r) /\ UNCHANGED <<started, asked, tokenQueue, executing>>
                 /\ \A k \in Timed : Watched(k) => Watched(k)'
      <3>1. /\ Answered(r) /\ UNCHANGED <<timers, started, asked, tokenQueue, executing>>
            /\ \E rt : stored' \in {stored, [stored EXCEPT !["refreshToken"] = rt]}
        BY <2>1 DEF AnswerTokens
      <3>2. \A k \in Timed : stored'[k] = stored[k]
        BY <3>1 DEF TypeOK, Timed, Keys
      <3> QED
        BY <3>1, <3>2 DEF Watched
    <2>2. CASE AnswerFails(r)
      BY <2>2 DEF AnswerFails, Watched
    <2>3. CASE AnswerInvalidGrant(r)
      <3>1. RemoveKey("refreshToken")
        BY <2>3 DEF AnswerInvalidGrant
      <3>2. \A j \in Keys : Watched(j) => Watched(j)'
        BY <3>1, RemoveKeyWatches DEF Keys
      <3> QED
        BY <2>3, <3>2 DEF AnswerInvalidGrant, Keys
    <2> QED
      BY <1>1, <2>1, <2>2, <2>3
  <1>3. PICK a, b : /\ jobs' = <<a, b>> /\ b.do = "release" /\ a.of = r
                    /\ a.do \in Own \ {"forward", "forget"}
    BY <1>1 DEF AnswerTokens, AnswerFails, AnswerInvalidGrant, Job, Own, JobKinds
  <1>4. JobsInOrder' /\ NothingLeftUnwatched'
    BY <1>2, <1>3, AnswerKeepsJobs
  <1>5. QueueInOrder'
    <2>1. \A i \in 1..Len(tokenQueue) : tokenQueue[i] \in Renewals
      BY DEF TypeOK
    <2>2. \A i \in 1..Len(tokenQueue) : phase'[tokenQueue[i]] = phase[tokenQueue[i]]
      BY <1>2, <2>1 DEF Answered, TypeOK, EngineInv, QueueInOrder
    <2> QED
      BY <1>2, <2>2 DEF EngineInv, QueueInOrder
  <1>6. Live \subseteq Live'
    BY <1>2 DEF Answered, TypeOK, Live
  <1>7. EveryTokenWatched'
    BY <1>2, <1>6 DEF EngineInv, EveryTokenWatched, Watched
  <1> QED
    BY <1>4, <1>5, <1>7 DEF EngineInv

\* A callback of a renewal that is not its last leaves every token watched.
LEMMA CallbackKeepsEngine ==
    ASSUME TypeOK, EngineInv, NEW r \in Renewals, NEW do \in Own,
           NEW more \in Seq(Jobs), Runs(do, r, more),
           UNCHANGED <<phase, asked, tokenQueue, started>>,
           \A j \in 1..Len(more) : more[j].do \in Own => more[j].of = r,
           \A i, j \in 1..Len(more) :
               more[i].do \in Own /\ more[j].do \in Own => i = j,
           \A k \in Keys : Watched(k) => Watched(k)',
           \A j \in 1..Len(more) :
              more[j].do \in {"forward", "forget"} => Watched(asked[r].key)'
    PROVE  EngineInv'
  <1>1. JobsInOrder'
    BY OwnRunsInOrder DEF EngineInv
  <1>2. QueueInOrder'
    BY DEF EngineInv, QueueInOrder
  <1>3. EveryTokenWatched'
    BY DEF EngineInv, EveryTokenWatched, Watched, Live, Keys
  <1>4. NothingLeftUnwatched'
    <2> SUFFICES ASSUME NEW i \in 1..Len(jobs'), jobs'[i].do \in {"forward", "forget"}
                 PROVE  Watched(asked[jobs[i].of].key)'
      BY DEF NothingLeftUnwatched
    <2>1. \/ i + 1 \in 1..Len(jobs) /\ jobs'[i] = jobs[i + 1]
          \/ \E j \in 1..Len(more) : jobs'[i] = more[j]
      BY RunsShape
    <2>2. CASE i + 1 \in 1..Len(jobs) /\ jobs'[i] = jobs[i + 1]
      <3>1. jobs[i + 1].of \in Renewals
        BY <2>2, JobsOfRenewals
      <3>2. asked[jobs[i + 1].of].key \in Keys
        BY <3>1 DEF TypeOK
      <3>3. Watched(asked[jobs[i + 1].of].key)
        BY <2>2 DEF EngineInv, NothingLeftUnwatched
      <3>4. \A k \in Keys : k = asked[jobs[i + 1].of].key => Watched(k)'
        BY <3>3
      <3>5. asked'[jobs'[i].of].key = asked[jobs[i + 1].of].key
        BY <2>2
      <3> QED
        BY <3>2, <3>4, <3>5 DEF Watched
    <2>3. CASE \E j \in 1..Len(more) : jobs'[i] = more[j]
      <3>1. "forward" \in Own /\ "forget" \in Own
        BY DEF Own, JobKinds
      <3>2. jobs'[i].of = r /\ Watched(asked[r].key)'
        BY <2>3, <3>1
      <3> QED
        BY <3>2 DEF Watched
    <2> QED
      BY <2>1, <2>2, <2>3
  <1> QED
    BY <1>1, <1>2, <1>3, <1>4 DEF EngineInv

\* The same for one callback that is followed by one other.
LEMMA FollowedKeepsEngine ==
    ASSUME TypeOK, EngineInv, NEW r \in Renewals, NEW do \in Own, NEW next \in Own,
           Runs(do, r, <<Job(next, r)>>),
           UNCHANGED <<phase, asked, tokenQueue, started>>,
           \A k \in Keys : Watched(k) => Watched(k)',
           next \in {"forward", "forget"} => Watched(asked[r].key)'
    PROVE  EngineInv'
  <1> DEFINE more == <<Job(next, r)>>
  <1>1. next \in JobKinds
    BY DEF Own
  <1>2. /\ more \in Seq(Jobs)
        /\ \A j \in 1..Len(more) : j = 1 /\ more[j].do = next /\ more[j].of = r
    BY <1>1, JobTyped DEF Job
  <1>3. Runs(do, r, more)
    OBVIOUS
  <1> HIDE DEF more
  <1> QED
    BY <1>2, <1>3, CallbackKeepsEngine

\* then(setTokens), catch(remove) and the callbacks that values pass by.
LEMMA SettlingKeepsEngine ==
    ASSUME TypeOK, EngineInv, NEW r \in Renewals,
           ApplyTokens(r) \/ Passes(r) \/ RemoveToken(r)
    PROVE  EngineInv'
  <1>1. CASE ApplyTokens(r)
    <2>1. /\ Runs("applyTokens", r, <<Job("forward", r)>>)
          /\ UNCHANGED <<phase, asked, tokenQueue, started>>
          /\ \A k \in Keys : Watched(k)'
      BY <1>1, SetTokensWatches DEF ApplyTokens
    <2>2. asked[r].key \in Keys /\ (\A k \in Keys : k = asked[r].key => Watched(k)')
      BY <2>1 DEF TypeOK
    <2>3. Watched(asked[r].key)'
      BY <2>1, <2>2 DEF Watched
    <2>4. "applyTokens" \in Own /\ "forward" \in Own
      BY DEF Own, JobKinds
    <2> QED
      BY <2>1, <2>3, <2>4, FollowedKeepsEngine
  <1>2. CASE Passes(r)
    <2>1. /\ UNCHANGED <<phase, asked, tokenQueue, started>>
          /\ UNCHANGED <<stored, timers>>
      BY <1>2 DEF Passes, mem
    <2>2. \A k \in Keys : Watched(k) => Watched(k)'
      BY <2>1 DEF Watched
    <2>3. CASE Runs("forward", r, <<Job("forget", r)>>)
      <3>1. Watched(asked[r].key)
        <4>1. 1 \in 1..Len(jobs) /\ jobs[1].do = "forward" /\ jobs[1].of = r
          BY <2>3 DEF TypeOK, Runs
        <4> QED
          BY <4>1 DEF EngineInv, NothingLeftUnwatched
      <3>2. Watched(asked[r].key)'
        BY <2>1, <3>1 DEF Watched
      <3>3. "forward" \in Own /\ "forget" \in Own
        BY DEF Own, JobKinds
      <3> QED
        BY <2>1, <2>2, <2>3, <3>2, <3>3, FollowedKeepsEngine
    <2>4. CASE Runs("forwardError", r, <<Job("removeToken", r)>>)
      <3>1. "forwardError" \in Own /\ "removeToken" \in Own
        BY DEF Own, JobKinds
      <3> QED
        BY <2>1, <2>2, <2>4, <3>1, FollowedKeepsEngine
    <2>5. CASE Runs("reject", r, <<Job("forwardError", r), Job("release", r)>>)
      <3> DEFINE more == <<Job("forwardError", r), Job("release", r)>>
      <3>1. "reject" \in Own /\ "release" \notin Own
        BY DEF Own, JobKinds
      <3>2. Job("forwardError", r) \in Jobs /\ Job("release", r) \in Jobs
        BY JobTyped DEF JobKinds
      <3>3. /\ more \in Seq(Jobs)
            /\ \A j \in 1..Len(more) : \/ j = 1 /\ more[j].do = "forwardError" /\ more[j].of = r
                                       \/ j = 2 /\ more[j].do = "release"
        BY <3>2 DEF Job
      <3> HIDE DEF more
      <3>4. Runs("reject", r, more)
        BY <2>5 DEF more
      <3> QED
        BY <2>1, <2>2, <3>1, <3>3, <3>4, CallbackKeepsEngine
    <2> QED
      BY <1>2, <2>3, <2>4, <2>5 DEF Passes
  <1>3. CASE RemoveToken(r)
    <2>1. /\ Runs("removeToken", r, <<Job("forget", r)>>)
          /\ UNCHANGED <<phase, asked, tokenQueue, started>>
          /\ RemoveKey(asked[r].key) /\ asked[r].key \in Keys
      BY <1>3 DEF RemoveToken, TypeOK
    <2>2. /\ \A k \in Keys : Watched(k) => Watched(k)'
          /\ \A k \in Keys : k = asked[r].key => Watched(k)'
      BY <2>1, RemoveKeyWatches
    <2>3. Watched(asked[r].key)'
      BY <2>1, <2>2 DEF Watched
    <2>4. "removeToken" \in Own /\ "forget" \in Own
      BY DEF Own, JobKinds
    <2> QED
      BY <2>1, <2>2, <2>3, <2>4, FollowedKeepsEngine
  <1> QED
    BY <1>1, <1>2, <1>3

\* finally(): the renewal that is over was not the last to watch a token.
LEMMA ForgetKeepsEngine ==
    ASSUME TypeOK, EngineInv, NEW r \in Renewals, Forget(r)
    PROVE  EngineInv'
  <1>1. /\ Runs("forget", r, <<>>)
        /\ phase' = [phase EXCEPT ![r] = "done"]
        /\ asked' = [asked EXCEPT ![r] = NotAsked]
        /\ UNCHANGED <<stored, timers, started, tokenQueue>>
    BY DEF Forget
  <1>2. "forget" \in Own
    BY DEF Own, JobKinds
  <1>3. /\ 1 \in 1..Len(jobs) /\ jobs[1].do = "forget" /\ jobs[1].of = r
        /\ \A i \in 1..Len(jobs') : /\ i + 1 \in 1..Len(jobs) /\ i + 1 # 1
                                    /\ jobs'[i] = jobs[i + 1]
    BY <1>1, RunsNoMore
  <1>4. \A i \in 1..Len(jobs) : jobs[i] \in Jobs /\ jobs[i].of \in Renewals
    BY JobsOfRenewals
  <1>5. \A i \in 1..Len(jobs) : i # 1 /\ jobs[i].do \in Own =>
           /\ jobs[i].of # r /\ phase[jobs[i].of] = "settling"
           /\ phase'[jobs[i].of] = "settling" /\ asked'[jobs[i].of] = asked[jobs[i].of]
    <2>1. TAKE i \in 1..Len(jobs)
    <2>2. HAVE i # 1 /\ jobs[i].do \in Own
    <2>3. phase[jobs[i].of] = "settling" /\ jobs[1].of # jobs[i].of
      BY <1>2, <1>3, <2>2 DEF EngineInv, JobsInOrder
    <2>4. jobs[i].of \in Renewals /\ jobs[i].of # r
      BY <1>3, <1>4, <2>3
    <2>5. phase' = [phase EXCEPT ![r] = "done"] /\ DOMAIN phase = Renewals
          /\ asked' = [asked EXCEPT ![r] = NotAsked] /\ DOMAIN asked = Renewals
      BY <1>1 DEF TypeOK
    <2> QED
      BY <2>3, <2>4, <2>5
  <1>6. JobsInOrder'
    <2> DEFINE more == <<>>
    <2>1. Runs("forget", r, more) /\ more \in Seq(Jobs) /\ 1..Len(more) = {}
      BY <1>1
    <2> HIDE DEF more
    <2> QED
      BY <1>5, <2>1, RunsInOrder DEF EngineInv
  <1>7. NothingLeftUnwatched'
    <2> SUFFICES ASSUME NEW i \in 1..Len(jobs'), jobs'[i].do \in {"forward", "forget"}
                 PROVE  Watched(asked[jobs[i].of].key)'
      BY DEF NothingLeftUnwatched
    <2>1. /\ i + 1 \in 1..Len(jobs) /\ i + 1 # 1 /\ jobs'[i] = jobs[i + 1]
          /\ jobs[i + 1].do \in Own
      BY <1>3 DEF Own, JobKinds
    <2>2. asked'[jobs'[i].of] = asked[jobs[i + 1].of] /\ Watched(asked[jobs[i + 1].of].key)
      BY <1>5, <2>1 DEF EngineInv, NothingLeftUnwatched
    <2> QED
      BY <1>1, <2>2 DEF Watched
  <1>8. QueueInOrder'
    <2>1. phase[r] = "settling"
      BY <1>2, <1>3 DEF EngineInv, JobsInOrder
    <2>2. \A i \in 1..Len(tokenQueue) : tokenQueue[i] \in Renewals
      BY DEF TypeOK
    <2>3. \A i \in 1..Len(tokenQueue) : phase'[tokenQueue[i]] = phase[tokenQueue[i]]
      BY <1>1, <2>1, <2>2 DEF TypeOK, EngineInv, QueueInOrder
    <2> QED
      BY <1>1, <2>3 DEF EngineInv, QueueInOrder
  <1>9. EveryTokenWatched'
    <2>1. Watched(asked[r].key)
      BY <1>3 DEF EngineInv, NothingLeftUnwatched
    <2>2. \A q \in Live : q # r => q \in Live' /\ asked'[q] = asked[q]
      BY <1>1 DEF TypeOK, Live
    <2> QED
      BY <1>1, <2>1, <2>2 DEF EngineInv, EveryTokenWatched, Watched
  <1> QED
    BY <1>6, <1>7, <1>8, <1>9 DEF EngineInv

\* The queue goes on.
LEMMA ReleaseKeepsEngine ==
    ASSUME TypeOK, EngineInv, NEW r \in Renewals, Release(r)
    PROVE  EngineInv'
  <1>1. UNCHANGED <<stored, timers, started, asked>>
    BY DEF Release
  <1>2. QueueInOrder'
    BY ReleaseKeepsQueue DEF EngineInv
  <1>3. \A i \in 1..Len(jobs) : jobs[i] \in Jobs /\ jobs[i].of \in Renewals
    BY JobsOfRenewals
  <1>4. PICK next \in Renewals \cup {NoRenewal}, more \in Seq(Jobs) :
           /\ Runs("release", r, more)
           /\ \/ phase' = phase /\ 1..Len(more) = {}
              \/ /\ next \in Renewals /\ phase[next] = "queued"
                 /\ \/ phase' = [phase EXCEPT ![next] = "inFlight"]
                       /\ 1..Len(more) = {}
                    \/ /\ phase' = [phase EXCEPT ![next] = "settling"]
                       /\ \A j \in 1..Len(more) :
                             j = 1 /\ more[j].do = "reject" /\ more[j].of = next
    <2> DEFINE none == <<>>
    <2>1. none \in Seq(Jobs) /\ 1..Len(none) = {}
      OBVIOUS
    <2>2. CASE tokenQueue = <<>>
      <3>1. Runs("release", r, none) /\ phase' = phase
        BY <2>2 DEF Release
      <3> HIDE DEF none
      <3> QED
        BY <2>1, <3>1
    <2>3. CASE tokenQueue # <<>>
      <3> DEFINE next == Head(tokenQueue)
      <3> DEFINE one == <<Job("reject", next)>>
      <3>1. next \in Renewals /\ phase[next] = "queued"
        BY SMTT(30), <2>3 DEF EngineInv, QueueInOrder, TypeOK
      <3>2. /\ one \in Seq(Jobs)
            /\ \A j \in 1..Len(one) : j = 1 /\ one[j].do = "reject" /\ one[j].of = next
        BY <3>1, JobTyped DEF Job, JobKinds
      <3>3. \/ /\ Runs("release", r, one)
               /\ phase' = [phase EXCEPT ![next] = "settling"]
            \/ /\ Runs("release", r, none)
               /\ phase' = [phase EXCEPT ![next] = "inFlight"]
        BY <2>3 DEF Release
      <3> HIDE DEF none, one, next
      <3> QED
        BY <2>1, <3>1, <3>2, <3>3
    <2> QED
      BY <2>2, <2>3
  <1>5. \A q \in Renewals : phase[q] # "queued" => phase'[q] = phase[q]
    BY <1>4 DEF TypeOK
  <1>6. \A j \in 1..Len(more) : /\ j = 1 /\ more[j].do = "reject" /\ more[j].of = next
                                /\ phase'[next] = "settling" /\ phase[next] = "queued"
    BY <1>4 DEF TypeOK
  <1>7. \A i \in 1..Len(jobs) : jobs[i].do \in Own =>
           phase'[jobs[i].of] = "settling" /\ phase[jobs[i].of] = "settling"
    BY <1>3, <1>5 DEF EngineInv, JobsInOrder
  <1>8. JobsInOrder'
    <2>1. CASE phase[next] = "queued"
      <3>1. \A i \in 1..Len(jobs) : jobs[i].do \in Own => jobs[i].of # next
        BY <1>7, <2>1
      <3> QED
        BY <1>4, <1>6, <1>7, <3>1, RunsInOrder DEF EngineInv
    <2>2. CASE phase[next] # "queued"
      <3>1. 1..Len(more) = {}
        BY <1>4, <2>2
      <3>2. \A i \in 1..Len(jobs) : jobs[i].of # NoRenewal
        BY <1>3
      <3> QED
        BY <1>4, <1>7, <3>1, <3>2, RunsInOrder DEF EngineInv
    <2> QED
      BY <2>1, <2>2
  <1>9. NothingLeftUnwatched'
    <2> SUFFICES ASSUME NEW i \in 1..Len(jobs'), jobs'[i].do \in {"forward", "forget"}
                 PROVE  Watched(asked[jobs[i].of].key)'
      BY DEF NothingLeftUnwatched
    <2>1. i + 1 \in 1..Len(jobs) /\ jobs'[i] = jobs[i + 1]
      BY <1>4, <1>6, RunsShape
    <2>2. Watched(asked[jobs[i + 1].of].key)
      BY <2>1 DEF EngineInv, NothingLeftUnwatched
    <2> QED
      BY <1>1, <2>1, <2>2 DEF Watched
  <1>10. EveryTokenWatched'
    <2>1. Live \subseteq Live'
      BY <1>4 DEF Live, TypeOK
    <2> QED
      BY <1>1, <2>1 DEF EngineInv, EveryTokenWatched, Watched
  <1> QED
    BY <1>2, <1>8, <1>9, <1>10 DEF EngineInv

\* The page is loaded anew.
LEMMA ReloadKeepsEngine ==
    ASSUME TypeOK, EngineInv, Reload
    PROVE  EngineInv'
  <1>1. tokenQueue' = <<>> /\ Len(tokenQueue') = 0 /\ jobs' = <<>> /\ started' = FALSE
    BY DEF Reload, Macrotask
  <1> QED
    BY <1>1, NoJobs DEF EngineInv, QueueInOrder, EveryTokenWatched

\* EngineInv is inductive relative to the types.
LEMMA NextKeepsEngine == TypeOK /\ EngineInv /\ [Next]_vars => EngineInv'
  <1> SUFFICES ASSUME TypeOK, EngineInv, [Next]_vars PROVE EngineInv'
    OBVIOUS
  <1>1. CASE UNCHANGED vars
    BY <1>1 DEF vars, mem, EngineInv, QueueInOrder, JobsInOrder, NothingLeftUnwatched,
                EveryTokenWatched, Watched, Live
  <1>2. CASE Next
    BY <1>2, AppKeepsEngine, TimerKeepsEngine, NetworkKeepsEngine,
       SettlingKeepsEngine, ForgetKeepsEngine, ReleaseKeepsEngine,
       ReloadKeepsEngine DEF Next, Microtask
  <1> QED
    BY <1>1, <1>2

\* Every reachable state satisfies EngineInv.
THEOREM EngineInvariant == Spec => []EngineInv
  <1>1. Init => EngineInv
    <2> SUFFICES ASSUME Init PROVE EngineInv
      OBVIOUS
    <2>1. Len(tokenQueue) = 0 /\ Len(jobs) = 0
      BY DEF Init
    <2> QED
      BY <2>1 DEF Init, EngineInv, QueueInOrder, JobsInOrder, NothingLeftUnwatched,
                  EveryTokenWatched
  <1> QED
    BY <1>1, NextKeepsEngine, TypeCorrect, PTL DEF Spec

\* start() and renew(): while the manager is started no token goes unwatched.
THEOREM TokensWatched == Spec => []EveryTokenWatched
  <1>1. EngineInv => EveryTokenWatched
    BY DEF EngineInv
  <1> QED
    BY <1>1, EngineInvariant, PTL

-------------------------------------------------------------------------------
(* Every step keeps RotationInv.                                               *)

\* The executing renewal presents what was stored when it began.
LEMMA PresentsUsable ==
    ASSUME TypeOK, RotationInv, UNCHANGED <<spent, lost>>,
           \A r \in Renewals : executing' = r /\ phase'[r] = "inFlight" =>
              \/ presented' = stored["refreshToken"]
              \/ presented' = presented /\ executing = r /\ phase[r] = "inFlight"
    PROVE  NoRefreshTokenReplay'
  BY DEF RotationInv, StoredIsUsable, Usable, NoRefreshTokenReplay

\* What a step stores was issued, and the server has not replaced it.
LEMMA StoresUsable ==
    ASSUME TypeOK, RotationInv, UNCHANGED <<spent, lost, jobs, presented>>,
           issued' \in Nat, issued <= issued',
           \A k \in Keys : stored'[k] <= issued',
           \/ stored'["refreshToken"] \in {stored["refreshToken"], 0}
           \/ stored'["refreshToken"] > issued
    PROVE  Issued' /\ StoredIsUsable'
  <1>1. /\ stored \in [Keys -> Nat] /\ issued \in Nat /\ presented \in Nat
        /\ "refreshToken" \in Keys
        /\ spent \subseteq 1..issued
        /\ \A i \in 1..Len(jobs) : jobs[i].tokens \in [Keys -> Nat]
    <2>1. \A i \in 1..Len(jobs) : jobs[i] \in Jobs
      BY DEF TypeOK
    <2> QED
      BY <2>1 DEF TypeOK, RotationInv, Issued, Keys, Jobs
  <1>2. \A i \in 1..Len(jobs) : \A k \in Keys : jobs[i].tokens[k] <= issued'
    BY <1>1 DEF RotationInv, Issued
  <1>3. Issued'
    BY <1>1, <1>2 DEF RotationInv, Issued
  <1>4. Usable(stored'["refreshToken"])
    <2>1. CASE stored'["refreshToken"] = stored["refreshToken"]
      BY <2>1 DEF RotationInv, StoredIsUsable
    <2>2. CASE stored'["refreshToken"] = 0 \/ stored'["refreshToken"] > issued
      <3>1. stored'["refreshToken"] \notin 1..issued
        BY <1>1, <2>2
      <3> QED
        BY <1>1, <3>1 DEF Usable
    <2> QED
      BY <2>1, <2>2
  <1> QED
    BY <1>3, <1>4 DEF RotationInv, StoredIsUsable, Usable

\* setTokens() of the tokens of a response.
LEMMA FreshIsUsable ==
    ASSUME TypeOK, NEW T
    PROVE  /\ issued + 1 \in Nat /\ issued <= issued + 1
           /\ \A k \in Keys : Fresh(T)[k] \in {0, issued + 1} /\ Fresh(T)[k] <= issued + 1
  BY DEF TypeOK, Fresh

\* renew() presents the stored refresh token, now or later.
LEMMA RenewRotates ==
    ASSUME TypeOK, RotationInv, NEW k \in Keys, NEW tm, Renew(k, tm),
           UNCHANGED <<stored, jobs, server>>
    PROVE  RotationInv'
  <1>1. CASE UNCHANGED mem
    BY <1>1 DEF mem, server, RotationInv, Issued, StoredIsUsable, Usable,
                NoRefreshTokenReplay
  <1>2. CASE ~UNCHANGED mem
    <2>1. PICK r \in Renewals : phase[r] = "new" /\ PushRenewal(r)
      BY <1>2 DEF Renew
    <2>2. presented' \in {presented, stored["refreshToken"]}
      BY <2>1 DEF PushRenewal, Begins
    <2>3. NoRefreshTokenReplay'
      <3>1. CASE executing = NoRenewal
        BY <2>1, <3>1, PresentsUsable DEF PushRenewal, Begins, server
      <3>2. CASE executing # NoRenewal
        <4>1. /\ UNCHANGED <<executing, presented>>
              /\ phase' = [phase EXCEPT ![r] = "queued"]
          BY <2>1, <3>2 DEF PushRenewal
        <4>2. \A q \in Renewals : phase'[q] = "inFlight" => phase[q] = "inFlight"
          BY <4>1 DEF TypeOK
        <4> QED
          BY <4>1, <4>2, PresentsUsable DEF server
      <3> QED
        BY <3>1, <3>2
    <2>4. Issued' /\ StoredIsUsable'
      BY <2>2 DEF RotationInv, Issued, StoredIsUsable, Usable, server, Keys
    <2> QED
      BY <2>3, <2>4 DEF RotationInv
  <1> QED
    BY <1>1, <1>2

\* Calls of the application, start() and stop().
LEMMA AppRotates ==
    ASSUME TypeOK, RotationInv, App
    PROVE  RotationInv'
  <1>1. ASSUME UNCHANGED <<phase, executing, presented, jobs, spent, lost>>,
               issued' \in Nat, issued <= issued',
               \A k \in Keys : stored'[k] <= issued',
               \/ stored'["refreshToken"] \in {stored["refreshToken"], 0}
               \/ stored'["refreshToken"] > issued
        PROVE  RotationInv'
    BY <1>1, StoresUsable, PresentsUsable DEF RotationInv
  <1>2. /\ "refreshToken" \in Keys /\ issued \in Nat /\ issued <= issued
        /\ \A k \in Keys : stored[k] \in Nat /\ 0 <= issued /\ stored[k] <= issued
        /\ stored \in [Keys -> Nat]
    BY DEF TypeOK, RotationInv, Issued, Keys
  <1>3. ASSUME NEW k \in Keys, AppRenew(k) PROVE RotationInv'
    BY <1>3, RenewRotates DEF AppRenew
  <1>4. ASSUME NEW T \in Answers, AppSetTokens(T) PROVE RotationInv'
    <2>1. /\ issued' = issued + 1 /\ stored' = Fresh(T)
          /\ UNCHANGED <<phase, executing, presented, jobs, spent, lost>>
      BY <1>4 DEF AppSetTokens, SetTokens
    <2> QED
      BY <1>1, <1>2, <2>1, FreshIsUsable
  <1>5. ASSUME NEW k \in Keys, Add(k) PROVE RotationInv'
    <2>1. /\ issued' = issued + 1 /\ stored' = [stored EXCEPT ![k] = issued + 1]
          /\ UNCHANGED <<phase, executing, presented, jobs, spent, lost>>
      BY <1>5 DEF Add
    <2>2. \A j \in Keys : stored'[j] \in {stored[j], issued + 1} /\ stored'[j] <= issued'
      BY <1>2, <2>1
    <2> QED
      BY <1>1, <1>2, <2>1, <2>2
  <1>6. ASSUME NEW k \in Keys, Remove(k) PROVE RotationInv'
    <2>1. /\ stored' = [stored EXCEPT ![k] = 0]
          /\ UNCHANGED <<phase, executing, presented, jobs, server>>
      BY <1>6 DEF Remove, RemoveKey
    <2>2. \A j \in Keys : stored'[j] \in {stored[j], 0}
      BY <1>2, <2>1
    <2> QED
      BY <1>1, <1>2, <2>1, <2>2 DEF server
  <1>7. CASE Clear
    <2>1. /\ stored' = NoTokens
          /\ UNCHANGED <<phase, executing, presented, jobs, server>>
      BY <1>7 DEF Clear
    <2> QED
      BY <1>1, <1>2, <2>1 DEF server, NoTokens
  <1>8. CASE AddPendingRemoveFlags \/ Stop
    <2>1. UNCHANGED <<stored, phase, executing, presented, jobs, server>>
      BY <1>8 DEF AddPendingRemoveFlags, SetTokens, Stop
    <2> QED
      BY <1>1, <1>2, <2>1 DEF server
  <1>9. CASE Start
    <2>1. /\ \A j \in Keys : stored'[j] \in {stored[j], 0}
          /\ UNCHANGED <<phase, executing, presented, jobs, server>>
      BY <1>9 DEF Start
    <2> QED
      BY <1>1, <1>2, <2>1 DEF server
  <1> QED
    BY <1>3, <1>4, <1>5, <1>6, <1>7, <1>8, <1>9 DEF App

\* Timeouts.
LEMMA TimerRotates ==
    ASSUME TypeOK, RotationInv, NEW k \in Keys, TimerFires(k)
    PROVE  RotationInv'
  <1>1. UNCHANGED <<jobs, server>>
    BY DEF TimerFires
  <1>2. \/ \E tm : Renew(k, tm) /\ UNCHANGED stored
        \/ RemoveKey(k) /\ UNCHANGED <<phase, executing, presented>>
        \/ UNCHANGED <<stored, phase, executing, presented>>
    BY Zenon DEF TimerFires, mem
  <1>3. CASE \E tm : Renew(k, tm) /\ UNCHANGED stored
    BY <1>1, <1>3, RenewRotates
  <1>4. CASE \/ RemoveKey(k) /\ UNCHANGED <<phase, executing, presented>>
             \/ UNCHANGED <<stored, phase, executing, presented>>
    <2>1. /\ \A j \in Keys : stored'[j] \in {stored[j], 0}
          /\ UNCHANGED <<phase, executing, presented>>
      BY <1>4 DEF RemoveKey, TypeOK
    <2>2. /\ \A j \in Keys : stored[j] \in Nat /\ stored[j] <= issued
          /\ issued \in Nat /\ "refreshToken" \in Keys
      BY DEF RotationInv, Issued, TypeOK, Keys
    <2>3. \A j \in Keys : stored'[j] <= issued
      BY <2>1, <2>2
    <2>4. issued' = issued /\ UNCHANGED <<spent, lost>>
      BY <1>1 DEF server
    <2>5. Issued' /\ StoredIsUsable'
      BY <1>1, <2>1, <2>2, <2>3, <2>4, StoresUsable
    <2> QED
      BY <2>1, <2>4, <2>5, PresentsUsable DEF RotationInv
  <1> QED
    BY <1>2, <1>3, <1>4

\* The answer to a renewal: what it replaces is no longer in flight, and what it
\* brings is new.
LEMMA NetworkRotates ==
    ASSUME TypeOK, RotationInv, Network
    PROVE  RotationInv'
  <1>1. PICK r \in Renewals : \/ \E T \in Answers : AnswerTokens(r, T)
                              \/ AnswerFails(r)
                              \/ AnswerInvalidGrant(r)
    BY DEF Network
  <1>2. /\ executing = r /\ executing' = executing /\ presented' = presented
        /\ phase' = [phase EXCEPT ![r] = "settling"]
    BY <1>1 DEF AnswerTokens, AnswerFails, AnswerInvalidGrant, Answered
  <1>3. NoRefreshTokenReplay'
    BY <1>2 DEF NoRefreshTokenReplay, TypeOK
  <1>4. /\ "refreshToken" \in Keys /\ issued \in Nat /\ presented \in Nat
        /\ \A k \in Keys : stored[k] \in Nat /\ stored[k] <= issued
        /\ stored \in [Keys -> Nat] /\ presented <= issued
        /\ spent \subseteq 1..issued
        /\ Usable(stored["refreshToken"])
    BY DEF TypeOK, RotationInv, Issued, StoredIsUsable, Keys
  <1>5. ASSUME NEW a, NEW b, jobs' = <<a, b>>, a.tokens \in [Keys -> Nat],
               b.tokens = NoTokens, issued' \in Nat, issued <= issued',
               \A k \in Keys : a.tokens[k] <= issued' /\ stored'[k] <= issued',
               spent' \subseteq 1..issued',
               a.tokens["refreshToken"] \in spent' => a.tokens["refreshToken"] \in lost',
               Usable(stored["refreshToken"])'
        PROVE  RotationInv'
    <2>1. \A i \in 1..Len(jobs') : jobs'[i] = a \/ jobs'[i] = b
      BY <1>5
    <2>2. /\ \A k \in Keys : b.tokens[k] <= issued'
          /\ Usable(b.tokens["refreshToken"])'
      BY <1>4, <1>5 DEF NoTokens, Usable
    <2>3. Issued'
      BY <1>2, <1>4, <1>5, <2>1, <2>2 DEF Issued
    <2>4. StoredIsUsable'
      BY <1>5, <2>1, <2>2 DEF StoredIsUsable, Usable
    <2> QED
      BY <1>3, <2>3, <2>4 DEF RotationInv
  <1>6. ASSUME NEW T \in Answers, AnswerTokens(r, T) PROVE RotationInv'
    <2> DEFINE rotates(rt) == rt # presented /\ presented # 0 /\ "refreshToken" \in T
    <2> DEFINE tokens(rt) == IF "refreshToken" \in T /\ presented # 0
                             THEN [Fresh(T) EXCEPT !["refreshToken"] = rt]
                             ELSE Fresh(T)
    <2>1. PICK rt \in {presented, issued + 1} :
             /\ stored' = IF rotates(rt) THEN [stored EXCEPT !["refreshToken"] = rt]
                          ELSE stored
             /\ spent' = IF rotates(rt) THEN spent \cup {presented} ELSE spent
             /\ jobs' = <<[Job("applyTokens", r) EXCEPT !.tokens = tokens(rt)],
                          Job("release", r)>>
      BY <1>6, Zenon DEF AnswerTokens
    <2>2. issued' = issued + 1 /\ presented \notin spent /\ lost' = lost
      BY <1>6 DEF AnswerTokens
    <2>3. /\ issued' \in Nat /\ issued <= issued'
          /\ rt \in Nat /\ rt <= issued'
      BY <1>4, <2>1, <2>2
    <2>4. /\ Fresh(T) \in [Keys -> Nat]
          /\ \A k \in Keys : Fresh(T)[k] \in {0, issued'} /\ Fresh(T)[k] <= issued'
      BY <2>2, FreshTyped, FreshIsUsable
    <2>5. /\ tokens(rt) \in [Keys -> Nat]
          /\ \A k \in Keys : tokens(rt)[k] <= issued'
          /\ tokens(rt)["refreshToken"] \in {0, issued', rt}
      BY <1>4, <2>3, <2>4
    <2>6. spent' \subseteq 1..issued' /\ issued' \notin spent'
      BY <1>4, <2>1, <2>2
    <2>7. rt \notin spent' /\ 0 \notin spent'
      BY <1>4, <2>1, <2>2, <2>6
    <2>8. \A k \in Keys : stored'[k] <= issued'
      BY <1>4, <2>1, <2>2, <2>3
    <2>9. Usable(stored["refreshToken"])'
      BY <1>4, <2>1, <2>2, <2>7 DEF Usable
    <2>10. tokens(rt)["refreshToken"] \notin spent'
      BY <2>5, <2>6, <2>7
    <2> DEFINE a == [Job("applyTokens", r) EXCEPT !.tokens = tokens(rt)]
    <2> DEFINE b == Job("release", r)
    <2>11. jobs' = <<a, b>> /\ a.tokens = tokens(rt) /\ b.tokens = NoTokens
      BY <2>1 DEF Job
    <2> HIDE DEF a, b, tokens
    <2> QED
      BY <1>5, <2>3, <2>5, <2>6, <2>8, <2>9, <2>10, <2>11
  <1>7. CASE AnswerFails(r)
    <2>1. PICK S \in {{}, {presented} \ {0}} : spent' = spent \cup S /\ lost' = lost \cup S
      BY <1>7 DEF AnswerFails
    <2>2. /\ issued' = issued /\ stored' = stored
          /\ jobs' = <<Job("forwardError", r), Job("release", r)>>
      BY <1>7 DEF AnswerFails
    <2>3. spent' \subseteq 1..issued' /\ 0 \notin spent'
      <3>1. S \subseteq 1..issued
        BY <1>4, <2>1
      <3> QED
        BY <1>4, <2>1, <2>2, <3>1
    <2>4. Usable(stored["refreshToken"])' /\ Usable(0)'
      BY <1>4, <2>1, <2>2, <2>3 DEF Usable
    <2> QED
      BY <1>4, <1>5, <2>2, <2>3, <2>4 DEF Job, NoTokens
  <1>8. CASE AnswerInvalidGrant(r)
    <2>1. /\ stored' = [stored EXCEPT !["refreshToken"] = 0]
          /\ UNCHANGED <<issued, spent, lost>>
          /\ jobs' = <<Job("forwardError", r), Job("release", r)>>
      BY <1>8 DEF AnswerInvalidGrant, RemoveKey, server
    <2>2. 0 \notin spent' /\ \A k \in Keys : stored'[k] <= issued'
      BY <1>4, <2>1
    <2>3. Usable(stored["refreshToken"])' /\ Usable(0)'
      BY <1>4, <2>1, <2>2 DEF Usable
    <2> QED
      BY <1>4, <1>5, <2>1, <2>2, <2>3 DEF Job, NoTokens
  <1> QED
    BY <1>1, <1>6, <1>7, <1>8

\* Callbacks: what they store came with an answer.
LEMMA MicrotaskRotates ==
    ASSUME TypeOK, RotationInv, Microtask
    PROVE  RotationInv'
  <1>1. PICK r \in Renewals : \/ ApplyTokens(r) \/ Passes(r) \/ RemoveToken(r)
                              \/ Forget(r) \/ Release(r)
    BY DEF Microtask
  <1>2. /\ issued \in Nat /\ spent \subseteq 1..issued /\ 0 \notin spent
        /\ server' = server /\ UNCHANGED <<issued, spent, lost>>
    BY <1>1 DEF TypeOK, RotationInv, Issued, ApplyTokens, Passes, RemoveToken, Forget,
                Release, server
  <1>3. \E do, more : /\ Runs(do, r, more) /\ more \in Seq(Jobs)
                      /\ \A j \in 1..Len(more) : more[j].tokens = NoTokens
    <2>1. ASSUME NEW next \in JobKinds, NEW q \in Renewals, NEW do,
                 Runs(do, r, <<Job(next, q)>>)
          PROVE  \E d, more : /\ Runs(d, r, more) /\ more \in Seq(Jobs)
                              /\ \A j \in 1..Len(more) : more[j].tokens = NoTokens
      <3> DEFINE more == <<Job(next, q)>>
      <3>1. more \in Seq(Jobs) /\ \A j \in 1..Len(more) : more[j].tokens = NoTokens
        BY JobTyped DEF Job
      <3>2. Runs(do, r, more)
        BY <2>1
      <3> HIDE DEF more
      <3> QED
        BY <3>1, <3>2
    <2>2. ASSUME NEW do, Runs(do, r, <<Job("forwardError", r), Job("release", r)>>)
          PROVE  \E d, more : /\ Runs(d, r, more) /\ more \in Seq(Jobs)
                              /\ \A j \in 1..Len(more) : more[j].tokens = NoTokens
      <3> DEFINE more == <<Job("forwardError", r), Job("release", r)>>
      <3>1. Job("forwardError", r) \in Jobs /\ Job("release", r) \in Jobs
        BY JobTyped DEF JobKinds
      <3>2. more \in Seq(Jobs) /\ \A j \in 1..Len(more) : more[j].tokens = NoTokens
        BY <3>1 DEF Job
      <3>3. Runs(do, r, more)
        BY <2>2
      <3> HIDE DEF more
      <3> QED
        BY <3>2, <3>3
    <2>3. ASSUME NEW do, Runs(do, r, <<>>)
          PROVE  \E d, more : /\ Runs(d, r, more) /\ more \in Seq(Jobs)
                              /\ \A j \in 1..Len(more) : more[j].tokens = NoTokens
      <3> DEFINE more == <<>>
      <3>1. more \in Seq(Jobs) /\ 1..Len(more) = {} /\ Runs(do, r, more)
        BY <2>3
      <3> HIDE DEF more
      <3> QED
        BY <3>1
    <2>4. /\ "forward" \in JobKinds /\ "forget" \in JobKinds
          /\ "removeToken" \in JobKinds /\ "reject" \in JobKinds
      BY DEF JobKinds
    <2>5. CASE ApplyTokens(r) \/ Passes(r) \/ RemoveToken(r) \/ Forget(r)
      BY <2>1, <2>2, <2>3, <2>4, <2>5 DEF ApplyTokens, Passes, RemoveToken, Forget
    <2>6. CASE Release(r)
      <3>1. tokenQueue # <<>> => Head(tokenQueue) \in Renewals
        BY DEF TypeOK
      <3>2. \/ Runs("release", r, <<>>)
            \/ tokenQueue # <<>> /\ Runs("release", r, <<Job("reject", Head(tokenQueue))>>)
        BY <2>6 DEF Release
      <3> QED
        BY <2>1, <2>3, <2>4, <3>1, <3>2
    <2> QED
      BY <1>1, <2>5, <2>6
  <1>4. ASSUME NEW i \in 1..Len(jobs')
        PROVE  \/ \E j \in 1..Len(jobs) : jobs'[i] = jobs[j]
               \/ jobs'[i].tokens = NoTokens
    BY <1>3, RunsShape
  <1>5. \A i \in 1..Len(jobs') : /\ \A k \in Keys : jobs'[i].tokens[k] <= issued
                                 /\ Usable(jobs'[i].tokens["refreshToken"])
    BY <1>2, <1>4 DEF RotationInv, Issued, StoredIsUsable, Usable, NoTokens, Keys
  <1>6. /\ \A k \in Keys : stored'[k] <= issued
        /\ Usable(stored'["refreshToken"])
    <2>1. CASE ApplyTokens(r)
      <3>1. stored' = Head(jobs).tokens /\ jobs # <<>>
        BY <2>1 DEF ApplyTokens, SetTokens, Runs
      <3>2. 1 \in 1..Len(jobs) /\ Head(jobs) = jobs[1]
        BY <3>1 DEF TypeOK
      <3> QED
        BY <3>1, <3>2 DEF RotationInv, Issued, StoredIsUsable
    <2>2. CASE RemoveToken(r)
      <3>1. \A k \in Keys : stored'[k] \in {stored[k], 0}
        BY <2>2 DEF RemoveToken, RemoveKey, TypeOK
      <3> QED
        BY <1>2, <3>1 DEF RotationInv, Issued, StoredIsUsable, Usable, Keys
    <2>3. CASE Passes(r) \/ Forget(r) \/ Release(r)
      BY <2>3 DEF Passes, Forget, Release, RotationInv, Issued, StoredIsUsable
    <2> QED
      BY <1>1, <2>1, <2>2, <2>3
  <1>7. presented' \in {presented, stored["refreshToken"], 0}
    BY <1>1 DEF ApplyTokens, Passes, RemoveToken, Forget, Release, Begins, mem
  <1>8. Issued'
    BY <1>2, <1>5, <1>6, <1>7 DEF RotationInv, Issued, Keys, TypeOK
  <1>9. StoredIsUsable'
    BY <1>2, <1>5, <1>6 DEF StoredIsUsable, Usable
  <1>10. NoRefreshTokenReplay'
    <2>1. CASE ApplyTokens(r) \/ Passes(r) \/ RemoveToken(r)
      BY <1>2, <2>1, PresentsUsable DEF ApplyTokens, Passes, RemoveToken, mem
    <2>2. CASE Forget(r)
      <3>1. /\ phase' = [phase EXCEPT ![r] = "done"] /\ UNCHANGED <<executing, presented>>
        BY <2>2 DEF Forget
      <3>2. \A q \in Renewals : phase'[q] = "inFlight" => phase[q] = "inFlight"
        BY <3>1 DEF TypeOK
      <3> QED
        BY <1>2, <3>1, <3>2, PresentsUsable
    <2>3. CASE Release(r)
      <3>1. executing' = NoRenewal \/ presented' = stored["refreshToken"]
        BY <2>3 DEF Release, Begins
      <3> QED
        BY <1>2, <3>1, PresentsUsable
    <2> QED
      BY <1>1, <2>1, <2>2, <2>3
  <1> QED
    BY <1>8, <1>9, <1>10 DEF RotationInv

\* The page is loaded anew, when an answer may have been lost.
LEMMA ReloadRotates ==
    ASSUME TypeOK, RotationInv, Reload
    PROVE  RotationInv'
  <1>1. PICK S \in {{}, {presented} \ {0}} : spent' = spent \cup S /\ lost' = lost \cup S
    BY DEF Reload
  <1>2. /\ executing' = NoRenewal /\ presented' = 0 /\ jobs = <<>>
        /\ UNCHANGED <<stored, jobs, issued>> /\ Len(jobs') = 0
    BY DEF Reload, Macrotask
  <1>3. Issued'
    <2>1. S \subseteq 1..issued
      BY <1>1 DEF RotationInv, Issued, TypeOK
    <2>2. spent' \subseteq 1..issued' /\ presented' <= issued'
      BY <1>1, <1>2, <2>1 DEF RotationInv, Issued, TypeOK
    <2> QED
      BY <1>2, <2>2 DEF RotationInv, Issued
  <1>4. StoredIsUsable'
    BY <1>1, <1>2 DEF RotationInv, StoredIsUsable, Usable
  <1>5. NoRefreshTokenReplay'
    BY <1>2 DEF NoRefreshTokenReplay
  <1> QED
    BY <1>3, <1>4, <1>5 DEF RotationInv

\* RotationInv is inductive relative to the types.
LEMMA NextRotates == TypeOK /\ RotationInv /\ [Next]_vars => RotationInv'
  <1> SUFFICES ASSUME TypeOK, RotationInv, [Next]_vars PROVE RotationInv'
    OBVIOUS
  <1>1. CASE UNCHANGED vars
    BY <1>1 DEF vars, mem, server, RotationInv, Issued, StoredIsUsable, Usable,
                NoRefreshTokenReplay
  <1>2. CASE Next
    BY <1>2, AppRotates, TimerRotates, NetworkRotates, MicrotaskRotates,
       ReloadRotates DEF Next
  <1> QED
    BY <1>1, <1>2

\* Every reachable state satisfies RotationInv.
THEOREM RotationInvariant == Spec => []RotationInv
  <1>1. Init => RotationInv
    <2> SUFFICES ASSUME Init PROVE RotationInv
      OBVIOUS
    <2>1. Len(jobs) = 0
      BY DEF Init
    <2> QED
      BY <2>1 DEF Init, RotationInv, Issued, StoredIsUsable, Usable, NoTokens,
                  NoRefreshTokenReplay
  <1> QED
    BY <1>1, NextRotates, TypeCorrect, PTL DEF Spec

\* renewTokensWithRefresh() and the token queue: a refresh token that the server
\* has replaced is presented again only when the replacement was lost.
THEOREM NoReplay == Spec => []NoRefreshTokenReplay
  <1>1. RotationInv => NoRefreshTokenReplay
    BY DEF RotationInv
  <1> QED
    BY <1>1, RotationInvariant, PTL
===============================================================================
