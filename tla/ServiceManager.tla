---------------------------- MODULE ServiceManager ----------------------------
(* start() and stop() of an OktaAuth object in each of several tabs            *)
(* (lib/core/mixin.ts), over lib/core/ServiceManager/browser.ts and the start  *)
(* and stop of the services of lib/services: which services run in which tab,  *)
(* and which tab renews tokens.  What the services then do is in TokenSync.    *)
(*                                                                             *)
(* A call runs from one await to the next without interruption.  An await of a *)
(* promise that is settled goes on in a microtask, first in first out (`jobs`); *)
(* closing a channel and announcing the death of an elector take longer.  The  *)
(* broadcast-channel library is modelled from its use: an elector is a         *)
(* candidate until it becomes the leader, in a macrotask; closing its channel  *)
(* or die() demote it at once; two leaders do not coexist.                     *)
EXTENDS Naturals, SequencesExt, FiniteSetsExt

CONSTANTS Tabs,
          MaxCalls,  \* bound: calls of start() and stop() of all tabs together
          OptionSets \* the ServiceManagerOptions tried, each the set of those on

\* What the proofs take for granted (MCTokens assumes it).
ServicesAssumption ==
    /\ MaxCalls \in Nat
    /\ OptionSets \subseteq SUBSET {"autoRenew", "autoRemove", "syncStorage",
                                    "renewOnTabActivation"}

\* The order of knownServices.
Services == <<"autoRenew", "syncStorage", "leaderElection",
              "renewOnTabActivation">>

VARIABLES options,   \* the options of the application, the same in each tab
          running,   \* per tab, the services whose `started` is set
          started,   \* per tab, ServiceManager.started
          watching,  \* per tab, whether tokenManager is started
          elector,   \* per tab, the state of this.elector
          ears,      \* per tab, the open sync channels with a message handler
          calls,     \* per tab, the calls made: what, and where it goes on
          jobs,      \* per tab, the microtasks: indices into calls
          made,      \* calls of start() and stop() so far
          overlap    \* history: per tab, a call overlapped another, or
                     \* leadership came during a stop()

vars == <<options, running, started, watching, elector, ears, calls, jobs, made,
          overlap>>

(* A call goes on at the service of that place in knownServices (1 .. 4), at   *)
(* the end of the loop over them (5), or at one of                             *)
Over == 0     \* it does not go on
Returned == 6 \* after startServices() or stopServices()
Watch == 7    \* tokenManager.start(), after serviceManager.start()
Closing == 8  \* after the close of the sync channel (SyncStorageService.stop)
Dying == 9    \* after the death of the elector (LeaderElectionService.stop)
Leaving == 10 \* after the close of the election channel
Calls == [op : {"start", "stop", "lead"}, place : 0 .. 10]

TypeOK == /\ options \in OptionSets
          /\ running \in [Tabs -> SUBSET {Services[i] : i \in 1 .. 4}]
          /\ started \in [Tabs -> BOOLEAN]
          /\ watching \in [Tabs -> BOOLEAN]
          /\ elector \in [Tabs -> {"none", "candidate", "leader", "dead"}]
          /\ ears \in [Tabs -> SUBSET {"current", "lost"}]
          /\ calls \in [Tabs -> Seq(Calls)]
          /\ jobs \in [Tabs -> Seq(Nat)]
          /\ \A t \in Tabs : jobs[t] \in Seq(DOMAIN calls[t])
          /\ made \in 0 .. MaxCalls
          /\ overlap \in [Tabs -> BOOLEAN]

Init == /\ options \in OptionSets
        /\ running = [t \in Tabs |-> {}]
        /\ started = [t \in Tabs |-> FALSE]
        /\ watching = [t \in Tabs |-> FALSE]
        /\ elector = [t \in Tabs |-> "none"]
        /\ ears = [t \in Tabs |-> {}]
        /\ calls = [t \in Tabs |-> <<>>]
        /\ jobs = [t \in Tabs |-> <<>>]
        /\ made = 0
        /\ overlap = [t \in Tabs |-> FALSE]

Leads(t) == elector[t] = "leader"
Underway(t, ops) == \E c \in DOMAIN calls[t] :
                        calls[t][c].op \in ops /\ calls[t][c].place # Over
Idle(t) == \A c \in DOMAIN calls[t] : calls[t][c].place = Over

-------------------------------------------------------------------------------
\* canStart() of each service.
CanStart(t, s) ==
    /\ s \notin running[t]
    /\ CASE s = "autoRenew" -> options \cap {"autoRenew", "autoRemove"} # {}
         [] s = "syncStorage" -> s \in options
         [] s = "renewOnTabActivation" -> {s, "autoRenew"} \subseteq options
         [] OTHER -> TRUE

RequiresLeadership(s) == s = "autoRenew" /\ "syncStorage" \in options

\* Mutant of IsLeaderRequired: the services that run are asked.
IsLeaderRequiredByRunning(t) == \E s \in running[t] : RequiresLeadership(s)

IsLeaderRequired(t) == \E i \in 1 .. 4 : /\ CanStart(t, Services[i])
                                         /\ RequiresLeadership(Services[i])

\* Mutant of CanStartService: leadership is not asked for.
CanStartAnywhere(t, s) == /\ CanStart(t, s)
                          /\ s = "leaderElection" => IsLeaderRequired(t)

CanStartService(t, s) == /\ CanStart(t, s)
                         /\ IF s = "leaderElection" THEN IsLeaderRequired(t)
                            ELSE RequiresLeadership(s) => Leads(t)

\* Call c of the tab goes on at `place`, in a later microtask or macrotask; the
\* microtask it was in, if any, was the first one.
GoOn(t, op, c, place) ==
    LET new == c \notin DOMAIN calls[t]
        rest == IF jobs[t] # <<>> /\ Head(jobs[t]) = c THEN Tail(jobs[t]) ELSE jobs[t] IN
    /\ calls' = [calls EXCEPT ![t] = IF new THEN Append(@, [op |-> op, place |-> place])
                                     ELSE [@ EXCEPT ![c].place = place]]
    /\ jobs' = [jobs EXCEPT ![t] = IF place \in 1 .. Watch THEN Append(rest, c)
                                                           ELSE rest]

\* startServices(), from the service at `place` on: start the next one that can
\* start, and await that.
StartServices(t, op, c, place) ==
    LET ready == {i \in place .. 4 : CanStartService(t, Services[i])}
        s == Services[Min(ready)]
    IN IF ready = {}
       THEN /\ GoOn(t, op, c, IF op = "start" THEN Returned ELSE Over)
            /\ UNCHANGED <<running, elector, ears>>
       ELSE /\ GoOn(t, op, c, Min(ready) + 1)
            /\ running' = [running EXCEPT ![t] = @ \cup {s}]
            /\ elector' = [elector EXCEPT ![t] =
                              IF s = "leaderElection" THEN "candidate" ELSE @]
            /\ ears' = [ears EXCEPT ![t] =
                           IF s = "syncStorage" THEN @ \cup {"current"} ELSE @]

\* stopServices(), from the service at `place` on: stop it, and await that.
StopServices(t, c, place) ==
    LET s == IF place = 5 THEN "none" ELSE Services[place] IN
    CASE s = "syncStorage" /\ s \in running[t] ->
           /\ GoOn(t, "stop", c, Closing)
           /\ ears' = [ears EXCEPT ![t] = @ \ {"current"}]
           /\ UNCHANGED <<running, elector>>
      [] s = "leaderElection" /\ s \in running[t] ->
           /\ GoOn(t, "stop", c, IF elector[t] = "none" THEN Leaving ELSE Dying)
           /\ elector' = [elector EXCEPT ![t] = IF @ = "none" THEN @ ELSE "dead"]
           /\ UNCHANGED <<running, ears>>
      [] OTHER ->
           /\ GoOn(t, "stop", c, place + 1)
           /\ running' = [running EXCEPT ![t] = @ \ {s}]
           /\ UNCHANGED <<elector, ears>>

-------------------------------------------------------------------------------
\* The application calls start(), alone or while other calls are under way.
Start(t) == /\ made < MaxCalls
            /\ IF started[t] THEN /\ GoOn(t, "start", Len(calls[t]) + 1, Watch)
                                  /\ UNCHANGED <<running, elector, ears>>
               ELSE StartServices(t, "start", Len(calls[t]) + 1, 1)
            /\ made' = made + 1
            /\ overlap' = [overlap EXCEPT ![t] = @ \/ Underway(t, {"start", "stop"})]
            /\ UNCHANGED <<options, started, watching>>

\* Mutant of Stop: the token manager is not stopped.
StopServicesOnly(t) == /\ made < MaxCalls
                       /\ StopServices(t, Len(calls[t]) + 1, 1)
                       /\ made' = made + 1
                       /\ overlap' = [overlap EXCEPT ![t] = @ \/ ~Idle(t)]
                       /\ UNCHANGED <<options, started, watching>>

\* The application calls stop().
Stop(t) == /\ made < MaxCalls
           /\ watching' = [watching EXCEPT ![t] = FALSE]
           /\ StopServices(t, Len(calls[t]) + 1, 1)
           /\ made' = made + 1
           /\ overlap' = [overlap EXCEPT ![t] = @ \/ ~Idle(t)]
           /\ UNCHANGED <<options, started>>

\* The next microtask of the tab: a call goes on after an await.
Continue(t) ==
    /\ jobs[t] # <<>>
    /\ LET c == Head(jobs[t])
           op == calls[t][c].op
           place == calls[t][c].place
       IN CASE place <= 5 /\ op = "stop" ->
                 StopServices(t, c, place) /\ UNCHANGED <<started, watching>>
            [] place = 1 /\ op = "lead" /\ ~started[t] -> \* onLeader() does nothing
                 /\ GoOn(t, op, c, Over)
                 /\ UNCHANGED <<running, elector, ears, started, watching>>
            [] place <= 5 /\ op # "stop" /\ (op = "lead" /\ place = 1 => started[t]) ->
                 StartServices(t, op, c, place) /\ UNCHANGED <<started, watching>>
            [] place = Returned ->
                 /\ started' = [started EXCEPT ![t] = op = "start"]
                 /\ GoOn(t, op, c, IF op = "start" THEN Watch ELSE Over)
                 /\ UNCHANGED <<running, elector, ears, watching>>
            [] place = Watch ->
                 /\ watching' = [watching EXCEPT ![t] = TRUE]
                 /\ GoOn(t, op, c, Over)
                 /\ UNCHANGED <<running, elector, ears, started>>
    /\ UNCHANGED <<options, made, overlap>>

\* A channel is closed, or the death of the elector announced: that stop() goes
\* on in its service.
Closed(t, c) ==
    /\ jobs[t] = <<>>
    /\ calls[t][c].place >= Closing
    /\ LET place == calls[t][c].place IN
       CASE place = Closing ->
              /\ running' = [running EXCEPT ![t] = @ \ {"syncStorage"}]
              /\ ears' = [ears EXCEPT ![t] = IF "current" \in @ THEN {"lost"} ELSE @]
              /\ GoOn(t, "stop", c, 3)
              /\ UNCHANGED elector
         [] place = Dying ->
              /\ elector' = [elector EXCEPT ![t] = "none"]
              /\ GoOn(t, "stop", c, IF "leaderElection" \in running[t] THEN Leaving
                                    ELSE 4)
              /\ UNCHANGED <<running, ears>>
         [] place = Leaving ->
              /\ running' = [running EXCEPT ![t] = @ \ {"leaderElection"}]
              /\ GoOn(t, "stop", c, 4)
              /\ UNCHANGED <<elector, ears>>
    /\ UNCHANGED <<options, started, watching, made, overlap>>

\* awaitLeadership() is answered: LeaderElectionService.onLeader will run.
GainsLeadership(t) ==
    /\ jobs[t] = <<>>
    /\ elector[t] = "candidate"
    /\ \A u \in Tabs : ~Leads(u)
    /\ elector' = [elector EXCEPT ![t] = "leader"]
    /\ GoOn(t, "lead", Len(calls[t]) + 1, 1)
    /\ overlap' = [overlap EXCEPT ![t] = @ \/ Underway(t, {"stop"})]
    /\ UNCHANGED <<options, running, started, watching, ears, made>>

\* The page is closed or reloaded: everything in it is gone.
Unload(t) == /\ calls[t] # <<>>
             /\ running' = [running EXCEPT ![t] = {}]
             /\ started' = [started EXCEPT ![t] = FALSE]
             /\ watching' = [watching EXCEPT ![t] = FALSE]
             /\ elector' = [elector EXCEPT ![t] = "none"]
             /\ ears' = [ears EXCEPT ![t] = {}]
             /\ calls' = [calls EXCEPT ![t] = <<>>]
             /\ jobs' = [jobs EXCEPT ![t] = <<>>]
             /\ overlap' = [overlap EXCEPT ![t] = FALSE]
             /\ UNCHANGED <<options, made>>

Next == \E t \in Tabs : \/ Start(t) \/ Stop(t)
                        \/ Continue(t)
                        \/ \E c \in DOMAIN calls[t] : Closed(t, c)
                        \/ GainsLeadership(t)
                        \/ Unload(t)

Spec == Init /\ [][Next]_vars

\* Microtasks run, channels close, and a leader is found while there is a
\* candidate; nothing makes the application call or the user close a tab.
Progress == \E t \in Tabs : \/ Continue(t)
                            \/ \E c \in DOMAIN calls[t] : Closed(t, c)
                            \/ GainsLeadership(t)
FairSpec == Spec /\ WF_vars(Progress)

-------------------------------------------------------------------------------
\* The last call of the application in this page.
LastCall(t) == SelectLastInSeq(calls[t], LAMBDA c : c.op # "lead")

\* With syncStorage, the tokens are renewed on expiry in the leading tab only
\* (AutoRenewService.requiresLeadership): an AutoRenewService runs there, or in a
\* tab whose calls overlapped.  stop() ends the service before it gives up the
\* leadership, and nothing starts it in between.
OnlyLeaderRenews ==
    "syncStorage" \in options =>
        \A t \in Tabs : "autoRenew" \in running[t] => Leads(t) \/ overlap[t]

\* CHANGELOG.md: start() and stop() have started or stopped the services when
\* they resolve.  When calls do not overlap, the last one decides what runs,
\* on its own and not through what earlier ones left half done.
LastCallDecides ==
    \A t \in Tabs : Idle(t) /\ calls[t] # <<>> /\ ~overlap[t] =>
        LET last == LastCall(t) IN
        IF last # 0 /\ calls[t][last].op = "start"
        THEN /\ started[t] /\ watching[t]
             /\ \A i \in 1 .. 4 : ~CanStartService(t, Services[i])
             /\ "current" \in ears[t] <=> "syncStorage" \in options
        ELSE /\ ~started[t] /\ ~watching[t]
             /\ running[t] = {} /\ ears[t] = {} /\ elector[t] = "none"

\* A started tab does not stay without a tab that renews, whoever stops, closes
\* or takes over, as long as no tab mixes up its calls.
SomebodyRenews ==
    \A t \in Tabs :
        started[t] ~> \/ ~started[t]
                      \/ \E u \in Tabs : "autoRenew" \in running[u] \/ overlap[u]
=============================================================================
