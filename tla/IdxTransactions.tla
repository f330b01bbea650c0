--------------------------- MODULE IdxTransactions ---------------------------
(* The calls of authClient.idx over the saved transaction: run() and what calls *)
(* it (lib/idx/run.ts, startTransaction.ts, proceed.ts, cancel.ts), interact,   *)
(* introspect, and the storages of IdxTransactionManager.  Any calls of a tab   *)
(* may overlap, and tabs share the local storage, where an email link opened in *)
(* another tab finds the transaction by its state.                              *)
(*                                                                              *)
(* An interaction (1 ..) stands for its handle, its state and its code verifier; *)
(* 0 is none.  What one step of remediate() does with a response is in          *)
(* Remediation; here a run makes the requests of its remediations as one.       *)
EXTENDS Naturals, FiniteSets

CONSTANTS Tabs, Calls,
          MaxInteractions, \* bound: interactions the server begins
          MaxRuns          \* bound: calls of the application

VARIABLES session,  \* per tab, the interaction whose meta is in sessionStorage
          response, \* per tab, the interaction of the response saved in memory
          shared,   \* interactions with meta in the shared storage
          begun,    \* interactions the server has begun
          run,      \* per call, its state
          runs,     \* calls made so far
          gone      \* history: interactions that ended when no other call or tab
                    \* had them

storages == <<session, response, shared>>
idxVars == <<session, response, shared, begun, run, runs, gone>>

Interactions == 0 .. MaxInteractions
NoRun == [stage |-> "none", tab |-> CHOOSE t \in Tabs : TRUE, op |-> "run",
          meta |-> 0, code |-> 0]

TypeOK == /\ session \in [Tabs -> Interactions]
          /\ response \in [Tabs -> Interactions]
          /\ shared \subseteq 1 .. MaxInteractions
          /\ begun \in Interactions
          /\ run \in [Calls ->
               [stage : {"none", "interact", "introspect", "remediate", "exchange"},
                tab : Tabs,
                op : {"start", "run", "cancel"},
                meta : Interactions,  \* `meta` of the run: what it read or began
                code : Interactions]] \* the interaction of its idxResponse
          /\ runs \in 0 .. MaxRuns
          /\ gone \subseteq 1 .. MaxInteractions

Init == /\ session = [t \in Tabs |-> 0]
        /\ response = [t \in Tabs |-> 0]
        /\ shared = {}
        /\ begun = 0
        /\ run = [c \in Calls |-> NoRun]
        /\ runs = 0
        /\ gone = {}

-------------------------------------------------------------------------------
\* getSavedTransactionMeta(), with { state } of interaction i or without (i = 0).
\* What load() falls back to must have that state.
Saved(t, i) == IF i \in shared \/ i \in {0, session[t]} THEN
                  IF i = 0 THEN session[t] ELSE i
               ELSE 0

\* Mutant of Clear: clearIdxResponse() is not called.
ClearMetaOnly(t, keepShared) ==
    /\ session' = [session EXCEPT ![t] = 0]
    /\ shared' = IF keepShared THEN shared ELSE shared \ {session[t]}
    /\ UNCHANGED response

\* transactionManager.clear().  The shared entry that goes is the one of the meta
\* in the session.
Clear(t, keepShared) ==
    /\ session' = [session EXCEPT ![t] = 0]
    /\ shared' = IF keepShared THEN shared ELSE shared \ {session[t]}
    /\ response' = [response EXCEPT ![t] = 0]

\* saveTransactionMeta(), and saveIdxResponse() if asked.
Save(t, meta, code, saveResponse) ==
    /\ session' = [session EXCEPT ![t] = meta]
    /\ shared' = shared \cup {meta}
    /\ response' = [response EXCEPT ![t] = IF saveResponse THEN code ELSE @]

Under(c, stage, t, op, meta, code) ==
    run' = [run EXCEPT ![c] = [stage |-> stage, tab |-> t, op |-> op,
                               meta |-> meta, code |-> code]]
Ends(c) == run' = [run EXCEPT ![c] = NoRun]

\* Mutant of Introspect: the response saved for another handle is used.
IntrospectAny(c, t, op, i) ==
    IF response[t] # 0 THEN Under(c, "remediate", t, op, i, response[t])
    ELSE Under(c, "introspect", t, op, i, 0)

\* introspect(): the saved response is used if it is of that handle.
Introspect(c, t, op, i) ==
    IF response[t] = i THEN Under(c, "remediate", t, op, i, i)
    ELSE Under(c, "introspect", t, op, i, 0)

-------------------------------------------------------------------------------
NewRun(c) == run[c].stage = "none" /\ runs < MaxRuns /\ runs' = runs + 1

\* startTransaction().
StartTransaction(c, t) ==
    /\ NewRun(c)
    /\ Clear(t, FALSE)
    /\ Under(c, "interact", t, "start", 0, 0)
    /\ UNCHANGED <<begun, gone>>

\* authenticate() and the other flows: resume the saved transaction; or begin one
\* after clearing what is saved, if it is of another flow or configuration.
Authenticate(c, t) ==
    /\ NewRun(c)
    /\ \/ /\ session[t] # 0
          /\ Introspect(c, t, "run", session[t])
          /\ UNCHANGED storages
       \/ /\ Clear(t, FALSE)
          /\ Under(c, "interact", t, "run", 0, 0)
    /\ UNCHANGED <<begun, gone>>

\* proceed(), also of poll() and, with the state of the link, of
\* handleEmailVerifyCallback().  It throws when nothing is saved.
Proceed(c, t, state) ==
    /\ NewRun(c)
    /\ Saved(t, state) # 0
    /\ Introspect(c, t, "run", Saved(t, state))
    /\ UNCHANGED <<storages, begun, gone>>

\* cancel().
Cancel(c, t) ==
    /\ NewRun(c)
    /\ session[t] # 0
    /\ Introspect(c, t, "cancel", session[t])
    /\ UNCHANGED <<storages, begun, gone>>

\* A request rejects, and run() with it: what is saved stays.
Rejects(c) == /\ run[c].stage \in {"interact", "introspect", "remediate"}
              /\ Ends(c)
              /\ UNCHANGED <<storages, begun, runs, gone>>

\* interact() is answered, and saves the meta with the handle.
Interacted(c) ==
    /\ run[c].stage = "interact"
    /\ begun < MaxInteractions
    /\ begun' = begun + 1
    /\ Save(run[c].tab, begun', 0, FALSE)
    /\ Under(c, "introspect", run[c].tab, run[c].op, begun', 0)
    /\ UNCHANGED <<runs, gone>>

\* introspect() is answered.
Introspected(c) ==
    /\ run[c].stage = "introspect"
    /\ run' = [run EXCEPT ![c].stage = "remediate", ![c].code = run[c].meta]
    /\ UNCHANGED <<storages, begun, runs, gone>>

\* Whether interaction i is in no other tab and no other call than c.
Only(c, i) == /\ session[run[c].tab] = i
              /\ \A u \in Tabs \ {run[c].tab} : session[u] # i /\ response[u] # i
              /\ \A d \in Calls \ {c} : run[d].meta # i

\* The run is over and clears the transaction.
EndsClearing(c, keepShared) ==
    /\ Clear(run[c].tab, keepShared)
    /\ Ends(c)
    /\ gone' = IF Only(c, run[c].meta) /\ ~keepShared THEN gone \cup {run[c].meta} ELSE gone

\* The answers of remediate(), or of introspect() when start() does not remediate.
\* With nothing more to do, finalizeData() and the end of run() save or clear.
\* A pending step, or an error of it, or a terminal response with actions or errors.
StaysPending(c) ==
    /\ run[c].stage = "remediate"
    /\ \E saveResponse \in BOOLEAN :
          Save(run[c].tab, run[c].meta, run[c].code, saveResponse)
    /\ Ends(c)
    /\ UNCHANGED <<begun, runs, gone>>

\* A terminal success, as of an email link: the tab that waits for it continues.
EndsHere(c) == /\ run[c].stage = "remediate"
               /\ EndsClearing(c, TRUE)
               /\ UNCHANGED <<begun, runs>>

Canceled(c) == /\ run[c].stage = "remediate" /\ run[c].op = "cancel"
               /\ EndsClearing(c, FALSE)
               /\ UNCHANGED <<begun, runs>>

\* An interaction code.  start() leaves the exchange to the application, and
\* saves the response with the code; the others exchange it.
GetsCode(c) ==
    /\ run[c].stage = "remediate"
    /\ IF run[c].op = "start"
       THEN Save(run[c].tab, run[c].meta, run[c].code, TRUE) /\ Ends(c)
       ELSE run' = [run EXCEPT ![c].stage = "exchange"] /\ UNCHANGED storages
    /\ UNCHANGED <<begun, runs, gone>>

\* exchangeCodeForTokens() clears the transaction whether it succeeds or not; with
\* tokens, run() clears it again.
Exchanged(c) == /\ run[c].stage = "exchange"
                /\ EndsClearing(c, FALSE)
                /\ UNCHANGED <<begun, runs>>

\* The page of the tab is reloaded: the session storage stays.
Reload(t) == /\ \E c \in Calls : run[c].stage # "none" /\ run[c].tab = t
             /\ run' = [c \in Calls |-> IF run[c].tab = t THEN NoRun ELSE run[c]]
             /\ response' = [response EXCEPT ![t] = 0]
             /\ UNCHANGED <<session, shared, begun, runs, gone>>

Next ==
    \/ \E c \in Calls :
          \/ \E t \in Tabs : \/ StartTransaction(c, t) \/ Authenticate(c, t)
                             \/ \E i \in Interactions : Proceed(c, t, i)
                             \/ Cancel(c, t)
          \/ Rejects(c) \/ Interacted(c) \/ Introspected(c)
          \/ StaysPending(c) \/ EndsHere(c) \/ Canceled(c)
          \/ GetsCode(c) \/ Exchanged(c)
    \/ \E t \in Tabs : Reload(t)

Spec == Init /\ [][Next]_idxVars

-------------------------------------------------------------------------------
\* An interaction code is exchanged with the code verifier of the interaction it
\* was issued for, also when calls overlap, the saved response is of another
\* interaction, or the transaction is continued in another tab.
CodeWithItsVerifier ==
    \A c \in Calls : run[c].stage = "exchange" => run[c].code = run[c].meta

\* An interaction that ended with tokens or was canceled, while no other call or
\* tab had it, is not found again in any storage: no later call resumes it.
FinishedLeavesNothing ==
    \A i \in gone : /\ i \notin shared
                    /\ \A t \in Tabs : session[t] # i /\ response[t] # i
===============================================================================
