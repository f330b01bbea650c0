------------------------------- MODULE MCQueues -------------------------------
(* The instance that TLC checks of PromiseQueue, and of TokenManager for the    *)
(* end of the renewals that wait in such a queue.  They share no state, as      *)
(* TokenManager has the queue with the methods that are pushed there, so a      *)
(* behaviour is one of either; `part` says of which.                            *)
EXTENDS MCPromiseQueue

CONSTANTS First, Second, \* the renewals
          NoRenewal,
          MaxVersion

VARIABLES part, stored, flagged, timers, renewPromise, started, asked, tokenQueue,
          executing, presented, jobs, issued, spent, lost, view,
          renewals \* TokenManager has phase for it

TM == INSTANCE TokenManager
          WITH Renewals <- {First, Second}, phase <- renewals,
               Answers <- {{"idToken", "accessToken", "refreshToken"}},
               AutoRenew <- TRUE, AutoRemove <- TRUE, Throttles <- FALSE

tokenVars == <<stored, flagged, timers, renewPromise, started, renewals, asked,
               tokenQueue, executing, presented, jobs, issued, spent, lost, view>>
all == <<part, vars, tokenVars>>

Queueing == part = "queue" /\ UNCHANGED <<part, tokenVars>>
Renewing == part = "renewals" /\ UNCHANGED <<part, vars>>

MCInit == part \in {"queue", "renewals"} /\ Init /\ TM!Init

MCNext == \/ Queueing /\ Next
          \/ Renewing /\ TM!Next

MCSpec == /\ MCInit /\ [][MCNext]_all
          /\ WF_vars(Queueing /\ (RunReturns \/ \E c \in Calls : Engine(c)))
          /\ WF_tokenVars(Renewing /\ TM!Microtask)
          /\ WF_tokenVars(Renewing /\ TM!Network)

\* The property of TokenManager, see there.
RenewalsEnd == TM!RenewalsEnd
===============================================================================
