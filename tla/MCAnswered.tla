------------------------------ MODULE MCAnswered ------------------------------
(* The instance that TLC checks of the modules about calls that go on for some  *)
(* time and must end: AuthStateManager, TokenFlows and AuthnPoll, and for what  *)
(* must follow a start() ServiceManager (MCTokens has the rest of it).  They    *)
(* share no state, so a behaviour is one of any; `part` says of which.          *)
EXTENDS AuthStateManager

CONSTANTS First, Second, \* the flows
          MaxMessages,
          Polls, MaxBackoffs, MaxLoads,
          Tabs, MaxCalls

\* What the proofs take for granted of the bounds.
ASSUME BoundsAssumption == {MaxMessages, MaxBackoffs, MaxLoads} \subseteq Nat

VARIABLES part,
          flow, tokenLine,
          isPolling, poll, hidden, pollDelay,
          \* of ServiceManager: made, and those of its name
          callsMade,
          options, running, started, watching, elector, ears, calls, jobs, overlap

TF == INSTANCE TokenFlows WITH Flows <- {First, Second}, line <- tokenLine
AP == INSTANCE AuthnPoll

\* A leader is needed, and a leader is not needed.
BothOptions == {{"autoRenew", "syncStorage", "renewOnTabActivation"}, {"autoRemove"}}
SM == INSTANCE ServiceManager WITH OptionSets <- BothOptions, made <- callsMade

flowVars == <<flow, tokenLine>>
pollVars == <<isPolling, poll, hidden, pollDelay>>
serviceVars == <<options, running, started, watching, elector, ears, calls, jobs,
                 callsMade, overlap>>
all == <<part, vars, flowVars, pollVars, serviceVars>>

Evaluating == part = "states" /\ UNCHANGED <<part, flowVars, pollVars, serviceVars>>
Flowing == part = "flows" /\ UNCHANGED <<part, vars, pollVars, serviceVars>>
Polling == part = "polls" /\ UNCHANGED <<part, vars, flowVars, serviceVars>>
Serving == part = "services" /\ UNCHANGED <<part, vars, flowVars, pollVars>>

\* The flows differ in nothing but their kinds, so one order of two is enough.
EveryPair == (TF!Kinds \X TF!Kinds) \ {<<"popup", "frame">>, <<"idpPopup", "frame">>,
                                       <<"idpPopup", "popup">>}

\* One part starts anywhere its module does, the others at one initial state.
MCInit == /\ part \in {"states", "flows", "polls", "services"}
          /\ Init
          /\ TF!Init /\ <<flow[First].kind, flow[Second].kind>> \in
                           IF part = "flows" THEN EveryPair ELSE {<<"frame", "frame">>}
          /\ AP!Init /\ (part # "polls" => ~hidden /\ ~pollDelay)
          /\ SM!Init /\ (part # "services" => options = {"autoRemove"})

MCNext == \/ Evaluating /\ Next
          \/ Flowing /\ TF!Next
          \/ Polling /\ AP!Next
          \/ Serving /\ SM!Next

MCSpec == /\ MCInit /\ [][MCNext]_all
          /\ WF_vars(Evaluating /\ Progress)
          /\ WF_flowVars(Flowing /\ TF!Progress)
          /\ \A p \in Polls : WF_pollVars(Polling /\ AP!Step(p))
          /\ WF_serviceVars(Serving /\ SM!Progress)

\* The modules have values of the types they declare (ServiceManager: MCTokens).
Types == TypeOK /\ TF!TypeOK /\ AP!TypeOK

\* The properties of the modules, see there.
FlowsEnd == TF!FlowsEnd
NoLateExchange == TF!NoLateExchange
StoppedPollsEnd == AP!StoppedPollsEnd
SomebodyRenews == SM!SomebodyRenews
===============================================================================
