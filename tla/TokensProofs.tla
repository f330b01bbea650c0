----------------------------- MODULE TokensProofs -----------------------------
(* What is proved of TokenManager and of ServiceManager holds of MCTokens, which *)
(* runs one of the two: a step of it is a step of one and leaves the variables   *)
(* of the other alone.                                                           *)
EXTENDS MCTokens, TokenManagerProofs

SP == INSTANCE ServiceManagerProofs
         WITH OptionSets <- BothOptions, started <- serving, jobs <- microtasks

\* Every behaviour of MCTokens is one of TokenManager.
LEMMA IsOne == MCSpec => Spec
<1>1. MCInit => Init  BY DEF MCInit
<1>2. [MCNext]_all => [Next]_vars
  BY DEF MCNext, all
<1>q. QED  BY <1>1, <1>2, PTL DEF MCSpec, Spec

\* A step of Services is a step of SP, its other instance.
LEMMA SameServices == Services!Next => SP!Next
BY DEF Services!Next, SP!Next, Services!Start, SP!Start, Services!Stop, SP!Stop,
       Services!Continue, SP!Continue, Services!Closed, SP!Closed,
       Services!GainsLeadership, SP!GainsLeadership, Services!Unload, SP!Unload,
       Services!StartServices, SP!StartServices,
       Services!StopServices, SP!StopServices, Services!GoOn, SP!GoOn,
       Services!CanStartService, SP!CanStartService, Services!CanStart, SP!CanStart,
       Services!IsLeaderRequired, SP!IsLeaderRequired,
       Services!RequiresLeadership, SP!RequiresLeadership,
       Services!Services, SP!Services, Services!Underway, SP!Underway,
       Services!Idle, SP!Idle, Services!Leads, SP!Leads, Services!Over, SP!Over,
       Services!Returned, SP!Returned, Services!Watch, SP!Watch,
       Services!Closing, SP!Closing, Services!Dying, SP!Dying,
       Services!Leaving, SP!Leaving, Services!Min, SP!Min

\* Every behaviour of MCTokens is one of ServiceManager.
LEMMA IsServices == MCSpec => SP!Spec
<1>1. MCInit => SP!Init
  BY DEF MCInit, Services!Init, SP!Init
<1>2. [MCNext]_all => [SP!Next]_SP!vars
  BY SameServices DEF MCNext, all, serviceVars, SP!vars
<1>q. QED  BY <1>1, <1>2, PTL DEF MCSpec, SP!Spec

\* What the proofs of ServiceManager take for granted is assumed here.
LEMMA CallsAssumed == SP!ServicesAssumption
BY CallsAssumption DEF Services!ServicesAssumption, SP!ServicesAssumption

\* Every variable keeps its type.
THEOREM TypesCorrect == MCSpec => []Types
<1>1. Spec => []TypeOK  BY TypeCorrect
<1>2. SP!Spec => []SP!TypeOK  BY CallsAssumed, SP!TypeCorrect
<1>3. SP!TypeOK => Services!TypeOK
  BY DEF Services!TypeOK, SP!TypeOK, Services!Services, SP!Services,
         Services!Calls, SP!Calls
<1>4. TypeOK /\ Services!TypeOK => Types  BY DEF Types
<1>q. QED  BY <1>1, <1>2, <1>3, <1>4, IsOne, IsServices, PTL

\* With syncStorage an AutoRenewService runs in the leading tab, or in one whose
\* calls overlapped (AutoRenewService.requiresLeadership).
THEOREM LeaderRenews == MCSpec => []OnlyLeaderRenews
<1>1. SP!Spec => []SP!OnlyLeaderRenews  BY CallsAssumed, SP!LeaderRenews
<1>2. SP!OnlyLeaderRenews => OnlyLeaderRenews
  BY DEF OnlyLeaderRenews, Services!OnlyLeaderRenews, SP!OnlyLeaderRenews,
         Services!Leads, SP!Leads
<1>q. QED  BY <1>1, <1>2, IsServices, PTL

\* When calls do not overlap, the last one decides what runs: after a start() that
\* is all that can, after a stop() it is nothing (start, stop of lib/core/mixin).
THEOREM LastDecides == MCSpec => []LastCallDecides
<1>1. SP!Spec => []SP!LastCallDecides  BY CallsAssumed, SP!LastDecides
<1>2. SP!LastCallDecides => LastCallDecides
  BY DEF LastCallDecides, Services!LastCallDecides, SP!LastCallDecides,
         Services!Idle, SP!Idle, Services!Over, SP!Over,
         Services!LastCall, SP!LastCall, Services!SelectLastInSeq, SP!SelectLastInSeq,
         Services!Max, SP!Max, Services!Services, SP!Services,
         Services!CanStartService, SP!CanStartService, Services!CanStart, SP!CanStart,
         Services!IsLeaderRequired, SP!IsLeaderRequired,
         Services!RequiresLeadership, SP!RequiresLeadership, Services!Leads, SP!Leads
<1>q. QED  BY <1>1, <1>2, IsServices, PTL
===============================================================================
