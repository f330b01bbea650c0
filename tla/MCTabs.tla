-------------------------------- MODULE MCTabs --------------------------------
(* The instance that TLC checks of the two modules about several tabs over one  *)
(* storage: Transactions, what a sign-in saves there, and TokenSync, the tokens *)
(* that come of it.  They share no state, so a behaviour is one of either;      *)
(* `part` says of which.                                                        *)
EXTENDS MCTransactions

CONSTANTS NoTab, MaxVersion, MaxSignOuts

VARIABLES part,
          \* those of TokenSync
          stored, flagged, issued, old, revoked, open, leader, timer, renewal, wire,
          revoking, closing, crossed, signedOut

Sync == INSTANCE TokenSync

\* What the proofs take for granted of the tabs.
ASSUME TabsAssumption == Sync!SyncAssumption

syncVars == <<stored, flagged, issued, old, revoked, open, leader, timer, renewal,
              wire, revoking, closing, crossed, signedOut>>
all == <<part, vars, syncVars>>

MCInit == /\ part \in {"transactions", "tokens"}
          /\ Init
          /\ Sync!Init

MCNext == /\ UNCHANGED part
          /\ \/ part = "transactions" /\ Next /\ UNCHANGED syncVars
             \/ part = "tokens" /\ Sync!Next /\ UNCHANGED vars

MCSpec == MCInit /\ [][MCNext]_all

\* The modules have values of the types they declare.
Types == TypeOK /\ Sync!TypeOK

\* The properties of TokenSync, see there.
TabsFollow == Sync!TabsFollow
SignedOutStaysOut == Sync!SignedOutStaysOut
LeaderAttends == Sync!LeaderAttends
===============================================================================
