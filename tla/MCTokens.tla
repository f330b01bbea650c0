------------------------------- MODULE MCTokens -------------------------------
(* The instance that TLC checks of two modules about who looks after tokens:    *)
(* TokenManager, in one tab and in detail, and ServiceManager, which services   *)
(* run in which tab.  They share no state, so a behaviour is one of either;     *)
(* `level` says of which.                                                       *)
EXTENDS MCTokenManager

CONSTANTS Tabs, MaxCalls

VARIABLES level,
          \* of ServiceManager: started and jobs, and those of its name
          serving, microtasks,
          options, running, watching, elector, ears, calls, made, overlap

\* A leader is needed, and a leader is not needed.
BothOptions == {{"autoRenew", "syncStorage", "renewOnTabActivation"}, {"autoRemove"}}

Services == INSTANCE ServiceManager
               WITH OptionSets <- BothOptions, started <- serving, jobs <- microtasks

\* What the proofs take for granted of the services.
ASSUME CallsAssumption == Services!ServicesAssumption

serviceVars == <<options, running, serving, watching, elector, ears, calls,
                 microtasks, made, overlap>>
all == <<level, vars, serviceVars>>

MCInit == /\ level \in {"tokens", "services"}
          /\ Init
          /\ Services!Init /\ (level # "services" => options = {"autoRemove"})

MCNext == /\ UNCHANGED level
          /\ \/ level = "tokens" /\ Next /\ UNCHANGED serviceVars
             \/ level = "services" /\ Services!Next /\ UNCHANGED vars

MCSpec == MCInit /\ [][MCNext]_all

TabSymmetry == Symmetry \cup Permutations(Tabs)

\* The modules have values of the types they declare.
Types == TypeOK /\ Services!TypeOK

\* The properties of ServiceManager, see there.
OnlyLeaderRenews == Services!OnlyLeaderRenews
LastCallDecides == Services!LastCallDecides
===============================================================================
