------------------------------ MODULE TopicScan ------------------------------
(***************************************************************************)
(* What GetTopicsWithConfigs promises its caller, discoverTopics: the      *)
(* listing fails as a whole, or every named topic is settled once, either  *)
(* described or given up, and only then does the call return.              *)
(***************************************************************************)

CONSTANT Named

VARIABLES
  phase,   \* "listing", "fetching", "returned" or "refused"
  outcome  \* [Named -> {"pending", "described", "dropped"}]

scanVars == <<phase, outcome>>

Init ==
  /\ phase = "listing"
  /\ outcome = [t \in Named |-> "pending"]

Begin ==
  /\ phase = "listing"
  /\ phase' = "fetching"
  /\ UNCHANGED outcome

Refuse ==
  /\ phase = "listing"
  /\ phase' = "refused"
  /\ UNCHANGED outcome

Settle(t) ==
  /\ phase = "fetching"
  /\ outcome[t] = "pending"
  /\ \E o \in {"described", "dropped"} : outcome' = [outcome EXCEPT ![t] = o]
  /\ UNCHANGED phase

Return ==
  /\ phase = "fetching"
  /\ \A t \in Named : outcome[t] # "pending"
  /\ phase' = "returned"
  /\ UNCHANGED outcome

Next == Begin \/ Refuse \/ Return \/ \E t \in Named : Settle(t)

Spec == Init /\ [][Next]_scanVars

FairSpec == Spec /\ WF_scanVars(Next)
=============================================================================
