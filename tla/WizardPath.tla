----------------------------- MODULE WizardPath -----------------------------
(* What a wizard promises its user: it holds the answers given on the way    *)
(* from the first step to the step on the screen and nothing else, and Back  *)
(* takes back exactly the last of them.                                      *)
EXTENDS Wizards, Integers, Sequences

VARIABLES wizard,     \* the wizard on the screen
          at,         \* its current step
          path,       \* the answers that led there, in order
          open        \* whether a wizard is on the screen

vars == <<wizard, at, path, open>>

Show(w) == wizard' = w /\ at' = Wizard[w].first /\ path' = <<>> /\ open' = TRUE

Init == /\ wizard \in DOMAIN Wizard /\ at = Wizard[wizard].first
        /\ path = <<>> /\ open = FALSE

Answer(a) ==
  /\ open /\ at # Confirmation /\ a \in Wizard[wizard].forms[at].answers
  /\ at' = Wizard[wizard].forms[at].next[a]
  /\ path' = Append(path, [step |-> at, answer |-> a])
  /\ UNCHANGED <<wizard, open>>

Return ==
  /\ open /\ path # <<>>
  /\ at' = path[Len(path)].step
  /\ path' = SubSeq(path, 1, Len(path) - 1)
  /\ UNCHANGED <<wizard, open>>

Leave == open /\ open' = FALSE /\ UNCHANGED <<wizard, at, path>>

Next == \/ ~open /\ \E w \in DOMAIN Wizard : Show(w)
        \/ open /\ at # Confirmation /\ \E a \in Wizard[wizard].forms[at].answers : Answer(a)
        \/ Return
        \/ Leave

Spec == Init /\ [][Next]_vars
=============================================================================
