--------------------------- MODULE WizardMachine ---------------------------
(* One wizard on the screen: Wizard.tsx driving the state machine that       *)
(* createWizardMachine.ts builds from a wizard's table. A form can be        *)
(* submitted, the Back button pressed on every step but the first, and the   *)
(* confirmation page sends the collected answers to the server; while a      *)
(* request is under way every button of the wizard is disabled.              *)
(* A Back that no BACK rule accepts is an event XState ignores: it changes   *)
(* nothing and is a stuttering step here. The `currentStep` of the context   *)
(* is only a fallback for events without a step and is left out; `stepData`  *)
(* and `allData` are always equal and are one variable.                      *)
EXTENDS Wizards, Integers, Sequences, Functions, FiniteSetsExt

CONSTANT Offered     \* the wizards the page offers
ASSUME OfferedAssumption == Offered \subseteq DOMAIN Wizard /\ Offered # {}

VARIABLES wizard,     \* the wizard on the screen
          at,         \* the machine's state
          data,       \* allData: the answer of each saved step, in key order
          visited,    \* visitedSteps
          previous,   \* previousStep
          phase       \* "closed", "open", or "sending" (isLoading)

machine == <<wizard, at, data, visited, previous, phase>>

Unset == "unset"
Form == Wizard[wizard].forms[at]
Keys(d) == {d[i].step : i \in DOMAIN d}

\* obj[step] = answer: an existing key keeps its place, a new one goes last
Put(d, step, a) ==
  LET entry == [step |-> step, answer |-> a] IN
  IF step \in Keys(d)
  THEN [i \in DOMAIN d |-> IF d[i].step = step THEN entry ELSE d[i]]
  ELSE Append(d, entry)

\* the elements of s that are in S, in their order: Array.filter
Keeping(s, S) ==
  LET kept[i \in 0..Len(s)] ==
        IF i = 0 THEN <<>>
        ELSE IF s[i] \in S THEN Append(kept[i - 1], s[i]) ELSE kept[i - 1]
  IN kept[Len(s)]

\* delete obj[step], for each of the steps
Without(d, steps) == Keeping(d, {e \in Range(d) : e.step \notin steps})

-----------------------------------------------------------------------------
Open(w) ==
  /\ phase = "closed"
  /\ wizard' = w /\ at' = Wizard[w].first /\ phase' = "open"
  /\ data' = <<>> /\ visited' = <<>> /\ previous' = Unset

Init ==
  /\ wizard \in Offered /\ at = Wizard[wizard].first /\ phase = "closed"
  /\ data = <<>> /\ visited = <<>> /\ previous = Unset

SaveStepData(step, a) ==
  /\ IF step \in Range(visited)
     THEN LET k == Min({i \in DOMAIN visited : visited[i] = step})
              abandoned == Range(SubSeq(visited, k + 1, Len(visited)))
          IN /\ data' = Without(Put(data, step, a), abandoned)
             /\ visited' = SubSeq(visited, 1, k)
     ELSE /\ data' = Put(data, step, a)
          /\ visited' = Append(visited, step)
  /\ previous' = step

(* Mutant of UndoSaveStepData: the answer given on the step left behind stays saved. *)
UndoSaveStepDataKeepsAnswer ==
  /\ visited' = Keeping(visited, Range(visited) \ {at})
  /\ previous' = at
  /\ UNCHANGED data

(* Mutant of UndoSaveStepData: the step left behind stays among the visited ones. *)
UndoSaveStepDataKeepsVisited ==
  /\ data' = Without(data, {at})
  /\ previous' = at
  /\ UNCHANGED visited

UndoSaveStepData ==
  /\ data' = Without(data, {at})
  /\ visited' = Keeping(visited, Range(visited) \ {at})
  /\ previous' = at

Submit(a) ==
  /\ phase = "open" /\ at # Confirmation /\ a \in Form.answers
  /\ SaveStepData(at, a)
  /\ at' = Form.next[a]
  /\ UNCHANGED <<wizard, phase>>

\* the BACK rules whose guard on previousStep holds; XState takes the first
Applicable ==
  {i \in DOMAIN BackRules(wizard, at) : BackRules(wizard, at)[i].from \in {Anywhere, previous}}

BackOffered == phase = "open" /\ at # Wizard[wizard].first

Back ==
  /\ BackOffered /\ Applicable # {}
  /\ UndoSaveStepData
  /\ at' = BackRules(wizard, at)[Min(Applicable)].to
  /\ UNCHANGED <<wizard, phase>>

Confirm ==
  /\ phase = "open" /\ at = Confirmation
  /\ phase' = "sending"
  /\ UNCHANGED <<wizard, at, data, visited, previous>>

Fail ==
  /\ phase = "sending" /\ phase' = "open"
  /\ UNCHANGED <<wizard, at, data, visited, previous>>

Close ==
  /\ phase # "closed" /\ phase' = "closed"
  /\ UNCHANGED <<wizard, at, data, visited, previous>>

Next ==
  \/ \E w \in Offered : Open(w)
  \/ phase = "open" /\ at # Confirmation /\ \E a \in Form.answers : Submit(a)
  \/ Back
  \/ Confirm
  \/ Fail
  \/ Close

Spec == Init /\ [][Next]_machine

-----------------------------------------------------------------------------
(* The machine keeps its two records of the way in step: the saved answers   *)
(* are those of the visited steps, in the order they were visited, each one  *)
(* once, whatever sequence of submits, returns and changed answers came      *)
(* before (save_step_data and undo_save_step_data).                          *)
DataMatchesVisited ==
  /\ visited = [i \in DOMAIN data |-> data[i].step]
  /\ IsInjective(visited)

\* the wizards whose BACK rules undo the last answer; those of the other two can
\* lead to a step that was not visited (target_infra) or skip one (migrate_topics)
OrderlyWizards == {"migration_infra", "migrate_schemas", "migrate_acls"}

(* What the confirmation page shows and sends is one way through the wizard: *)
(* it starts at the first step, every answer leads to the next saved step    *)
(* and the last one to the confirmation. No answer of an abandoned branch is *)
(* sent ("Delete data for steps on the old path"). Violated by the target    *)
(* infrastructure wizard.                                                    *)
RequestFollowsPath ==
  at = Confirmation =>
    /\ data # <<>> /\ data[1].step = Wizard[wizard].first
    /\ \A i \in DOMAIN data :
         Wizard[wizard].forms[data[i].step].next[data[i].answer]
           = IF i = Len(data) THEN Confirmation ELSE data[i + 1].step

(* The same of the four wizards that keep it: the request of the             *)
(* confirmation page holds the answers of one way through the wizard.        *)
OtherRequestsFollowPath == wizard # "target_infra" => RequestFollowsPath

(* Wherever the Back button of an orderly wizard is enabled the machine has  *)
(* a transition for it.                                                      *)
BackAlwaysPossible == wizard \in OrderlyWizards /\ BackOffered => Applicable # {}

-----------------------------------------------------------------------------
\* the saved answers up to the step on the screen: its own is only a prefill
Before == IF at \in Keys(data)
          THEN SubSeq(data, 1, Min({i \in DOMAIN data : data[i].step = at}) - 1)
          ELSE data

Path == INSTANCE WizardPath WITH path <- Before, open <- (phase # "closed")

(* In an orderly wizard submitting is answering and Back is taking back the  *)
(* last answer: the machine with its saved data, visited list and            *)
(* previousStep is a stack of answers.                                       *)
ImplementsPath ==
  Path!Init /\ [][wizard' \in OrderlyWizards => Path!Next]_<<wizard, at, Before, phase # "closed">>
=============================================================================
