--------------------------- MODULE MigrationPage ---------------------------
(* The Migration Assets page: a modal with the wizard of one cluster, the    *)
(* requests its wizards have sent, the generated files the store keeps per   *)
(* cluster and wizard, and the file viewer. The modal can be closed at any   *)
(* time (Escape, the backdrop, the X), also while a request is under way;    *)
(* the request goes on and its completion is handled by the closed wizard's  *)
(* handleConfirmation, which stores the files and calls onComplete.          *)
EXTENDS WizardMachine

CONSTANTS Clusters,       \* the provisioned clusters of the state file
          MaxRequests     \* bound: requests sent in one behaviour
ASSUME PageAssumption == Clusters # {} /\ "none" \notin Clusters /\ MaxRequests \in Nat \ {0}

VARIABLES modal,        \* the wizard modal: NoModal, or its cluster and what it shows
          viewer,       \* the file viewer: NoView, or the cluster and wizard it shows
          requests,     \* generateTerraform calls that have not settled
          issued,       \* how many requests were sent
          mine,         \* the request the wizard on the screen waits for
          assets        \* migrationAssets of the store

page == <<modal, viewer, requests, issued, mine, assets>>
vars == <<machine, page>>

NoModal == [cluster |-> "none", shows |-> "none"]
NoView == [cluster |-> "none", wizard |-> "none"]
Scripts == {"migrate_topics", "migrate_schemas", "migrate_acls"} \cap Offered
Shows == (Offered \ Scripts) \cup (IF Scripts = {} THEN {} ELSE {"scripts"})
HasFiles(c, w) == assets[c][w] # <<>>

PageInit ==
  /\ Init /\ modal = NoModal /\ viewer = NoView /\ requests = {} /\ issued = 0 /\ mine = 0
  /\ assets = [c \in Clusters |-> [w \in Offered |-> <<>>]]

-----------------------------------------------------------------------------
\* one of the three phases of a cluster: a wizard, or the choice of a script
OpenModal(c, what) ==
  /\ modal = NoModal /\ viewer = NoView
  /\ modal' = [cluster |-> c, shows |-> what]
  /\ IF what = "scripts" THEN UNCHANGED machine ELSE Open(what)
  /\ UNCHANGED <<viewer, requests, issued, mine, assets>>

InSelection == modal.shows = "scripts"

SelectScript(w) == InSelection /\ Open(w) /\ UNCHANGED page

BackToSelection ==
  /\ InSelection /\ Close
  /\ mine' = 0 /\ UNCHANGED <<modal, viewer, requests, issued, assets>>

CloseModal ==
  /\ modal # NoModal
  /\ modal' = NoModal /\ mine' = 0
  /\ IF phase = "closed" THEN UNCHANGED machine ELSE Close
  /\ UNCHANGED <<viewer, requests, issued, assets>>

SubmitForm ==
  /\ phase = "open" /\ at # Confirmation
  /\ \E a \in Form.answers : Submit(a)
  /\ UNCHANGED page

PressBack == Back /\ UNCHANGED page

ConfirmRequest ==
  /\ issued < MaxRequests /\ Confirm
  /\ issued' = issued + 1 /\ mine' = issued + 1
  /\ requests' = requests \cup {[id |-> issued + 1, cluster |-> modal.cluster,
                                 wizard |-> wizard, data |-> data]}
  /\ UNCHANGED <<modal, viewer, assets>>

(* Mutant of StoreFiles: the files go to the cluster of the wizard now open. *)
StoreFilesOfOpenWizard(r) ==
  assets' = IF modal = NoModal THEN assets ELSE [assets EXCEPT ![modal.cluster][wizard] = r.data]

StoreFiles(r) == assets' = [assets EXCEPT ![r.cluster][r.wizard] = r.data]

\* the reply: setTerraformFiles, then onComplete closes whatever modal is open
\* and opens the viewer on the request's cluster and wizard
Succeed(r) ==
  /\ r \in requests /\ requests' = requests \ {r}
  /\ StoreFiles(r)
  /\ modal' = NoModal /\ mine' = 0
  /\ IF phase = "closed" THEN UNCHANGED machine ELSE Close
  /\ viewer' = [cluster |-> r.cluster, wizard |-> r.wizard]
  /\ UNCHANGED issued

(* Mutant of FailRequest: isLoading is reset only after a success. *)
FailRequestKeepsLoading(r) ==
  /\ r \in requests /\ requests' = requests \ {r}
  /\ UNCHANGED <<machine, modal, viewer, issued, assets, mine>>

\* an error reply, a lost connection or the abort when no headers have come
\* within REQUEST_TIMEOUT: the wizard that waits can be used again, a closed
\* one is not concerned
FailRequest(r) ==
  /\ r \in requests /\ requests' = requests \ {r}
  /\ IF r.id = mine THEN Fail /\ mine' = 0 ELSE UNCHANGED <<machine, mine>>
  /\ UNCHANGED <<modal, viewer, issued, assets>>

(* Mutant of ViewFiles: the View button is there before the files are. *)
ViewFilesAlways(c, w) ==
  /\ viewer = NoView /\ modal = NoModal
  /\ viewer' = [cluster |-> c, wizard |-> w]
  /\ UNCHANGED <<machine, modal, requests, issued, mine, assets>>

\* from a completed phase of the page, or from the choice of a script
ViewFiles(c, w) ==
  /\ viewer = NoView /\ HasFiles(c, w)
  /\ IF w \in Scripts THEN InSelection /\ modal.cluster = c /\ phase = "closed"
                      ELSE modal = NoModal
  /\ modal' = NoModal /\ viewer' = [cluster |-> c, wizard |-> w]
  /\ UNCHANGED <<machine, requests, issued, mine, assets>>

CloseViewer ==
  /\ viewer # NoView /\ viewer' = NoView
  /\ UNCHANGED <<machine, modal, requests, issued, mine, assets>>

PageNext ==
  \/ \E c \in Clusters, what \in Shows : OpenModal(c, what)
  \/ \E w \in Scripts : SelectScript(w)
  \/ BackToSelection
  \/ CloseModal
  \/ SubmitForm
  \/ PressBack
  \/ ConfirmRequest
  \/ \E r \in requests : Succeed(r)
  \/ \E r \in requests : FailRequest(r)
  \/ \E c \in Clusters, w \in Offered : ViewFiles(c, w)
  \/ CloseViewer

PageSpec == PageInit /\ [][PageNext]_vars

\* every request settles: the client gives up when no headers have come within
\* 30 s, and a body that has begun comes to its end or the connection breaks
Settle(n) == \E r \in requests : r.id = n /\ (Succeed(r) \/ FailRequest(r))
Fairness == \A n \in 1..MaxRequests : WF_vars(Settle(n))
FairPageSpec == PageSpec /\ Fairness

-----------------------------------------------------------------------------
(* While a wizard waits, what it shows is what it asked for: its request is  *)
(* one of the calls under way, for this cluster and wizard and with the      *)
(* answers on the screen, however many requests of closed wizards are still  *)
(* under way (useWizardAPI's isLoading and the disabled buttons).            *)
RequestOnScreen ==
  phase = "sending" =>
    [id |-> mine, cluster |-> modal.cluster, wizard |-> wizard, data |-> data] \in requests

(* The file viewer is opened on files that exist, and on one modal at a time *)
(* (handleWizardComplete, onViewTerraform).                                  *)
ViewerShowsFiles == viewer # NoView => HasFiles(viewer.cluster, viewer.wizard) /\ modal = NoModal

(* The files the store keeps for a wizard were generated from one way        *)
(* through that wizard, from its first step to its confirmation, which of    *)
(* the target infrastructure wizard is not even true of its requests.        *)
StoredFilesConfirmed ==
  \A c \in Clusters, w \in Offered \ {"target_infra"} :
    HasFiles(c, w) =>
      LET d == assets[c][w] IN
      /\ d[1].step = Wizard[w].first
      /\ \A i \in DOMAIN d :
           /\ d[i].step \in DOMAIN Wizard[w].forms
           /\ Wizard[w].forms[d[i].step].next[d[i].answer]
                = IF i = Len(d) THEN Confirmation ELSE d[i + 1].step

(* A wizard that waits for its files stops waiting.                          *)
WizardComesBack == (phase = "sending") ~> (phase # "sending")
=============================================================================
