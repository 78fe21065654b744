----------------------------- MODULE Terraform -----------------------------
(* A generated Terraform project reduced to the names in it.                 *)
(*   block   [block, vars, refs]: a resource, data source or provider, the   *)
(*           variables and the other blocks its attributes mention;          *)
(*   module  [declares, main, outputs]: the variables of variables.tf, the   *)
(*           blocks of main.tf, and for each output the block it shows;      *)
(*   call    [vars, outputs]: the arguments the root module passes, from its *)
(*           own variables or from <<module, output>>, each under the name   *)
(*           it has at its origin;                                           *)
(*   project [root, calls, modules]: the root has declares, main (its        *)
(*           provider and resource blocks), values (inputs.auto.tfvars) and  *)
(*           outputs, a set of <<module, output>>.                           *)
(* What is stated here is what `terraform init`, `validate` and `plan` ask   *)
(* of a project, so that no generated one fails before it creates anything.  *)
EXTENDS Integers, FiniteSets

Block(name, vars, refs) == [block |-> name, vars |-> vars, refs |-> refs]

Defined(main) == {b.block : b \in main}

\* Reference to undeclared input variable / undeclared resource
BlocksResolve(m) == \A b \in m.main : b.vars \subseteq m.declares /\ b.refs \subseteq Defined(m.main)
OutputsResolve(m) == \A o \in DOMAIN m.outputs : m.outputs[o] \in Defined(m.main)

\* Duplicate resource configuration: two blocks of one name
OneBlockPerName(m) == \A b, c \in m.main : b.block = c.block => b = c

\* what a call passes: nothing missing (no generated variable has a default), nothing extra
CallMatches(p, c) ==
  /\ p.calls[c].vars \subseteq p.root.declares
  /\ \A o \in p.calls[c].outputs : o[1] \in DOMAIN p.modules /\ o[2] \in DOMAIN p.modules[o[1]].outputs
  /\ p.calls[c].vars \cup {o[2] : o \in p.calls[c].outputs} = p.modules[c].declares

Coherent(p) ==
  /\ DOMAIN p.calls = DOMAIN p.modules
  /\ \A b \in p.root.main : b.vars \subseteq p.root.declares /\ b.refs \subseteq Defined(p.root.main)
  /\ \A o \in p.root.outputs : o[1] \in DOMAIN p.modules /\ o[2] \in DOMAIN p.modules[o[1]].outputs
  /\ p.root.values \subseteq p.root.declares
  /\ \A m \in DOMAIN p.modules : /\ BlocksResolve(p.modules[m]) /\ OutputsResolve(p.modules[m])
                                 /\ OneBlockPerName(p.modules[m]) /\ CallMatches(p, m)

\* Cycle: no set of blocks in which every block waits for another one of the set
NoCycle(m) ==
  \A S \in SUBSET m.main : S # {} => \E b \in S : \A c \in S : c.block \notin b.refs

\* the same, as the order in which the blocks of a large module can be created:
\* each round settles the blocks that wait for settled ones only
Orderable(m) ==
  LET Settled[n \in 0..Cardinality(m.main)] ==
        IF n = 0 THEN {}
        ELSE LET before == {c.block : c \in Settled[n - 1]} IN {b \in m.main : b.refs \subseteq before}
  IN Settled[Cardinality(m.main)] = m.main

\* a module's block may be created only after the calls that feed it
NoModuleCycle(p) ==
  \A S \in SUBSET DOMAIN p.calls :
     S # {} => \E c \in S : \A o \in p.calls[c].outputs : o[1] \notin S
=============================================================================
