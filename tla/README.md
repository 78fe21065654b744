# Verification of kcp

`kcp` is a command line tool, with a local web UI, that plans and prepares the
migration of Kafka clusters from Amazon MSK to Confluent Cloud. This directory
holds TLA+ models of its core logic, the TLC configurations that check them on
small instances, and theorems about them that TLAPS proves. Paths below are
relative to the repository's root (`src/` in `PROJECT.json`).

`PROJECT.json` is the index: `components`, `runs`, `mutants` (for each property
a plausible bug in the code that makes TLC find it violated), `map` (the source
lines behind each definition), `findings`, `hazards` and `theorems`.

## 1. The system

| Part | State it keeps | Operations |
| --- | --- | --- |
| State file (`internal/types/state.go`, `cmd/discover`, `cmd/scan`) | `kcp-state.json`: regions, clusters, what Kafka and AWS say of each, costs, registries | `discover`, `scan clusters`, `scan client-inventory`, `scan schema-registry`, `scan self-managed-connectors`: load, work for minutes on a copy, write the whole file |
| Credentials file (`internal/types/credentials.go`) | `creds.yaml`: for each cluster the authentication methods it offers, a flag and a secret each | `discover` writes and merges it, a person edits it, `scan clusters` connects with it |
| Topic fetch (`internal/services/msk/msk_service.go`) | a slice, a mutex, a semaphore, a wait group and a channel, for one call | list, one goroutine per topic, sequential retry |
| Cluster discovery (`cmd/discover/cluster_discoverer.go`, `discoverer.go`) | what is read so far of one cluster of one region | a dozen AWS calls for one cluster, some of whose errors are tolerated; two files written at the end |
| Connector scans (`internal/client/kafka_admin.go`, `cmd/scan/self_managed_connectors`) | the maps filled so far | read the Connect configuration and status topics until they are silent; ask the REST interface connector by connector |
| Wizards (`cmd/ui/frontend/src/components/migration/wizards`) | an XState machine: step, saved answers, visited steps | submit, Back, confirm |
| Migration assets page | the open modal, requests under way, generated files, viewer | open, close, confirm, view |
| UI server (`cmd/ui/api/api.go`) | the uploaded state of each session, under a lock | upload, metrics, costs, six generators |
| Explore and cost pages (hooks, `stores/store.ts`) | selections, date filters, the last reply of each fetch, TCO inputs | select, change dates, fetch, transfer |
| Reports (`internal/services/report`, `cmd/report`) | none | filter by date, aggregate |
| Target infrastructure (`internal/services/hcl/target_infra_hcl_service.go`, `cmd/create_asset/target_infra`) | the output directory | generate a Terraform project, write it |
| Migration infrastructure (`migration_infra_hcl_service.go`, `cmd/create_asset/migration_infra`) | the output directory | the same, for cluster links and jump clusters |
| ACL converter (`cmd/create_asset/migrate_acls`) | the output directory | read IAM policies or recorded Kafka ACLs, translate, write |
| Other generators (topics, schemas, connectors, proxy, bastion) | the output directory | one template or block per item |
| Collectors (metrics, costs, registries, broker logs) | none | read and parse |

How they interact. `discover` and the scans communicate only through the two
files, which nothing locks. `discover` calls the cluster discovery for each
cluster of each region, and that calls the topic fetch. The pages post a state
file to the UI server and then ask it for metrics, costs and generated
projects; a wizard collects the answers a generator needs and the server checks
some of them. The command line reaches the same generators with flags and
with what the state file says of the source cluster.

What is hard in it:

* *Overlapping commands.* Two terminals load, work for minutes and write back
  whole files; a command can be interrupted between the truncation and the
  write (`os.WriteFile` is not atomic), or between the two files.
* *Partial failure.* A region, a cluster, a topic or a principal fails and the
  rest goes on, or does not; what an earlier command recorded about the failed
  one must not be lost silently, nor what a person typed about it.
* *A changing world.* A cluster is scaled or deleted between two of the calls
  that describe it; Kafka Connect writes while its topics are read.
* *Merging.* A rediscovered cluster keeps some of the old information, loses
  some and replaces some; the rules differ between the two files.
* *Goroutines.* Semaphore, wait group, channel, closer and mutex in one
  function whose caller receives nothing before the last goroutine is spawned.
* *Histories of user actions.* The wizards' Back rules look at the previous
  step, which a Back changes; a modal can be closed while its request is under
  way; a page can be left, or another state uploaded, before its reply is there.
* *Combinations.* The generators walk their tables several times for one
  project, with conditions of their own on the request each time; every
  combination has to give a project Terraform accepts.

## 2. Modules

`MCx.tla` with its `.cfg` instantiates module `x` for TLC, `x_proofs.tla` holds
its theorems. Constants are parameters with named assumptions; definitions keep
the names of the source where they can. Mutated forms of definitions, marked
"Mutant of", stand just before the definition they vary and are used by no
specification.

| Module | Models | Built on |
| --- | --- | --- |
| `StateData` | the content of `kcp-state.json` and the merges of `state.go` | |
| `StateStore` | abstract: what each command promises, as one change of the file | `StateData` |
| `KcpState`, `KcpState_proofs` | the five commands on a shared file | `StateData`, implements `StateStore` |
| `Credentials` | `creds.yaml`, its editor, discovery and AWS | |
| `Discovery`, `Discovery_proofs` | `kcp discover`: every call of a cluster, the region loop, both files | |
| `TopicScan` | abstract: what the topic fetch promises its caller | |
| `TopicFetch` | `GetTopicsWithConfigs` with its goroutines | implements `TopicScan` |
| `ConnectScan` | the two ways of scanning self-managed connectors, with Kafka Connect at work | |
| `Scans_proofs` | the theorems about `TopicFetch` and `ConnectScan` | |
| `Wizards` | the five wizards' tables: steps, answers, NEXT and BACK rules | |
| `WizardPath` | abstract: a wizard is a stack of answers | `Wizards` |
| `WizardMachine` | the machine of one wizard | `Wizards`, implements `WizardPath` for three wizards |
| `MigrationPage` | the modal, requests, stored files, viewer | `WizardMachine` |
| `InfraWizards` | the wizards composed with the two endpoints that generate projects | `WizardMachine`, `TargetProject`, `MigrationProject` |
| `Wizards_proofs` | the theorems about `WizardMachine`, `MigrationPage` and `InfraWizards` | instances of `TargetInfra_proofs` and `MigrationInfra_proofs` |
| `Terraform` | what makes a generated project acceptable to Terraform | |
| `TargetProject` | target infrastructure: request to project, and the endpoint's checks | `Terraform` |
| `TargetInfra`, `TargetInfra_proofs` | its command: flags, file writes, failures, reruns | `TargetProject` |
| `MigrationProject` | migration infrastructure: the three kinds of project, their user data templates, the endpoint's validators | `Terraform` |
| `MigrationInfra`, `MigrationInfra_proofs` | its command: flags, what it takes from the state file, file writes, failures, reruns | `MigrationProject` |
| `Acls` | the translation of IAM permissions into ACLs, and the evaluation IAM and Kafka make of either | |
| `MigrateAcls` | the two ACL commands and the page's request | `Acls` |
| `Access_proofs` | the theorems about `Credentials` and about `Acls` and `MigrateAcls` | |
| `Report` | filters and aggregates of costs and metrics, and what page and command make of them | |
| `ExplorePage`, `ExplorePage_proofs` | sessions, uploads, the fetching pages and the TCO modal | `Report` |

### State file: `KcpState`

Each terminal (`Proc`) runs one command at a time. `Load` is the part the five
commands have in common: it needs a file that parses, except that `discover`
may find none (`cmd_discover.go`, `NewStateFromFile`), and copies it; discover
copies it with `NewStateFrom`, which leaves the registries out. The `Work`
actions are the bodies of the loops, one region, cluster or registry each, in
any order, each of which may fail: `DiscoverRegion` (which is `UpsertRegion`
with `RefreshClusters` and `MergeFrom`), `RegionFails`, `ScanCluster`,
`SkipCluster`, `FindClients`, `ReadRegistry`, `ReadConnectors`. `Truncate` and
`Fill` are the two halves of `os.WriteFile`, and `Stop` an error or an
interruption anywhere. When two commands write at the same time, the later
`Fill` may leave the tail of the earlier one's bytes and so a file that does
not parse.

A fact in the file is the number of the command that fetched it (0: not there).
That is enough to see whether a merge keeps, replaces, loses or revives it, and
it is what the properties are about.

`StateStore` says what a single command may do to the file, per command and in
one step (`Allowed`); `ImplementsStore` is the refinement, under the map that
shows the loaded file until the write is complete. It holds for several
terminals as long as no command wrote over a file it had not loaded
(`overlapped`): serial use is what the abstract file promises, and the model
keeps the overlapping behaviours to say what survives them.

### Credentials file: `Credentials`

Clusters appear, vanish and change their settings in AWS; a person changes
flags, types secrets or deletes the file; a discovery loads the file, builds
fresh entries region by region (`NewClusterAuth` ranks the methods and enables
one), merges each with the entry of the file (`MergeWith`), and writes all of
it at its end. `GetSelectedAuthType` is what a scan connects with, `Validate`
what both commands demand when they load. A run that writes over an entry the
person edited meanwhile ends the `choice` made there: `ChoiceRespected` is about
what merges and AWS do to a choice, not about this overwriting. The file is
written in one step here; writes that are cut off are in `Discovery`.

### Cluster discovery: `Discovery`

`step` is the call the command makes next; `Following` is their order. Each
call may fail (`fault`), and between any two of them AWS may scale or delete a
cluster (`Change`), the user type a secret, or the process be killed. `Answer`
is what AWS says and `Tolerated` the errors that `cluster_discoverer.go` turns
into an empty result: it is by these two that a cluster deleted half-way could
pass for one that has no policy, or a serverless one. A region is upserted in
both files' copies only when all of its clusters were read (`UpsertRegion`), and
a cluster whose scan failed is left out. At the end each file is truncated and
then filled (`OpenState` and `FillState`, `OpenCredentials` and
`FillCredentials`: the two halves of `os.WriteFile` in `state.go:71` and
`credentials.go:67`). Opening may fail, which leaves the file as it was; a write
that fails, or is killed, after that leaves a part of the text (`Stop`): never
one of `kcp-state.json` that parses, but maybe one of `creds.yaml`, with some of
the clusters and secrets. `text` says which of these a file is; `discover` does
not start with a broken one until the user removes it. `files` has the two
files together because their agreement is a property (`View`: a file being
written counts as what it was until the write is over); `KcpState` and
`Credentials` have the merges of each in detail.

### Topic fetch: `TopicFetch`

A topic is its index in the list. The spawning loop, each goroutine, the closer
goroutine and the caller interleave at every call that touches shared state:
semaphore, AWS call, mutex, append, channel, wait group. The retry of failed
topics afterwards is sequential. `TopicScan` is the promise to `discoverTopics`
(the instance `Promise`).

### Connector scans: `ConnectScan`

`configs` and `statuses` are the two topics as Kafka Connect writes them,
tombstones and skewed time stamps included, and it goes on writing during the
scan. A reading may stop at any message (five seconds of silence, thirty
seconds in all, an error). `ReadConfig` keeps the last message, `ReadStatus`
the one with the newest stamp; the scan over REST asks for the list, then for
each connector's configuration and status, and drops a connector whose
configuration cannot be read. `missed` records whose messages were cut off, so
that the properties say what holds of all the others. Its specification is
`ConnectSpec`, so that one module can hold its theorems and `TopicFetch`'s.

### Wizards and their page: `WizardMachine`, `MigrationPage`, `InfraWizards`

`Wizards` translates the five configuration files into one table. The machine
is `createWizardMachine.ts`: `SaveStepData` and `UndoSaveStepData` maintain the
saved answers and the visited list; the BACK rules are tried in their order
against `previousStep`, and an event no rule accepts changes nothing.
`MigrationPage` adds what is around a wizard: the modal that can be closed at
any time, requests that outlive it (`useWizardAPI.ts`, `Wizard.tsx`), the files
the store keeps per cluster and wizard and the viewer. `InfraWizards` composes
the wizards with `handleTargetClusterAssets` and `handleMigrationAssets`: the
saved answers are merged into one body (`TargetRequest`, `MigrationRequest`),
which the server refuses or makes a project of.

### Terraform projects: `TargetProject`, `TargetInfra`, `MigrationProject`, `MigrationInfra`

A project is reduced to the names in it (`Terraform`): blocks with the
variables and blocks they mention, declared variables, values, outputs and
module calls. `Coherent` is what `terraform validate` and `plan` ask: every
reference resolves, no block or output twice, every call passes exactly what
its module declares, every value has a variable; `NoCycle` and `NoModuleCycle`
say that something can be created first. `MigrationProject` adds the user data
templates, whose arguments are passed by name as well. `TargetInfra` and
`MigrationInfra` add the commands: their flag rules (`PreRun`), what they take
from the state file and what they stop at (`Usable`), and the directory they
write file by file, with a failure possible between any two files and a run
of another kind before.

### ACL converter: `Acls`, `MigrateAcls`

`Acls` holds the translation (`createACLFromMapping` and what it calls) next to
two evaluations that are not kcp's: what IAM allows by a principal's statements
and what Kafka allows by an account's ACLs. Names are sequences of tokens, a
star stands for any number of them. `MigrateAcls` has the commands: principals
collected from a flag or from the recorded clients, policies read one principal
at a time, three files written, and a directory that may hold an earlier run's.
An ARN keeps its AWS account, by which principals are told apart; their policies
are those of the same name in the account the command runs in. A directory is
named by what distinguishes it: the service account and the suffix of a
role's or a user's, a fixed name for a cluster's clients, one for a cluster's
Kafka ACLs, and one for the page. Go walks `types.AclMap` in an order of its own
(`MapOrder`), which decides the places of the star's ACLs and nothing else.
`TranslationExplained` sets aside what the translation loses, each loss named
(`Lossy`): several resources, a resource of another type, a star inside a name,
in the region or in an action; and two cases of the principals, a shared account
name and a path in a recorded client's ARN that is taken for its name.

### Reports and pages: `Report`, `ExplorePage`

`Report` translates the service's filters and aggregates and its two readers'
totals. A cost or a metric is an entry of the state file's lists, named by its
place there (`<<period, group>>`, `<<metric, point>>`): a filter is a subset of
places and an aggregate a sum over it. A period that is missing (`NoPeriod`) is
skipped; a start that does not parse (`NoTime`) is dropped only when dates were
given. The command's report totals Amazon MSK alone.

In `ExplorePage` uploads are numbered and an answer is the number of the upload
it was computed from together with the dates it was computed for. One fetching
component is mounted at a time; `Render` is what its effects do after a change:
ask for what they depend on if that changed, and fill in dates that were never
set from the answer on the screen. Answers arrive in any order. The metrics
modal is opened for a cluster and a `field` of its TCO inputs. It sends the
least, the mean or the greatest of the metric on its screen (`AggregateStats`),
rounded for partitions and turned from bytes into megabytes with five decimals
for throughputs (`converted`, a whole number of hundred-thousandths of a
megabyte). The metric on the screen is the field's if the answer has it;
otherwise it may be any, for the user selects it or it stays from before.

`TransfersAreOwn` compares what arrived with the cluster's own points, found
without the server's flattening and aggregates, and asks for no whole number nearer
to the figure in the field's unit. `CostTableAddsUp` compares the totals with
what Cost Explorer returned from the start until before the end of the dates:
the end date is exclusive by docs/README.md:487, :534 and the help of the flag
(`cmd_report_costs.go:45`), and `report_service.go:103` counts a cost on it.
What a cost of the end date itself does is therefore left out of the property.

## 3. Runs

Every run finishes within five minutes on two workers. `CHECK_DEADLOCK FALSE`
stands where the modelled program ends: commands that have all run (bounded by
`MaxCommands`, `MaxRuns`), a call that has returned, a page whose requests are
used up. Everywhere else (wizards, migration page, connector scans)
a deadlock would be an error.

| Run | Question | Bounds |
| --- | --- | --- |
| `state_file_shared` | Does each command change only what it is about, half-way and at its end (`Footprint`)? Does the file hold only results of finished commands (`OnlyCommittedResults`)? Are registries lost only where a command wrote over a file it had not loaded (`RegistryScansKept`)? Is load-work-write one change of the promised kind (`ImplementsStore`)? | 2 terminals, 3 commands, 2 regions, 1 cluster, 2 registries: three commands are the least with a writer between another's load and write and a reader after both, and the least to record, merge and observe |
| `credentials_merge` | Are choices and secrets kept (`ChoicesKept`), is a scan's method the person's (`ChoiceRespected`), has a conflict the one explanation (`ConflictExplained`), and do regions that are not upserted keep their entries (`UntouchedRegionsKept`)? | 2 regions with a cluster each; one cluster moves between configurations that between them offer every method, the other stays as it is; unbounded histories (the state space is finite) |
| `topic_fetch` | Room in the channel and no send after close, each topic settled once, failed topics read safely, refinement of `TopicScan`; does the call return and does every goroutine exit? | 5 topics, one without a name, 2 permits, 1 extra attempt: twice as many calls as permits |
| `discovery` | Are recorded clusters whole (`EntriesAreWhole`), do the places that speak of brokers agree (`BrokerCountsAgree`), do the two files list the same clusters of every region that was not cut off in or between their writes since it was last read completely (`FilesAgree`), and does nothing leave them without one of the stated reasons (`NothingLeavesUnexplained`)? | 2 runs, 1 change of AWS at any point, 2 regions, a standard and a serverless cluster, at most 2 brokers, 3 connectors (ordinary, with unsupported authentication, beyond the first page): a second run is the least that merges, and that meets what a killed write left |
| `connect_scan` | Does a scan report the connectors and states Kafka Connect had, for every connector none of whose messages was cut off (`ConnectorsAreCurrent`, `StatesAreCurrent`), and does it end (`ScanEnds`)? | 2 connectors in different partitions, 4 messages of Kafka Connect: enough for a configuration, a tombstone and a later status whose stamps are out of order |
| `wizards` | Do the saved answers and the visited list stay together (`DataMatchesVisited`), do all but the target wizard send one way through the wizard (`OtherRequestsFollowPath`), are three of them stacks of answers (`ImplementsPath`, `BackAlwaysPossible`), and does the server refuse or serve as the answers deserve (`RequestsAreServed`)? | all five wizards, 5 fillings of the cluster form that differ in type, availability and CKUs; histories unbounded |
| `migration_page` | Does the waiting wizard show what it asked for (`RequestOnScreen`) and come back (`WizardComesBack`), does the viewer open on files that exist (`ViewerShowsFiles`), does the store keep only confirmed files (`StoredFilesConfirmed`)? | 2 clusters, 2 wizards, 2 requests: one that outlives its wizard and one of the next |
| `target_command` | Every command line: is a project with its own cluster coherent, with enough CKUs and subnets (`OwnClusterIsCoherent`), does every flag reach it (`FlagsReachTheProject`), and does a completed run leave only its own files where Terraform looks (`DiskHoldsTheProject`)? | all combinations of flags given or not, 2 runs into one directory: one to complete or fail half-way, one to complete over it |
| `migration_command` | The same for migration infrastructure (`CommandIsCoherent`, `DiskHoldsTheMigration`), and does each broker keep its own hosts (`BrokersKeepTheirHosts`)? | four types with all their flags, with each one missing and with the optional ones; eleven source clusters (three or ten brokers, fewer names than brokers, no bootstrap strings, no metrics, no volume, serverless, not scanned); 2 runs |
| `migrate_acls` | Is every permission the translation gives explained by one in IAM, and the reverse within what it handles (`TranslationExplained`), and does the directory hold every ACL of every principal of one of its runs and nothing else, wherever a run ended (`EveryPrincipalIsWritten`)? | policies with denials, prefixes, stars and several statements; 2 runs that may fail or stop anywhere |
| `explore_pages` | Does a settled page show its own cluster, upload and dates (`PageIsCurrent`), do transfers reach the TCO inputs of their own cluster (`TransfersAreOwn`), is what they send the cluster's own figure in the field's unit, does the cost table add up (`CostTableAddsUp`)? | 2 uploads of a region with two clusters, 2 fields; 3 requests of a cluster page and 2 of the others while they stay mounted: the least for an answer to be overtaken by a selection, a date or an upload, and for one cluster's dates to be filled in from another's answer; 1 field transferred to, and behaviours followed from there until the modal is closed (`UntilClosed`: nothing reads the values); dates are picked without a bound |
| `acl_addresses` (violation) | Have any two generated ACLs different addresses (`AclsAreIndividual`)? No: the place in an address restarts at 0 for each principal, so two principals with one ACL alike give one address twice, which Terraform refuses. The finding in `PROJECT.json` quotes the comment in the code. | 1 run |

Seen while modelling as well, without a run of their own, because each is a
step the code takes openly. Where a modelled step is one of these, the properties
name it as an exception; the step is not left out.

State and credentials files:

* `NewStateFrom` (`state.go:44`) leaves the schema registries out on
  re-discovery, while docs/README.md:415 says they are appended;
* a clusters scan assigns new admin information, so connectors recorded by a
  connector scan are gone (`clusters_scanner.go:109`; README.md:362 says the
  scan appends), and discovered clients go with a re-discovery (`state.go:199`);
* `MergeWith` can leave two methods enabled once a cluster offers one that
  outranks the one in use (`credentials.go:182`);
* a cluster that could not be described loses its entry of `creds.yaml`, with
  the secret typed into it (`discoverer.go:118`);
* a rediscovery with `--skip-costs` or `--skip-metrics` replaces what was
  recorded by nothing, and the metrics-less entry counts no brokers, so that
  jump clusters are refused for it afterwards;
* only the first page of `ListConnectors` is read, and connectors that use
  bootstrap strings for VPC connectivity are never matched.

Connector scans:

* a REST interface that lists no connector leaves the old ones
  (`self_managed_connectors_scanner.go:115`);
* the comment of `GetConnectorStatusMessages` speaks of the last 1000 messages;
  the code reads from the oldest to a silence.

Wizards and pages:

* in the target wizard two Backs lead to steps of the other branch
  (`targetInfraWizardConfig.ts:323`), and in the topics wizard Back on the
  confirmation skips the topic selection; for this reason `BackAlwaysPossible`
  and `ImplementsPath` speak of the other three wizards;
* a wizard closed while it waits still runs `onComplete` and closes whichever
  wizard is open by then (`MigrationAssets.tsx`);
* two requests of one cluster and wizard may be answered in either order, and
  the store keeps the later answer (`store.ts:322`);
* on the explore pages the older of two answers may arrive last and stay; the
  error of an older request stays although the newest succeeded; date filters
  survive an upload of another state; switching from cluster A to B gives B A's
  default range; a metrics modal that is open across an upload transfers new
  values under old dates. `PageIsCurrent` and `TransfersAreOwn` say under which
  histories this cannot happen;
* sessions are never removed from the server's map.

Reports:

* docs/README.md:487 and :534 and the help of `--end`
  (`cmd_report_costs.go:45`) call the end date exclusive; `After` in
  `report_service.go:103` makes it inclusive. The default cost report starts at a time of day 31 days ago, which
  excludes that day's entry of midnight.

Generators:

* `--needs-environment=false --needs-cluster=false` gives references to a
  cluster block that is not generated (`target_infra_hcl_service.go:370`;
  docs/README.md:1326); an existing cluster in a new environment is generated
  anew; the empty VPC of a serverless cluster overrides the flag; the endpoint
  lets a multi-zone cluster through with one CKU, the command does not;
* type 2 with `--security-group-id` loses `--target-environment-id`
  (`cmd_create_asset_migration_infra.go:290`); a missing bootstrap string is no
  error for types 1, 3 and 4; an express cluster's missing `StorageInfo` stops
  the process unless the storage is given as a flag; the README.md of an
  earlier jump cluster run stays in the directory;
* `kafka-cluster:*` is expanded in random order and the place is part of the
  address of a resource with `prevent_destroy`; roles of one path share the
  account named after the path; only the first page of policies is read, and
  group policies, conditions, `NotAction` and the cluster in an ARN are ignored;
  a client's role of another AWS account is given the policies of the role of
  that name in one's own, and both share a service account;
  a statement with a topic's and a group's ARN gives the group permission on
  every group; a single `Statement` object instead of a list stops the process.

## 4. Fairness

Three runs need fairness, and nothing else assumes any.

* `TopicFetch`: weak fairness of the caller, of the closer goroutine and of
  each goroutine: the Go scheduler runs every runnable goroutine, the mutex and
  the semaphore serve their waiters in order, and each AWS call ends (the SDK
  bounds its retries).
* `MigrationPage`: weak fairness of settling each request. `apiClient.ts:72`
  aborts a request for which no headers have come within its time-out; once they
  have come the timer is cleared (`apiClient.ts:85`), and that the body comes or
  the connection breaks is an assumption about the local server and TCP. Nothing
  is assumed of the user.
* `ConnectScan`: weak fairness of the scan's own steps: each wait of a reader
  ends by a message or by its timer (five seconds, thirty in all), and the HTTP
  client has a time-out. Nothing is assumed of Kafka Connect, which may write
  after each of its steps; `MaxClock` bounds how much, and in the code the total
  of thirty seconds stands for that bound.

## 5. Proofs

The constants stand for any sets (of clusters, regions, methods, topics,
command lines, requests) and any bounds; the assumptions are the named
`ASSUME`s of the modules, which TLC evaluates in the runs.

* `Scans_proofs`, the topic fetch. `Invariance`: the loop's index, the wait group, the
  semaphore, the mutex's owner, the channel and the place of each topic agree:
  both counters are the number of goroutines in the places that hold them, and
  a topic is in one place only. No safety property is inductive without these
  equations; all of them and the refinement of `TopicScan` follow from them.
  Cardinalities are handled by lemmas on adding and removing one element.
  They also give what is behind `NoGoroutineLeak`. `NobodyIsStuck`: until the call
  has returned and every goroutine has exited, somebody can go on, although the
  caller waits for permits and results, the closer for the wait group and the
  goroutines for the mutex and the channel. `FetchAdvances`: every step takes the
  call or one topic further and nothing back (`CallProgress`, `TopicProgress`), and
  these numbers have bounds, so a call takes a bounded number of steps whatever is
  throttled or fails.
* `Scans_proofs`, the connector scans. While a topic is read, what the reader
  holds of a connector is what the last message read says of it (`ReadingConfigs`)
  or the one with the newest stamp (`ReadingStatuses`); what Kafka Connect adds
  to a topic comes after what was read. The scan over REST has asked of each
  connector it has behind it, and whose answers were not cut off, in the order
  list, configuration, status (`AskingConnectors`). From these:
  `ConnectTypesCorrect`, `RecordedConnectorsAreCurrent` and
  `RecordedStatesAreCurrent`, for any number of connectors, partitions and
  messages.
* `Access_proofs`, the credentials. `Invariance`: during a run, the loaded file is valid
  and every rebuilt cluster is a fresh entry merged with that file's. From it:
  types, `ChoicesKept`, `UntouchedRegionsKept`, `ConflictExplained` (a conflict
  has exactly two methods) and `ChoiceRespected`.
* `Access_proofs`, the ACLs. `TranslationMeansTheSame` is about the translation
  alone, for any set of statements and any name: an ACL concerns one action only
  (`AclIsOfItsAction`, since no two rows of `AclMap` are alike), and for a
  statement that is not lossy the resource it gets stands for the names its ARN
  matches (`NamesAreKept`, by the pieces a pattern cuts a name into). Denials
  come out right because both directions hold, allowed and denied alike.
  `MigrateInvariance`: the ACLs found so far are those of the principals no
  longer in the queue, all of which are in IAM (`IsRead`), a command that writes
  has found all its request asks for (`IsWhole`), and so does each directory's
  `main.tf` hold (`IsDisk`); without the queue's part nothing says that the last
  principal was read. From it `EveryPrincipalEverywhere`, and with the first
  theorem `TranslationAlwaysExplained`: the ACLs of an account are those of the
  principals with its name, and these act as one role or user. What `FlattenSeq`,
  the filters and the loops of `evaluatePrincipal` compute for every list is
  proved by their rounds (`Rounds`, `LoopExists`).
* `KcpState_proofs`. `Invariance`: a command's copy is what it loaded with
  part of the change `StateStore` allows the command, and agrees with what it
  loaded on every region or cluster it has still to visit (`Progress`): the
  latter makes the first inductive, for a visit replaces one region of the copy
  and `Allowed` compares with what was loaded. The file, the copies and the
  loaded files hold results of finished commands, or of the command itself
  (`From`). As long as nothing was overwritten unseen, a writer is alone, the
  file is unreadable meanwhile, and the registries it had loaded are those of
  the last scans (`SerialInv`). Each kind of visit has its lemma (`Upserted`,
  `ClusterScanned`, ...), then each action. From it: types, `Footprint`,
  `OnlyCommittedResults`, `RegistryScansKept`, and `RefinesStore`: `Load` is
  `Begin`, `Fill` is `Commit` or `Interrupt`, a `Stop` of the writer is
  `Interrupt`, and the other steps leave `AbsFile` and the count alone.
* `Discovery_proofs`. What is read of a cluster so far is described step by
  step: at each call the parts read are those of the calls before it, and a
  part is empty only where a tolerated answer or a serverless cluster makes it
  so; a cluster that disappears half-way can only end in a failed scan, because
  a call without tolerated errors follows. The brokers of an unchanged cluster
  are those AWS would still name. The two copies in memory, and the two files
  unless a run was stopped in or between their writes, agree region by region. From these:
  `FilesStayInStep`, `RecordsAreWhole`, `PlacesAgree` and, as a property of
  steps, `LossesAreExplained`.
* `TargetInfra_proofs`. `GeneratedProjectIsCoherent` and
  `GeneratedProjectHasNoCycle` are about the generator alone, for every request
  with a cluster of its own, any cluster type and any fields left empty: one
  lemma per module file (its blocks resolve, its outputs resolve, its call
  matches). `CompletedRunsAreCoherent` carries the first over to the command.
  `DirectoryIsOneProject`: while a run writes, each of its files is written by
  this run or still to come, and the directory holds only files the
  generator writes, whose names in the root directory are those of every
  project: a run always has a region, so none lacks the values file that an
  earlier one left.
  `FlagsAreEnough`: each flag the rules ask for reaches the request.
* `MigrationInfra_proofs`. The same for the three kinds of project: each module
  resolves and each call matches its module, level by level from the networking
  to the host that sets the jump clusters up, which also gives
  `GeneratedMigrationHasNoCycle`. `CompletedRunsAreCoherent` needs that no
  request of the command lacks an authentication for its jump clusters, which
  the flag rules give. `HostsAreTheirOwn`: below ten brokers the order of host
  names as text is the order of broker numbers, so the indexing by number pairs
  each with its own; from ten on it does not, and the property says so.
  `CommandGivesCoherentProjects` is the whole of `CommandIsCoherent`. Its
  `Orderable` speaks of an order of all the blocks, and a theorem of the
  generator gives it (`GeneratedMigrationIsOrdered`): where no set of a module's
  blocks waits for itself, each round of `Orderable` settles at least one block
  more, until none is left.
* `Wizards_proofs`, the machine. `MachineInvariance`: the visited list and
  the saved answers are the same steps, which form a way through the wizard's
  table (`Way`), and the step on the screen is where the last answer leads or
  one a BACK rule left it at (`Whereabouts`); for the wizards without two-way
  branches that is one way from the first step. From it `RecordsStayInStep`,
  `OneWayIsSent`, `BackLeadsSomewhere` and `MachineIsAStack`, the refinement
  `ImplementsPath`: a submit is a push, a Back that a rule accepts is a pop,
  everything else leaves the stack alone. What a table must satisfy for this is
  a fact about five finite tables, which the provers evaluate row by row.
* `Wizards_proofs`, the page. Requests have distinct numbers not above the
  number issued, and a wizard is on the screen only in an open modal; both are
  needed for `WaitsForItsOwn`, which says that the request a waiting wizard shows
  is one under way and its own. `PageRunsMachine`: the page is a machine that is
  opened and closed, so that the machine's invariant holds on it. With it
  `FilesInvariance`: requests and stored files are for answers that a
  confirmation had on the screen, and the viewer was opened on files that were
  there; files are replaced and never removed. From it `ViewsWhatIsThere` and
  `KeepsWhatWasConfirmed`.
* `Wizards_proofs`, the wizards with their server. `InfraInvariance` has three
  parts. The machine's invariant, for the two wizards drive the machine
  (`WizardsRunMachine`). `TargetInv`, for the target wizard, whose Back can go to
  the cluster question from anywhere: its answers need not be one way, but they
  are in the order of its table, each leads to the next one or is an
  environment before the cluster question, and on every step but the first it is
  known which answer came last; hence a question answered with yes still has the
  form it leads to. `InfraInv`, for the requests: what was posted holds what the
  forms on the way require (`TargetSent`, `MigrationSent`), with the defaults
  once it is generated. `WizardsAreServed` (`RequestsAreServed`) follows from it
  and from the theorems about the two generators, which are cited from
  instances of their modules; that the generators of both instances are the
  same is proved definition by definition (`SameTargetProject`,
  `SameMigrationProject`, ...).
* `ExplorePage_proofs`. `PageInvariance`: requests are numbered up to the last
  one sent and are the mounted component's (`RequestInv`), those of a modal are
  for its cluster (`ModalInv`), the last one is for what is to be shown, and its
  answer is from the page's version as long as the server has that version
  (`LastInv`), which is never newer than an upload under way (`VersionInv`).
  From it `PageShowsItsTarget`. `TransfersComeFromTheirCluster` needs besides
  that all dates ever in use are picked ones or periods of the metadata
  (`DatesInv`), that a page's aggregates are the statistics of exactly the
  cluster's own points (`AggregatesAreOwn`), that a set of points has a least and
  a greatest one, and that rounding and the change of unit give a nearest number
  (`RoundedIsNearest`, `ConvertedExpresses`). `TotalsAreExact`: each row of the
  cost table adds up to its total, and totals are those of what Cost Explorer
  returned for the service before the end of the dates. It
  rests on a small theory of sums over finite sets, for the operator `Sum` that
  the model uses (an element more or less, disjoint unions, sums by groups, sums
  over pairs).

What is assumed of the constants of each of them is in its modules' `ASSUME`s.
The natural numbers' least element and a smallest subset with a property stand
for induction; a function that a LET defines recursively is shown to exist and to
be the only one with its equations before it is used.

What stays with TLC:

* liveness, for which the prover has no rules about fairness and ENABLED:
  `ScanEnds`, `WizardComesBack`, `NoGoroutineLeak`, and `TopicScan` with fairness
  (`ImplementsFairScan`). Of `NoGoroutineLeak` what no fairness is needed for is
  proved (`NobodyIsStuck`, `FetchAdvances`).

## 6. Abstractions

* Names, ARNs, secrets, texts of HCL, Markdown and logs are model values or
  members of small sets; formatting and wording are left out. Where a name's
  form decides something it is kept: the order of host names as text, the path
  and the stars of an ARN, the place in an address.
* AWS, Kafka, Confluent, the browser's file reader and the network are external:
  their calls succeed or fail at will within what the code distinguishes. A call
  that reads several pages is one step.
* A time-out is a failure that can always happen; the length of a wait is not
  modelled.
* `StateData` numbers a fact by the command that fetched it; two commands
  that fetch equal values are told apart, which the code cannot, and no
  property depends on more than on where a value came from. `ExplorePage` does
  the same with uploads.
* A Terraform project is the names in it (see above); the shell of the user data
  templates is what they mention.
* Floating point amounts are integers; means and megabytes are ratios that are
  rounded where the page rounds them.

## 7. Not modelled

In the order in which it would be worth adding:

* the topic and schema script generators: one block per item, no state; what
  could be checked is that the Terraform names of different topics differ;
* the connector migration: a loop over independent items that goes on after a
  failure, with tables of plug-in names;
* in the UI: which section is expanded, charts and zooming, CSV; in the Connect
  readers: the plain listings (topics, ACLs, metadata) before them;
* the text of the Markdown reports and of the summary tables;
* the reverse proxy and bastion templates: straight-line text that branches on
  one boolean;
* the queries of the metrics and cost collectors, the reading of schema
  registries and the regular expressions over broker logs: what they return is
  an input of the models;
* the Markdown printer, self-update, version and root command: formatting, a
  library call, and wiring.
