---------------------------- MODULE Access_proofs ----------------------------
(***************************************************************************)
(* Proofs about what kcp knows of access: Credentials, for any clusters,   *)
(* regions, secrets and AWS settings, and MigrateAcls, for any policies,   *)
(* requests and names.  The two modules share no state.                    *)
(***************************************************************************)
EXTENDS Credentials, MigrateAcls, SequenceTheorems, WellFoundedInduction, TLAPS

-----------------------------------------------------------------------------
(* The credentials file.                                                   *)


\* The types, with the credentials as members of Files.
TypeInv ==
  /\ status \in [Cluster -> {"planned", "active", "deleted"}]
  /\ aws \in [Cluster -> AwsConfig]
  /\ exists \in BOOLEAN
  /\ {file, base, working} \subseteq Files
  /\ run \in {"idle", "running"}
  /\ left \in SUBSET Region
  /\ done \in SUBSET (Region \ left)
  /\ choice \in [Cluster -> Method \cup {NoChoice}]

\* What a run makes of a cluster it has described with some settings.
Rebuilt(c) ==
  \E cfg \in AwsConfig :
    working[c] = IF c \in DOMAIN base THEN MergeWith(NewClusterAuth(cfg), base[c])
                                      ELSE NewClusterAuth(cfg)

RunInv ==
  run = "running" =>
    /\ Validate(base)
    /\ \A c \in DOMAIN working : RegionOf[c] \in done => Rebuilt(c)

ChoiceInv ==
  \A c \in Cluster : choice[c] # NoChoice =>
    /\ c \in DOMAIN file
    /\ choice[c] \in Enabled(file[c])

IInv == TypeInv /\ RunInv /\ UntouchedRegionsKept /\ ChoiceInv

-----------------------------------------------------------------------------
(* Credentials are a function from some clusters to their entries. *)
LEMMA FilesAre ==
  ASSUME NEW f, f \in Files
  PROVE  /\ DOMAIN f \subseteq Cluster
         /\ f = [c \in DOMAIN f |-> f[c]]
         /\ \A c \in DOMAIN f : f[c] \in AuthMethodConfig
  BY DEF Files

(* ... and any such function is credentials. *)
LEMMA FilesIntro ==
  ASSUME NEW S \in SUBSET Cluster, NEW f, f \in [S -> AuthMethodConfig]
  PROVE  f \in Files
  BY DEF Files

(* An entry is a function from some methods to flags and secrets. *)
LEMMA EntryIs ==
  ASSUME NEW cfg \in AuthMethodConfig
  PROVE  /\ DOMAIN cfg \subseteq Method
         /\ cfg \in [DOMAIN cfg -> Entry]
  BY DEF AuthMethodConfig

(* ... and any such function is an entry. *)
LEMMA EntryIntro ==
  ASSUME NEW O \in SUBSET Method, NEW cfg, cfg \in [O -> Entry]
  PROVE  cfg \in AuthMethodConfig
  BY DEF AuthMethodConfig

(* The options of a cluster are methods. *)
LEMMA AvailableType ==
  ASSUME NEW cfg \in AwsConfig
  PROVE  Available(cfg) \in SUBSET Method
  BY DEF Available, Method

(* A fresh entry offers the available methods and enables the default one. *)
LEMMA NewEntry ==
  ASSUME NEW cfg \in AwsConfig
  PROVE  /\ NewClusterAuth(cfg) \in AuthMethodConfig
         /\ DOMAIN NewClusterAuth(cfg) = Available(cfg)
         /\ \A m \in Available(cfg) :
              NewClusterAuth(cfg)[m].use <=> IsDefault(m, Available(cfg))
<1> DEFINE O == Available(cfg)
<1>1. O \in SUBSET Method
  BY AvailableType
<1>2. \A m \in O : IsDefault(m, O) \in BOOLEAN
  BY DEF IsDefault
<1>3. \A m \in O : [use |-> IsDefault(m, O), secret |-> Blank] \in Entry
  BY <1>2 DEF Entry
<1> HIDE DEF O
<1>4. [m \in O |-> [use |-> IsDefault(m, O), secret |-> Blank]] \in AuthMethodConfig
  BY <1>1, <1>3, EntryIntro
<1>. QED
  BY <1>4 DEF NewClusterAuth, O

(* MergeWith offers the new methods and keeps the old ones as they were. *)
LEMMA MergeType ==
  ASSUME NEW new \in AuthMethodConfig, NEW old \in AuthMethodConfig
  PROVE  /\ MergeWith(new, old) \in AuthMethodConfig
         /\ DOMAIN MergeWith(new, old) = DOMAIN new
         /\ \A m \in DOMAIN new \cap DOMAIN old : MergeWith(new, old)[m] = old[m]
         /\ \A m \in DOMAIN new \ DOMAIN old : MergeWith(new, old)[m] = new[m]
<1>1. /\ DOMAIN new \in SUBSET Method
      /\ \A m \in DOMAIN new : new[m] \in Entry
      /\ \A m \in DOMAIN old : old[m] \in Entry
  BY EntryIs
<1>2. MergeWith(new, old) \in [DOMAIN new -> Entry]
  BY <1>1 DEF MergeWith
<1>3. MergeWith(new, old) \in AuthMethodConfig
  BY <1>1, <1>2, EntryIntro
<1>. QED
  BY <1>3 DEF MergeWith

(* Different methods have different ranks. *)
LEMMA RankInjective ==
  ASSUME NEW m \in Method, NEW n \in Method, DefaultRank[m] <= DefaultRank[n]
  PROVE  m = n \/ DefaultRank[m] < DefaultRank[n]
  BY DEF DefaultRank, Method

(* At most one available method is the default. *)
LEMMA DefaultUnique ==
  ASSUME NEW O \in SUBSET Method, NEW m \in O, NEW n \in O,
         IsDefault(m, O), IsDefault(n, O)
  PROVE  m = n
<1>1. DefaultRank[m] \in Nat /\ DefaultRank[n] \in Nat
  BY DEF DefaultRank, Method
<1>2. DefaultRank[m] <= DefaultRank[n] /\ DefaultRank[n] <= DefaultRank[m]
  BY DEF IsDefault
<1>. QED
  BY <1>1, <1>2, RankInjective

(* A fresh entry never has two methods enabled. *)
LEMMA NewSingle ==
  ASSUME NEW cfg \in AwsConfig
  PROVE  SingleMethod(NewClusterAuth(cfg))
  BY NewEntry, AvailableType, DefaultUnique DEF SingleMethod, Enabled

(* The merge of a fresh entry with a valid one enables two methods only if *)
(* the default is a method the valid one did not offer.                    *)
LEMMA MergeConflict ==
  ASSUME NEW cfg \in AwsConfig, NEW old \in AuthMethodConfig, SingleMethod(old),
         ~SingleMethod(MergeWith(NewClusterAuth(cfg), old))
  PROVE  \E o \in Enabled(old), d \in Method \ DOMAIN old :
           /\ Enabled(MergeWith(NewClusterAuth(cfg), old)) = {o, d}
           /\ DefaultRank[d] < DefaultRank[o]
<1> DEFINE new == NewClusterAuth(cfg)
           mrg == MergeWith(new, old)
           O == Available(cfg)
<1>1. O \in SUBSET Method /\ new \in AuthMethodConfig /\ DOMAIN new = O
  BY AvailableType, NewEntry
<1>2. /\ DOMAIN mrg = O
      /\ \A m \in O \cap DOMAIN old : mrg[m] = old[m]
      /\ \A m \in O \ DOMAIN old : mrg[m] = new[m]
  BY <1>1, MergeType
<1>3. \A m \in O : new[m].use <=> IsDefault(m, O)
  BY NewEntry
<1> HIDE DEF new, mrg, O
<1>4. \A m \in Enabled(mrg) : \/ m \in O \cap DOMAIN old /\ m \in Enabled(old)
                              \/ m \in O \ DOMAIN old /\ IsDefault(m, O)
  BY <1>2, <1>3 DEF Enabled
<1>5. PICK m \in Enabled(mrg), n \in Enabled(mrg) : m # n
  BY DEF SingleMethod, mrg, new
<1>6. \A a, b \in Enabled(old) : a = b
  BY DEF SingleMethod
<1>7. \A a, b \in O : IsDefault(a, O) /\ IsDefault(b, O) => a = b
  BY <1>1, DefaultUnique
<1>8. PICK o \in Enabled(mrg), d \in Enabled(mrg) :
        /\ o \in O \cap DOMAIN old /\ o \in Enabled(old)
        /\ d \in O \ DOMAIN old /\ IsDefault(d, O)
  BY <1>4, <1>5, <1>6, <1>7
<1>9. Enabled(mrg) = {o, d}
  BY <1>4, <1>6, <1>7, <1>8
<1>10. DefaultRank[d] < DefaultRank[o]
  BY <1>1, <1>8, RankInjective DEF IsDefault
<1>. QED
  BY <1>1, <1>8, <1>9, <1>10 DEF mrg, new

-----------------------------------------------------------------------------
(* The flags of a cluster can be edited without leaving the type. *)
LEMMA EditFlags ==
  ASSUME file \in Files, NEW c \in DOMAIN file, NEW S, SetFlags(c, S)
  PROVE  /\ file' \in Files
         /\ DOMAIN file' = DOMAIN file
         /\ \A d \in DOMAIN file : d # c => file'[d] = file[d]
         /\ DOMAIN file'[c] = DOMAIN file[c]
         /\ \A m \in DOMAIN file[c] : file'[c][m].use <=> m \in S
<1> DEFINE D == DOMAIN file
           O == DOMAIN file[c]
           cfg == [m \in O |-> [file[c][m] EXCEPT !.use = m \in S]]
<1>1. /\ D \in SUBSET Cluster /\ file \in [D -> AuthMethodConfig]
      /\ file[c] \in AuthMethodConfig
  BY FilesAre
<1>2. O \in SUBSET Method /\ \A m \in O : file[c][m] \in Entry
  BY <1>1, EntryIs
<1>3. \A m \in O : (m \in S) \in BOOLEAN
  OBVIOUS
<1>4. \A m \in O : [file[c][m] EXCEPT !.use = m \in S] \in Entry
  BY <1>2, <1>3 DEF Entry
<1>5. cfg \in [O -> Entry]
  BY <1>4
<1>6. cfg \in AuthMethodConfig
  BY <1>2, <1>5, EntryIntro
<1>7. file' = [file EXCEPT ![c] = cfg]
  BY DEF SetFlags
<1>8. file' \in [D -> AuthMethodConfig]
  BY <1>1, <1>6, <1>7
<1>9. file' \in Files
  BY <1>1, <1>8, FilesIntro
<1>10. \A m \in O : cfg[m].use <=> m \in S
  BY <1>2 DEF Entry
<1>11. file'[c] = cfg /\ DOMAIN cfg = O
  BY <1>1, <1>7
<1>12. \A d \in D : d # c => file'[d] = file[d]
  BY <1>1, <1>7
<1>. QED
  BY <1>8, <1>9, <1>10, <1>11, <1>12

(* A secret can be typed without leaving the type, and leaves the flags. *)
LEMMA EditSecret ==
  ASSUME file \in Files, NEW c \in Cluster, NEW m \in Method, NEW s \in Secret,
         TypeSecret(c, m, s)
  PROVE  /\ file' \in Files
         /\ DOMAIN file' = DOMAIN file
         /\ \A d \in DOMAIN file : /\ DOMAIN file'[d] = DOMAIN file[d]
                                   /\ \A n \in DOMAIN file[d] :
                                        file'[d][n].use = file[d][n].use
<1> DEFINE D == DOMAIN file
           O == DOMAIN file[c]
           e == [use |-> file[c][m].use, secret |-> s]
           cfg == [file[c] EXCEPT ![m] = e]
<1>1. /\ D \in SUBSET Cluster /\ file \in [D -> AuthMethodConfig]
      /\ c \in D /\ m \in O /\ file[c] \in AuthMethodConfig
  BY FilesAre DEF TypeSecret
<1>2. O \in SUBSET Method /\ file[c] \in [O -> Entry]
  BY <1>1, EntryIs
<1>3. e \in Entry
  BY <1>1, <1>2 DEF Entry
<1>4. cfg \in [O -> Entry]
  BY <1>2, <1>3
<1>5. cfg \in AuthMethodConfig
  BY <1>2, <1>4, EntryIntro
<1>6. file' = [file EXCEPT ![c] = cfg]
  BY DEF TypeSecret
<1>7. file' \in [D -> AuthMethodConfig]
  BY <1>1, <1>5, <1>6
<1>8. file' \in Files
  BY <1>1, <1>7, FilesIntro
<1>9. /\ DOMAIN cfg = O
      /\ \A n \in O : cfg[n].use = file[c][n].use
  BY <1>1, <1>2
<1>10. file'[c] = cfg /\ \A d \in D : d # c => file'[d] = file[d]
  BY <1>1, <1>6
<1>. QED
  BY <1>7, <1>8, <1>9, <1>10

(* Fresh credentials list no cluster. *)
LEMMA EmptyFile == NoCredentials \in Files /\ DOMAIN NoCredentials = {}
<1>1. NoCredentials \in [{} -> AuthMethodConfig] /\ DOMAIN NoCredentials = {}
  BY DEF NoCredentials
<1>2. {} \in SUBSET Cluster
  OBVIOUS
<1>. QED
  BY <1>1, <1>2, FilesIntro

(* What upserting a region does to the credentials a run builds. *)
LEMMA RegionMerged ==
  ASSUME IInv, NEW r \in Region, NEW F \in SUBSET Cluster, DiscoverRegion(r, F)
  PROVE  /\ working' \in Files
         /\ \A c \in Cluster : RegionOf[c] # r =>
              /\ c \in DOMAIN working' <=> c \in DOMAIN working
              /\ c \in DOMAIN working => working'[c] = working[c]
         /\ \A c \in DOMAIN working' : RegionOf[c] = r => Rebuilt(c)'
<1> DEFINE described == {c \in Cluster : RegionOf[c] = r /\ status[c] = "active"} \ F
           fresh == [c \in described |-> NewClusterAuth(aws[c])]
           kept == {d \in DOMAIN working : RegionOf[d] # r}
<1>1. /\ working \in Files /\ base \in Files /\ \A c \in Cluster : aws[c] \in AwsConfig
      /\ run = "running" /\ r \notin done /\ base' = base
      /\ working' = UpsertRegion(working, r, fresh)
      /\ UntouchedRegionsKept
  BY DEF IInv, TypeInv, DiscoverRegion, runVars
<1>2. /\ DOMAIN fresh = described /\ described \in SUBSET Cluster
      /\ \A c \in described : fresh[c] = NewClusterAuth(aws[c])
      /\ \A c \in described : fresh[c] \in AuthMethodConfig /\ RegionOf[c] = r
  BY <1>1, NewEntry
<1>3. /\ kept \in SUBSET Cluster
      /\ \A c \in DOMAIN working : c \in Cluster /\ working[c] \in AuthMethodConfig
  BY <1>1, FilesAre
<1> HIDE DEF described, fresh
<1>4. DOMAIN working' = kept \cup described
  BY <1>1, <1>2 DEF UpsertRegion
<1>5. \A c \in kept \cup described :
        working'[c] = IF c \notin described THEN working[c]
                      ELSE IF c \in DOMAIN working THEN MergeWith(fresh[c], working[c])
                      ELSE fresh[c]
  BY <1>1, <1>2 DEF UpsertRegion
<1>6. \A c \in kept \cup described : working'[c] \in AuthMethodConfig
  BY <1>2, <1>3, <1>5, MergeType
<1>7. working' = [c \in kept \cup described |-> working'[c]]
  BY <1>1, <1>2 DEF UpsertRegion
<1>8. working' \in Files
  BY <1>2, <1>3, <1>6, <1>7, FilesIntro
<1>9. ASSUME NEW c \in DOMAIN working', RegionOf[c] = r
      PROVE  Rebuilt(c)'
  <2>1. c \in described /\ c \in Cluster /\ aws[c] \in AwsConfig
    BY <1>1, <1>2, <1>4, <1>9
  <2>2. /\ c \in DOMAIN working <=> c \in DOMAIN base
        /\ c \in DOMAIN base => working[c] = base[c]
    BY <1>1, <1>9, <2>1 DEF UntouchedRegionsKept
  <2>3. working'[c] = IF c \in DOMAIN base' THEN MergeWith(NewClusterAuth(aws[c]), base'[c])
                                            ELSE NewClusterAuth(aws[c])
    BY <1>1, <1>2, <1>5, <2>1, <2>2
  <2>4. QED
    BY <2>1, <2>3 DEF Rebuilt
<1>10. ASSUME NEW c \in Cluster, RegionOf[c] # r
       PROVE  /\ c \in DOMAIN working' <=> c \in DOMAIN working
              /\ c \in DOMAIN working => working'[c] = working[c]
  BY <1>2, <1>4, <1>5, <1>10
<1>. QED
  BY <1>8, <1>9, <1>10

-----------------------------------------------------------------------------
(* The variables keep their types. *)
LEMMA TypeStep == IInv /\ [Next]_vars => TypeInv'
<1> SUFFICES ASSUME IInv, [Next]_vars PROVE TypeInv'
  OBVIOUS
<1> USE CredentialsAssumption DEF awsVars, fileVars, runVars
<1>0. TypeInv
  BY DEF IInv
<1>1. ASSUME NEW c \in Cluster, CreateCluster(c) PROVE TypeInv'
  BY <1>1, <1>0 DEF CreateCluster, TypeInv
<1>2. ASSUME NEW c \in Cluster, DeleteCluster(c) PROVE TypeInv'
  BY <1>2, <1>0 DEF DeleteCluster, TypeInv
<1>3. ASSUME NEW c \in Cluster, NEW cfg \in AwsConfig, ChangeSecurity(c, cfg) PROVE TypeInv'
  BY <1>3, <1>0 DEF ChangeSecurity, TypeInv
<1>4. ASSUME NEW c \in Cluster, SkipCluster(c) PROVE TypeInv'
  <2>1. c \in DOMAIN file /\ SetFlags(c, {}) /\ file \in Files
    BY <1>4 DEF SkipCluster, IInv, TypeInv
  <2>2. file' \in Files
    BY <2>1, EditFlags
  <2>3. QED
    BY <1>4, <1>0, <2>2 DEF SkipCluster, TypeInv
<1>5. ASSUME NEW c \in Cluster, NEW m \in Method, SelectMethod(c, m) PROVE TypeInv'
  <2>1. c \in DOMAIN file /\ SetFlags(c, {m}) /\ file \in Files
    BY <1>5 DEF SelectMethod, IInv, TypeInv
  <2>2. file' \in Files
    BY <2>1, EditFlags
  <2>3. QED
    BY <1>5, <1>0, <2>2 DEF SelectMethod, TypeInv
<1>6. ASSUME NEW c \in Cluster, NEW m \in Method, EnableAnother(c, m) PROVE TypeInv'
  <2>1. c \in DOMAIN file /\ SetFlags(c, Enabled(file[c]) \cup {m}) /\ file \in Files
    BY <1>6 DEF EnableAnother, IInv, TypeInv
  <2>2. file' \in Files
    BY <2>1, EditFlags
  <2>3. QED
    BY <1>6, <1>0, <2>2 DEF EnableAnother, TypeInv
<1>7. ASSUME NEW c \in Cluster, NEW m \in Method, NEW s \in Secret, TypeSecret(c, m, s) PROVE TypeInv'
  <2>1. file' \in Files
    BY <1>7, EditSecret DEF TypeSecret, IInv, TypeInv
  <2>2. QED
    BY <1>7, <1>0, <2>1 DEF TypeSecret, TypeInv
<1>8. CASE DeleteFile
  BY <1>8, <1>0, EmptyFile DEF DeleteFile, TypeInv
<1>9. ASSUME NEW rs \in SUBSET Region, StartDiscover(rs) PROVE TypeInv'
  BY <1>9, <1>0 DEF StartDiscover, TypeInv
<1>10. ASSUME NEW r \in Region, RegionFails(r) PROVE TypeInv'
  BY <1>10, <1>0 DEF RegionFails, TypeInv
<1>11. ASSUME NEW r \in Region, NEW F \in SUBSET Cluster, DiscoverRegion(r, F) PROVE TypeInv'
  <2>1. working' \in Files
    BY <1>11, RegionMerged
  <2>2. QED
    BY <1>11, <1>0, <2>1 DEF DiscoverRegion, TypeInv
<1>12. CASE WriteCredentials
  <2>1. choice' \in [Cluster -> Method \cup {NoChoice}]
    BY <1>12, <1>0 DEF WriteCredentials, TypeInv
  <2>2. QED
    BY <1>12, <1>0, <2>1, EmptyFile DEF WriteCredentials, EndRun, TypeInv
<1>13. CASE AbandonDiscover
  BY <1>13, <1>0, EmptyFile DEF AbandonDiscover, EndRun, TypeInv
<1>14. CASE UNCHANGED vars
  BY <1>14, <1>0 DEF vars, TypeInv
<1>. QED
  BY <1>1, <1>2, <1>3, <1>4, <1>5, <1>6, <1>7, <1>8, <1>9, <1>10, <1>11, <1>12, <1>13, <1>14, CredentialsAssumption
     DEF Next, AwsStep, PersonStep, DiscoverStep

(* A run starts from a valid file and rebuilds what it upserts from it. *)
LEMMA RunStep == IInv /\ [Next]_vars => RunInv'
<1> SUFFICES ASSUME IInv, [Next]_vars PROVE RunInv'
  OBVIOUS
<1> USE DEF IInv, RunInv, Rebuilt, Validate, awsVars, fileVars, runVars, EndRun
<1>1. ASSUME NEW c \in Cluster, CreateCluster(c) PROVE RunInv'
  BY <1>1 DEF CreateCluster
<1>2. ASSUME NEW c \in Cluster, DeleteCluster(c) PROVE RunInv'
  BY <1>2 DEF DeleteCluster
<1>3. ASSUME NEW c \in Cluster, NEW cfg \in AwsConfig, ChangeSecurity(c, cfg) PROVE RunInv'
  BY <1>3 DEF ChangeSecurity
<1>4. ASSUME NEW c \in Cluster, SkipCluster(c) PROVE RunInv'
  BY <1>4 DEF SkipCluster
<1>5. ASSUME NEW c \in Cluster, NEW m \in Method, SelectMethod(c, m) PROVE RunInv'
  BY <1>5 DEF SelectMethod
<1>6. ASSUME NEW c \in Cluster, NEW m \in Method, EnableAnother(c, m) PROVE RunInv'
  BY <1>6 DEF EnableAnother
<1>7. ASSUME NEW c \in Cluster, NEW m \in Method, NEW s \in Secret, TypeSecret(c, m, s) PROVE RunInv'
  BY <1>7 DEF TypeSecret
<1>8. CASE DeleteFile
  BY <1>8 DEF DeleteFile
<1>9. ASSUME NEW rs \in SUBSET Region, StartDiscover(rs) PROVE RunInv'
  BY <1>9 DEF StartDiscover
<1>10. ASSUME NEW r \in Region, RegionFails(r) PROVE RunInv'
  BY <1>10 DEF RegionFails
<1>11. ASSUME NEW r \in Region, NEW F \in SUBSET Cluster, DiscoverRegion(r, F) PROVE RunInv'
  <2>1. \A c \in DOMAIN working' : c \in Cluster
    BY <1>11, RegionMerged, FilesAre
  <2>2. ASSUME NEW c \in DOMAIN working', RegionOf[c] \in done' PROVE Rebuilt(c)'
    <3>1. CASE RegionOf[c] = r
      BY <1>11, <2>2, <3>1, RegionMerged
    <3>2. CASE RegionOf[c] # r
      BY <1>11, <2>1, <2>2, <3>2, RegionMerged DEF DiscoverRegion
    <3>3. QED
      BY <3>1, <3>2
  <2>3. QED
    BY <1>11, <2>2 DEF DiscoverRegion
<1>12. CASE WriteCredentials
  BY <1>12 DEF WriteCredentials
<1>13. CASE AbandonDiscover
  BY <1>13 DEF AbandonDiscover
<1>14. CASE UNCHANGED vars
  BY <1>14 DEF vars
<1>. QED
  BY <1>1, <1>2, <1>3, <1>4, <1>5, <1>6, <1>7, <1>8, <1>9, <1>10, <1>11, <1>12, <1>13, <1>14, CredentialsAssumption
     DEF Next, AwsStep, PersonStep, DiscoverStep

(* A run leaves the regions it has not upserted as the file had them. *)
LEMMA UntouchedStep == IInv /\ [Next]_vars => UntouchedRegionsKept'
<1> SUFFICES ASSUME IInv, [Next]_vars PROVE UntouchedRegionsKept'
  OBVIOUS
<1> USE DEF IInv, UntouchedRegionsKept, awsVars, fileVars, runVars, EndRun
<1>1. ASSUME NEW c \in Cluster, CreateCluster(c) PROVE UntouchedRegionsKept'
  BY <1>1 DEF CreateCluster
<1>2. ASSUME NEW c \in Cluster, DeleteCluster(c) PROVE UntouchedRegionsKept'
  BY <1>2 DEF DeleteCluster
<1>3. ASSUME NEW c \in Cluster, NEW cfg \in AwsConfig, ChangeSecurity(c, cfg) PROVE UntouchedRegionsKept'
  BY <1>3 DEF ChangeSecurity
<1>4. ASSUME NEW c \in Cluster, SkipCluster(c) PROVE UntouchedRegionsKept'
  BY <1>4 DEF SkipCluster
<1>5. ASSUME NEW c \in Cluster, NEW m \in Method, SelectMethod(c, m) PROVE UntouchedRegionsKept'
  BY <1>5 DEF SelectMethod
<1>6. ASSUME NEW c \in Cluster, NEW m \in Method, EnableAnother(c, m) PROVE UntouchedRegionsKept'
  BY <1>6 DEF EnableAnother
<1>7. ASSUME NEW c \in Cluster, NEW m \in Method, NEW s \in Secret, TypeSecret(c, m, s) PROVE UntouchedRegionsKept'
  BY <1>7 DEF TypeSecret
<1>8. CASE DeleteFile
  BY <1>8 DEF DeleteFile
<1>9. ASSUME NEW rs \in SUBSET Region, StartDiscover(rs) PROVE UntouchedRegionsKept'
  BY <1>9 DEF StartDiscover
<1>10. ASSUME NEW r \in Region, RegionFails(r) PROVE UntouchedRegionsKept'
  BY <1>10 DEF RegionFails
<1>11. ASSUME NEW r \in Region, NEW F \in SUBSET Cluster, DiscoverRegion(r, F) PROVE UntouchedRegionsKept'
  BY <1>11, RegionMerged DEF DiscoverRegion
<1>12. CASE WriteCredentials
  BY <1>12 DEF WriteCredentials
<1>13. CASE AbandonDiscover
  BY <1>13 DEF AbandonDiscover
<1>14. CASE UNCHANGED vars
  BY <1>14 DEF vars
<1>. QED
  BY <1>1, <1>2, <1>3, <1>4, <1>5, <1>6, <1>7, <1>8, <1>9, <1>10, <1>11, <1>12, <1>13, <1>14, CredentialsAssumption
     DEF Next, AwsStep, PersonStep, DiscoverStep

(* A run keeps the flag and the secret of every method offered twice. *)
LEMMA KeptByRun ==
  ASSUME IInv PROVE ChoicesKept
<1> SUFFICES ASSUME run = "running", NEW c \in DOMAIN base \cap DOMAIN working,
                    NEW m \in DOMAIN base[c] \cap DOMAIN working[c]
             PROVE  working[c][m] = base[c][m]
  BY DEF ChoicesKept
<1>1. c \in Cluster /\ base[c] \in AuthMethodConfig
  BY FilesAre DEF IInv, TypeInv
<1>2. CASE RegionOf[c] \notin done
  BY <1>1, <1>2 DEF IInv, UntouchedRegionsKept
<1>3. CASE RegionOf[c] \in done
  <2>1. PICK cfg \in AwsConfig : working[c] = MergeWith(NewClusterAuth(cfg), base[c])
    BY <1>3 DEF IInv, RunInv, Rebuilt
  <2>2. QED
    BY <1>1, <2>1, NewEntry, MergeType
<1>. QED
  BY <1>2, <1>3

(* The picked method stays enabled, or the choice is forgotten. *)
LEMMA ChoiceStep == IInv /\ [Next]_vars => ChoiceInv'
<1> SUFFICES ASSUME IInv, [Next]_vars PROVE ChoiceInv'
  OBVIOUS
<1> USE DEF awsVars, fileVars, runVars, EndRun
<1>1. ASSUME NEW c \in Cluster, CreateCluster(c) PROVE ChoiceInv'
  BY <1>1 DEF CreateCluster, IInv, ChoiceInv
<1>2. ASSUME NEW c \in Cluster, DeleteCluster(c) PROVE ChoiceInv'
  BY <1>2 DEF DeleteCluster, IInv, ChoiceInv
<1>3. ASSUME NEW c \in Cluster, NEW cfg \in AwsConfig, ChangeSecurity(c, cfg) PROVE ChoiceInv'
  BY <1>3 DEF ChangeSecurity, IInv, ChoiceInv
<1>4. ASSUME NEW c \in Cluster, SkipCluster(c) PROVE ChoiceInv'
  <2>1. /\ c \in DOMAIN file /\ SetFlags(c, {}) /\ file \in Files
        /\ choice' = [choice EXCEPT ![c] = NoChoice]
    BY <1>4 DEF SkipCluster, IInv, TypeInv
  <2>2. QED
    BY <2>1, <1>4, EditFlags, CredentialsAssumption DEF ChoiceInv, Enabled, IInv, TypeInv, SkipCluster
<1>5. ASSUME NEW c \in Cluster, NEW m \in Method, SelectMethod(c, m) PROVE ChoiceInv'
  <2>1. /\ c \in DOMAIN file /\ SetFlags(c, {m}) /\ file \in Files
        /\ choice' = [choice EXCEPT ![c] = m]
    BY <1>5 DEF SelectMethod, IInv, TypeInv
  <2>2. QED
    BY <2>1, <1>5, EditFlags, CredentialsAssumption DEF ChoiceInv, Enabled, IInv, TypeInv, SelectMethod
<1>6. ASSUME NEW c \in Cluster, NEW m \in Method, EnableAnother(c, m) PROVE ChoiceInv'
  <2>1. /\ c \in DOMAIN file /\ SetFlags(c, Enabled(file[c]) \cup {m}) /\ file \in Files
        /\ choice' = [choice EXCEPT ![c] = NoChoice]
    BY <1>6 DEF EnableAnother, IInv, TypeInv
  <2>2. QED
    BY <2>1, <1>6, EditFlags, CredentialsAssumption DEF ChoiceInv, Enabled, IInv, TypeInv, EnableAnother
<1>7. ASSUME NEW c \in Cluster, NEW m \in Method, NEW s \in Secret, TypeSecret(c, m, s) PROVE ChoiceInv'
  BY <1>7, EditSecret DEF TypeSecret, ChoiceInv, Enabled, IInv, TypeInv
<1>8. CASE DeleteFile
  BY <1>8 DEF DeleteFile, ChoiceInv
<1>9. ASSUME NEW rs \in SUBSET Region, StartDiscover(rs) PROVE ChoiceInv'
  BY <1>9 DEF StartDiscover, IInv, ChoiceInv
<1>10. ASSUME NEW r \in Region, RegionFails(r) PROVE ChoiceInv'
  BY <1>10 DEF RegionFails, IInv, ChoiceInv
<1>11. ASSUME NEW r \in Region, NEW F \in SUBSET Cluster, DiscoverRegion(r, F) PROVE ChoiceInv'
  BY <1>11 DEF DiscoverRegion, IInv, ChoiceInv
<1>12. CASE WriteCredentials
  <2> SUFFICES ASSUME NEW c \in Cluster, choice'[c] # NoChoice
               PROVE  c \in DOMAIN working /\ choice'[c] \in Enabled(working[c])
    BY <1>12 DEF WriteCredentials, ChoiceInv
  <2>1. /\ c \in DOMAIN file /\ c \in DOMAIN base /\ c \in DOMAIN working
        /\ file[c] = base[c] /\ choice[c] \in DOMAIN working[c]
        /\ choice'[c] = choice[c] /\ choice[c] # NoChoice
    BY <1>12 DEF WriteCredentials
  <2>2. choice[c] \in Enabled(base[c])
    BY <2>1 DEF IInv, ChoiceInv
  <2>3. working[c][choice[c]] = base[c][choice[c]]
    BY <1>12, <2>1, <2>2, KeptByRun DEF WriteCredentials, ChoicesKept, Enabled
  <2>4. QED
    BY <2>1, <2>2, <2>3 DEF Enabled
<1>13. CASE AbandonDiscover
  BY <1>13 DEF AbandonDiscover, IInv, ChoiceInv
<1>14. CASE UNCHANGED vars
  BY <1>14 DEF vars, IInv, ChoiceInv
<1>. QED
  BY <1>1, <1>2, <1>3, <1>4, <1>5, <1>6, <1>7, <1>8, <1>9, <1>10, <1>11, <1>12, <1>13, <1>14, CredentialsAssumption
     DEF Next, AwsStep, PersonStep, DiscoverStep

(* Before the first discovery. *)
LEMMA InitInv == Init => IInv
<1> SUFFICES ASSUME Init PROVE IInv
  OBVIOUS
<1>1. TypeInv
  BY EmptyFile DEF Init, TypeInv
<1>2. RunInv /\ UntouchedRegionsKept /\ ChoiceInv
  BY DEF Init, RunInv, UntouchedRegionsKept, ChoiceInv
<1>. QED
  BY <1>1, <1>2 DEF IInv

(* The inductive invariant: a run works on a valid copy of the file, and    *)
(* every cluster it upserts is a fresh entry merged with that copy's.       *)
THEOREM Invariance == Spec => []IInv
<1>1. IInv /\ [Next]_vars => IInv'
  BY TypeStep, RunStep, UntouchedStep, ChoiceStep DEF IInv
<1>2. QED
  BY InitInv, <1>1, PTL DEF Spec

(* Every reachable state has its type. *)
THEOREM TypeCorrect == Spec => []TypeOK
<1>1. IInv => TypeOK
  BY FilesAre DEF IInv, TypeInv, TypeOK
<1>2. QED
  BY Invariance, <1>1, PTL

(* No discovery changes the flag or the secret of a method that is still   *)
(* offered.                                                                *)
THEOREM DiscoveryKeepsChoices == Spec => []ChoicesKept
<1>1. IInv => ChoicesKept
  BY KeptByRun
<1>2. QED
  BY Invariance, <1>1, PTL

(* A region that is not upserted keeps its clusters and their entries. *)
THEOREM RegionsPreserved == Spec => []UntouchedRegionsKept
<1>1. IInv => UntouchedRegionsKept
  BY DEF IInv
<1>2. QED
  BY Invariance, <1>1, PTL

(* A conflict written by a discovery has exactly two methods, the choice in *)
(* the file and a default that the file did not offer and that outranks it. *)
THEOREM ConflictCause == Spec => []ConflictExplained
<1>1. ASSUME IInv PROVE ConflictExplained
  <2> SUFFICES ASSUME run = "running", NEW c \in DOMAIN working,
                      ~SingleMethod(working[c])
      PROVE  /\ c \in DOMAIN base
             /\ \E old \in Enabled(base[c]), new \in Method \ DOMAIN base[c] :
                  /\ Enabled(working[c]) = {old, new}
                  /\ DefaultRank[new] < DefaultRank[old]
    BY DEF ConflictExplained
  <2>1. c \in Cluster /\ Validate(base)
    BY <1>1, FilesAre DEF IInv, TypeInv, RunInv
  <2>2. RegionOf[c] \in done
    BY <1>1, <2>1 DEF IInv, UntouchedRegionsKept, Validate
  <2>3. PICK cfg \in AwsConfig :
          working[c] = IF c \in DOMAIN base THEN MergeWith(NewClusterAuth(cfg), base[c])
                                            ELSE NewClusterAuth(cfg)
    BY <1>1, <2>2 DEF IInv, RunInv, Rebuilt
  <2>4. c \in DOMAIN base
    BY <2>3, NewSingle
  <2>5. base[c] \in AuthMethodConfig /\ SingleMethod(base[c])
    BY <1>1, <2>1, <2>4, FilesAre DEF IInv, TypeInv, Validate
  <2>6. QED
    BY <2>3, <2>4, <2>5, MergeConflict
<1>2. QED
  BY Invariance, <1>1, PTL

(* A scan of a valid file connects with the method the person picked. *)
THEOREM ScanUsesChoice == Spec => []ChoiceRespected
<1>1. ASSUME IInv PROVE ChoiceRespected
  <2> SUFFICES ASSUME Validate(file), NEW c \in DOMAIN file, choice[c] # NoChoice
      PROVE  /\ choice[c] \in Enabled(file[c])
             /\ GetSelectedAuthType(file[c]) = choice[c]
    BY DEF ChoiceRespected
  <2>1. c \in Cluster /\ file[c] \in AuthMethodConfig
    BY <1>1, FilesAre DEF IInv, TypeInv
  <2>2. choice[c] \in Enabled(file[c])
    BY <1>1, <2>1 DEF IInv, ChoiceInv
  <2>3. Enabled(file[c]) = {choice[c]}
    BY <2>2 DEF Validate, SingleMethod
  <2>4. choice[c] \in Method
    BY <2>1, <2>2, EntryIs DEF Enabled
  <2>5. SelectionRank[choice[c]] <= SelectionRank[choice[c]]
    BY <2>4 DEF SelectionRank, Method
  <2>6. QED
    BY <2>2, <2>3, <2>5 DEF GetSelectedAuthType
<1>2. QED
  BY Invariance, <1>1, PTL

-----------------------------------------------------------------------------
(* Loops over sequences.                                                   *)

\* A set of natural numbers that is not empty has a least element.
LEMMA LeastNumber ==
  ASSUME NEW S, S \subseteq Nat, S # {}
  PROVE  \E n \in S : \A m \in S : n <= m
<1> DEFINE Below == {p \in Nat \X Nat : p[1] < p[2]}
<1>1. IsWellFoundedOn(Below, Nat)
  <2>1. Below = OpToRel(<, Nat)
    BY Zenon DEF OpToRel
  <2>2. QED
    BY <2>1, NatLessThanWellFounded, Zenon
<1>2. \A m, n \in Nat : m < n => <<m, n>> \in Below
  OBVIOUS
<1> HIDE DEF Below
<1>3. PICK n \in S : \A m \in S : ~ (<<m, n>> \in Below)
  BY <1>1, WFMin, Zenon
<1>4. \A m \in S : ~ (m < n) /\ m \in Nat /\ n \in Nat
  BY <1>2, <1>3
<1>5. QED
  BY <1>4

\* What holds at the start of a loop and is kept by its rounds holds at its end.
LEMMA Rounds ==
  ASSUME NEW n \in Nat, NEW good, 0 \in good, \A i \in 1..n : i - 1 \in good => i \in good
  PROVE  n \in good
<1> DEFINE bad == {i \in 0..n : i \notin good}
<1> SUFFICES ASSUME n \notin good PROVE FALSE
  OBVIOUS
<1>1. bad \subseteq Nat /\ n \in bad
  OBVIOUS
<1>2. PICK k \in bad : \A m \in bad : k <= m
  BY <1>1, LeastNumber
<1>3. k \in 0..n /\ k \notin good
  BY <1>2
<1>4. k \in 1..n /\ k - 1 \in 0..n /\ ~(k <= k - 1)
  BY <1>3
<1>5. k - 1 \in good
  BY <1>2, <1>4
<1>6. QED
  BY <1>3, <1>4, <1>5

\* The values of a loop of n rounds that starts with first.
IsLoop(g, n, S, first, step) ==
  g \in [0..n -> S] /\ g[0] = first /\ \A i \in 1..n : g[i] = step[<<i, g[i - 1]>>]

\* Each round makes of a value of S another one.
Turns(step, n, S) == \A i \in 1..n : \A x \in S : step[<<i, x>>] \in S

\* Every loop has its values.
LEMMA LoopExists ==
  ASSUME NEW n \in Nat, NEW S, NEW first \in S, NEW step, Turns(step, n, S)
  PROVE  \E g : IsLoop(g, n, S, first, step)
<1> DEFINE Loop(g, k) == IsLoop(g, k, S, first, step)
           good == {k \in 0..n : \E g : Loop(g, k)}
<1> USE DEF IsLoop, Turns
<1>1. 0 \in good
  <2>1. Loop([i \in 0..0 |-> first], 0)
    OBVIOUS
  <2> HIDE DEF Loop
  <2>2. QED
    BY <2>1
<1>2. ASSUME NEW k \in 1..n, k - 1 \in good PROVE k \in good
  <2>1. PICK g : Loop(g, k - 1)
    BY <1>2
  <2> DEFINE h == [i \in 0..k |-> IF i = k THEN step[<<k, g[k - 1]>>] ELSE g[i]]
  <2>2. g[k - 1] \in S /\ k \in Nat /\ k > 0
    BY <2>1
  <2>3. h \in [0..k -> S] /\ h[0] = first
    BY <2>1, <2>2
  <2>4. ASSUME NEW i \in 1..k PROVE h[i] = step[<<i, h[i - 1]>>]
    <3>1. i - 1 \in 0..k /\ i - 1 # k /\ h[i - 1] = g[i - 1]
      OBVIOUS
    <3>2. CASE i = k
      BY <3>1, <3>2
    <3>3. CASE i # k
      <4>1. i \in 1..(k - 1) /\ h[i] = g[i]
        BY <3>3
      <4>2. QED
        BY <2>1, <3>1, <4>1
    <3>4. QED
      BY <3>2, <3>3
  <2>5. Loop(h, k)
    BY <2>3, <2>4
  <2> HIDE DEF Loop, h
  <2>6. QED
    BY <2>5
<1>3. n \in good
  <2> HIDE DEF good
  <2>1. QED
    BY <1>1, <1>2, Rounds
<1>4. QED
  BY <1>3

\* A sequence and one more element.
LEMMA OneMore ==
  ASSUME NEW S, NEW s \in Seq(S), NEW e \in S
  PROVE  Append(s, e) \in Seq(S) /\ Range(Append(s, e)) = Range(s) \cup {e} /\ Append(s, e) # <<>>
<1>1. /\ Append(s, e) \in Seq(S) /\ Len(Append(s, e)) = Len(s) + 1 /\ Len(s) \in Nat
      /\ DOMAIN s = 1..Len(s) /\ DOMAIN Append(s, e) = 1..(Len(s) + 1)
      /\ \A i \in 1..Len(s) : Append(s, e)[i] = s[i]
      /\ Append(s, e)[Len(s) + 1] = e
  OBVIOUS
<1>2. Range(Append(s, e)) \subseteq Range(s) \cup {e}
  BY <1>1 DEF Range
<1>3. Range(s) \cup {e} \subseteq Range(Append(s, e))
  BY <1>1 DEF Range
<1>4. QED
  BY <1>1, <1>2, <1>3

\* Two sequences, one after the other.
LEMMA BothRanges ==
  ASSUME NEW S, NEW s \in Seq(S), NEW t \in Seq(S)
  PROVE  s \o t \in Seq(S) /\ Range(s \o t) = Range(s) \cup Range(t)
<1> DEFINE both == s \o t
<1>1. /\ both \in Seq(S) /\ Len(both) = Len(s) + Len(t)
      /\ \A i \in 1..(Len(s) + Len(t)) : both[i] = IF i <= Len(s) THEN s[i] ELSE t[i - Len(s)]
  BY ConcatProperties, Zenon
<1> HIDE DEF both
<1>2. DOMAIN both = 1..(Len(s) + Len(t)) /\ DOMAIN s = 1..Len(s) /\ DOMAIN t = 1..Len(t)
      /\ Len(s) \in Nat /\ Len(t) \in Nat
  BY <1>1
<1>3. Range(both) \subseteq Range(s) \cup Range(t)
  <2> SUFFICES ASSUME NEW i \in 1..(Len(s) + Len(t)) PROVE both[i] \in Range(s) \cup Range(t)
    BY <1>2 DEF Range
  <2>1. CASE i <= Len(s)
    BY <1>1, <1>2, <2>1 DEF Range
  <2>2. CASE ~(i <= Len(s))
    <3>1. i - Len(s) \in 1..Len(t) /\ both[i] = t[i - Len(s)]
      BY <1>1, <1>2, <2>2
    <3>2. QED
      BY <1>2, <3>1 DEF Range
  <2>3. QED
    BY <2>1, <2>2
<1>4. Range(s) \subseteq Range(both)
  <2> SUFFICES ASSUME NEW i \in 1..Len(s) PROVE s[i] \in Range(both)
    BY <1>2 DEF Range
  <2>1. both[i] = s[i] /\ i \in DOMAIN both
    BY <1>1, <1>2
  <2>2. QED
    BY <2>1 DEF Range
<1>5. Range(t) \subseteq Range(both)
  <2> SUFFICES ASSUME NEW i \in 1..Len(t) PROVE t[i] \in Range(both)
    BY <1>2 DEF Range
  <2>1. both[i + Len(s)] = t[i] /\ i + Len(s) \in DOMAIN both
    BY <1>1, <1>2
  <2>2. QED
    BY <2>1 DEF Range
<1>6. QED
  BY <1>1, <1>3, <1>4, <1>5 DEF both

\* What Keeping leaves of a sequence: the elements that are to be kept.
LEMMA KeepingKeeps ==
  ASSUME NEW T, NEW s \in Seq(T), NEW S
  PROVE  Keeping(s, S) \in Seq(T) /\ Range(Keeping(s, S)) = Range(s) \cap S
<1> DEFINE n == Len(s)
           Kept(f) == [i \in 0..n |->
              IF i = 0 THEN <<>> ELSE IF s[i] \in S THEN Append(f[i - 1], s[i]) ELSE f[i - 1]]
           kept == CHOOSE f : f = Kept(f)
           step == [p \in (1..n) \X Seq(T) |-> IF s[p[1]] \in S THEN Append(p[2], s[p[1]]) ELSE p[2]]
           good == {i \in 0..n : kept[i] \in Seq(T) /\ Range(kept[i]) = {s[j] : j \in 1..i} \cap S}
<1>1. Keeping(s, S) = kept[n]
  BY Zenon DEF Keeping
<1>2. n \in Nat /\ \A i \in 1..n : s[i] \in T
  OBVIOUS
<1>8. Range(s) = {s[j] : j \in 1..n}
  BY DEF Range
<1> HIDE DEF n
<1>3. kept = Kept(kept)
  <2>1. \A i \in 1..n, x \in Seq(T) :
          step[<<i, x>>] = (IF s[i] \in S THEN Append(x, s[i]) ELSE x) /\ step[<<i, x>>] \in Seq(T)
    BY <1>2
  <2>2. <<>> \in Seq(T)
    OBVIOUS
  <2>3. PICK g \in [0..n -> Seq(T)] : g[0] = <<>> /\ \A i \in 1..n : g[i] = step[<<i, g[i - 1]>>]
    <3> HIDE DEF step
    <3>1. \A i \in 1..n, x \in Seq(T) : step[<<i, x>>] \in Seq(T)
      BY <2>1
    <3>2. QED
      <4>1. Turns(step, n, Seq(T))
        BY <3>1 DEF Turns
      <4>2. \E g : IsLoop(g, n, Seq(T), <<>>, step)
        BY <1>2, <2>2, <4>1, LoopExists
      <4>3. QED
        BY <4>2 DEF IsLoop
  <2>4. \A i \in 1..n : g[i] = IF s[i] \in S THEN Append(g[i - 1], s[i]) ELSE g[i - 1]
    <3> SUFFICES ASSUME NEW i \in 1..n PROVE g[i] = IF s[i] \in S THEN Append(g[i - 1], s[i]) ELSE g[i - 1]
      OBVIOUS
    <3>1. i - 1 \in 0..n /\ g[i - 1] \in Seq(T)
      BY <1>2, <2>3
    <3>2. QED
      BY <2>1, <2>3, <3>1
  <2>5. g = Kept(g)
    <3>1. \A i \in 0..n :
            g[i] = IF i = 0 THEN <<>> ELSE IF s[i] \in S THEN Append(g[i - 1], s[i]) ELSE g[i - 1]
      <4> SUFFICES ASSUME NEW i \in 0..n
            PROVE g[i] = IF i = 0 THEN <<>> ELSE IF s[i] \in S THEN Append(g[i - 1], s[i]) ELSE g[i - 1]
        OBVIOUS
      <4>1. CASE i = 0
        BY <2>3, <4>1
      <4>2. CASE i # 0
        <5>1. i \in 1..n
          BY <1>2, <4>2
        <5>2. QED
          BY <2>4, <4>2, <5>1
      <4>3. QED
        BY <4>1, <4>2
    <3>2. g = [i \in 0..n |-> g[i]]
      BY <2>3
    <3>3. QED
      BY <3>1, <3>2, Zenon
  <2> HIDE DEF Kept
  <2>6. QED
    BY <2>5
<1> HIDE DEF kept
<1>4. kept[0] = <<>> /\ \A i \in 1..n : kept[i] = IF s[i] \in S THEN Append(kept[i - 1], s[i]) ELSE kept[i - 1]
  <2>1. 0 \in 0..n /\ \A i \in 1..n : i \in 0..n /\ i # 0
    BY <1>2
  <2>2. \A i \in 0..n :
          kept[i] = IF i = 0 THEN <<>> ELSE IF s[i] \in S THEN Append(kept[i - 1], s[i]) ELSE kept[i - 1]
    <3> DEFINE Next1(i) == IF s[i] \in S THEN Append(kept[i - 1], s[i]) ELSE kept[i - 1]
    <3>1. kept = [i \in 0..n |-> IF i = 0 THEN <<>> ELSE Next1(i)]
      BY <1>3, Zenon
    <3> HIDE DEF Next1
    <3>2. \A i \in 0..n : kept[i] = IF i = 0 THEN <<>> ELSE Next1(i)
      BY <3>1
    <3>3. QED
      BY <3>2 DEF Next1
  <2>3. QED
    BY <2>1, <2>2
<1>5. 0 \in good
  <2>1. Range(<<>>) = {} /\ <<>> \in Seq(T)
    BY DEF Range
  <2>2. {s[j] : j \in 1..0} = {}
    OBVIOUS
  <2>3. 0 \in 0..n
    BY <1>2
  <2>4. QED
    BY <1>4, <2>1, <2>2, <2>3
<1>6. ASSUME NEW i \in 1..n, i - 1 \in good PROVE i \in good
  <2>1. kept[i - 1] \in Seq(T) /\ Range(kept[i - 1]) = {s[j] : j \in 1..(i - 1)} \cap S
    BY <1>6
  <2>2. {s[j] : j \in 1..i} = {s[j] : j \in 1..(i - 1)} \cup {s[i]}
    BY <1>2
  <2>3. CASE s[i] \in S
    <3>1. kept[i] = Append(kept[i - 1], s[i])
      BY <1>4, <2>3
    <3>2. kept[i] \in Seq(T) /\ Range(kept[i]) = Range(kept[i - 1]) \cup {s[i]}
      BY <1>2, <2>1, <3>1, OneMore
    <3>3. Range(kept[i]) = {s[j] : j \in 1..i} \cap S
      BY <2>1, <2>2, <2>3, <3>2
    <3>4. QED
      BY <1>2, <3>2, <3>3
  <2>4. CASE s[i] \notin S
    <3>1. kept[i] = kept[i - 1]
      BY <1>4, <2>4
    <3>2. Range(kept[i]) = {s[j] : j \in 1..i} \cap S
      BY <2>1, <2>2, <2>4, <3>1
    <3>3. QED
      BY <1>2, <2>1, <3>1, <3>2
  <2>5. QED
    BY <2>3, <2>4
<1>7. n \in good
  <2> HIDE DEF good
  <2>1. QED
    BY <1>2, <1>5, <1>6, Rounds
<1>9. QED
  BY <1>1, <1>7, <1>8

\* The elements of a sequence of sequences.
Elements(seqs) == UNION {Range(seqs[i]) : i \in DOMAIN seqs}

\* Those of the first k of them.
UpTo(seqs, k) == UNION {Range(seqs[j]) : j \in 1..k}

\* One sequence more adds its elements.
LEMMA UpToNext ==
  ASSUME NEW seqs, NEW i \in Nat \ {0}
  PROVE  UpTo(seqs, i) = UpTo(seqs, i - 1) \cup Range(seqs[i]) /\ UpTo(seqs, 0) = {}
<1> DEFINE R(j) == Range(seqs[j])
<1>1. \A k : UpTo(seqs, k) = UNION {R(j) : j \in 1..k}
  BY DEF UpTo
<1> HIDE DEF R
<1>2. 1..i = (1..(i - 1)) \cup {i} /\ 1..0 = {}
  OBVIOUS
<1>3. \A x : x \in UNION {R(j) : j \in 1..i} <=> (x \in UNION {R(j) : j \in 1..(i - 1)} \/ x \in R(i))
  BY <1>2
<1>4. UNION {R(j) : j \in 1..0} = {}
  BY <1>2
<1>5. QED
  BY <1>1, <1>3, <1>4 DEF R

\* What FlattenSeq makes of them.
LEMMA FlattenSeqKeeps ==
  ASSUME NEW S, NEW seqs \in Seq(Seq(S))
  PROVE  FlattenSeq(seqs) \in Seq(S) /\ Range(FlattenSeq(seqs)) = Elements(seqs)
<1> DEFINE n == Len(seqs)
           Flat(f) == [i \in 1..n |-> IF i = 1 THEN seqs[i] ELSE f[i - 1] \o seqs[i]]
           flat == CHOOSE f : f = Flat(f)
           step == [p \in (1..n) \X Seq(S) |-> IF p[1] = 1 THEN seqs[1] ELSE p[2] \o seqs[p[1]]]
           good == {i \in 0..n : i = 0 \/ (flat[i] \in Seq(S) /\ Range(flat[i]) = UpTo(seqs, i))}
<1>1. n \in Nat /\ DOMAIN seqs = 1..n /\ \A i \in 1..n : seqs[i] \in Seq(S)
  OBVIOUS
<1>2. CASE n = 0
  <2>1. FlattenSeq(seqs) = seqs
    BY <1>2 DEF FlattenSeq
  <2>2. seqs = <<>>
    BY <1>2
  <2>3. Elements(seqs) = {} /\ Range(seqs) = {} /\ seqs \in Seq(S)
    BY <2>2 DEF Elements, Range
  <2>4. QED
    BY <2>1, <2>3
<1>3. CASE n # 0
  <2>1. FlattenSeq(seqs) = flat[n]
    BY <1>3, Zenon DEF FlattenSeq
  <2>2. flat = Flat(flat)
    <3>1. \A i \in 1..n, x \in Seq(S) :
            step[<<i, x>>] = (IF i = 1 THEN seqs[1] ELSE x \o seqs[i]) /\ step[<<i, x>>] \in Seq(S)
      BY <1>1
    <3>2. <<>> \in Seq(S)
      OBVIOUS
    <3>3. PICK g \in [0..n -> Seq(S)] : g[0] = <<>> /\ \A i \in 1..n : g[i] = step[<<i, g[i - 1]>>]
      <4> HIDE DEF step, n
      <4>1. \A i \in 1..n, x \in Seq(S) : step[<<i, x>>] \in Seq(S)
        BY <3>1
      <4>2. Turns(step, n, Seq(S))
        BY <4>1 DEF Turns
      <4>3. \E g : IsLoop(g, n, Seq(S), <<>>, step)
        BY <1>1, <3>2, <4>2, LoopExists
      <4>4. QED
        BY <4>3 DEF IsLoop
    <3> DEFINE h == [i \in 1..n |-> g[i]]
    <3>4. \A i \in 1..n : h[i] = IF i = 1 THEN seqs[i] ELSE h[i - 1] \o seqs[i]
      <4> SUFFICES ASSUME NEW i \in 1..n PROVE h[i] = IF i = 1 THEN seqs[i] ELSE h[i - 1] \o seqs[i]
        OBVIOUS
      <4>1. i - 1 \in 0..n /\ h[i] = g[i]
        BY <1>1
      <4>4. g[i - 1] \in Seq(S)
        <5> HIDE DEF n
        <5>1. QED
          BY <3>3, <4>1
      <4>2. h[i] = IF i = 1 THEN seqs[1] ELSE g[i - 1] \o seqs[i]
        BY <3>1, <3>3, <4>1, <4>4
      <4>3. i # 1 => h[i - 1] = g[i - 1]
        BY <1>1
      <4> HIDE DEF h, n
      <4>5. QED
        BY <4>2, <4>3
    <3>5. h = Flat(h)
      <4>1. h = [i \in 1..n |-> h[i]]
        OBVIOUS
      <4> HIDE DEF h, n
      <4>2. QED
        BY <3>4, <4>1
    <3> HIDE DEF Flat, h
    <3>6. QED
      BY <3>5
  <2> HIDE DEF flat
  <2>3. \A i \in 1..n : flat[i] = IF i = 1 THEN seqs[i] ELSE flat[i - 1] \o seqs[i]
    BY <2>2
  <2>4. 0 \in good
    BY <1>1
  <2>5. ASSUME NEW i \in 1..n, i - 1 \in good PROVE i \in good
    <3>1. UpTo(seqs, i) = UpTo(seqs, i - 1) \cup Range(seqs[i]) /\ UpTo(seqs, 0) = {}
      BY <1>1, UpToNext, i \in Nat \ {0}
    <3>2. CASE i = 1
      <4>1. flat[i] = seqs[i] /\ flat[i] \in Seq(S)
        BY <1>1, <2>3, <3>2
      <4>2. UpTo(seqs, i - 1) = {}
        BY <3>1, <3>2
      <4>3. Range(flat[i]) = UpTo(seqs, i)
        BY <3>1, <4>1, <4>2
      <4>4. i \in 0..n
        BY <1>1
      <4>5. QED
        BY <4>1, <4>3, <4>4
    <3>3. CASE i # 1
      <4>1. i - 1 # 0 /\ i \in 0..n
        BY <1>1, <3>3
      <4>2. flat[i - 1] \in Seq(S) /\ Range(flat[i - 1]) = UpTo(seqs, i - 1)
        BY <2>5, <4>1
      <4>3. flat[i] = flat[i - 1] \o seqs[i]
        BY <2>3, <3>3
      <4>4. flat[i] \in Seq(S) /\ Range(flat[i]) = Range(flat[i - 1]) \cup Range(seqs[i])
        BY <1>1, <4>2, <4>3, BothRanges
      <4>5. Range(flat[i]) = UpTo(seqs, i)
        BY <3>1, <4>2, <4>4
      <4>6. QED
        BY <4>1, <4>4, <4>5
    <3>4. QED
      BY <3>2, <3>3
  <2>6. n \in good
    <3> HIDE DEF good, n
    <3>1. QED
      BY <1>1, <2>4, <2>5, Rounds
  <2>7. Elements(seqs) = UpTo(seqs, n)
    BY <1>1, Zenon DEF Elements, UpTo
  <2>8. QED
    BY <1>3, <2>1, <2>6, <2>7
<1>4. QED
  BY <1>2, <1>3

-----------------------------------------------------------------------------
(* Principals.                                                             *)

\* An ARN that is cut is an ARN, of one segment.
LEMMA CutIsArn ==
  ASSUME NEW arn \in PrincipalArn
  PROVE  /\ Cut(arn) \in PrincipalArn /\ Cut(arn).kind = Role(arn)
         /\ Cut(arn).segments = <<arn.segments[1]>> /\ arn.segments[1] \in STRING
<1>1. /\ arn.kind \in {"role", "user", "assumed-role", "federated-user"} /\ arn.aws \in STRING
      /\ arn.segments \in Seq(STRING) /\ arn.segments # <<>>
  BY DEF PrincipalArn
<1>2. arn.segments[1] \in STRING
  BY <1>1
<1>3. <<arn.segments[1]>> \in Seq(STRING) /\ <<arn.segments[1]>> # <<>>
  BY <1>2
<1>4. Role(arn) \in {"role", "user", "assumed-role", "federated-user"}
  BY <1>1 DEF Role
<1> DEFINE cut == <<arn.segments[1]>>
<1>5. cut \in Seq(STRING) \ {<<>>}
  BY <1>3
<1> HIDE DEF cut
<1>6. Cut(arn) = [kind |-> Role(arn), aws |-> arn.aws, segments |-> cut]
  BY DEF Cut, cut
<1>7. QED
  BY <1>1, <1>2, <1>4, <1>5, <1>6 DEF PrincipalArn, cut

IamClients(clients) == {c \in Range(clients) : c.auth = "IAM"}

\* The principals of a cluster's clients are the ARNs of those that use IAM, cut.
LEMMA PrincipalsOfClients ==
  ASSUME NEW clients \in Seq(Client)
  PROVE  /\ evaluatePrincipal(clients) \in Seq(PrincipalArn)
         /\ Range(evaluatePrincipal(clients)) = {Cut(c.arn) : c \in IamClients(clients)}
<1> DEFINE ofIam == Keeping(clients, IamClients(clients))
           n == Len(ofIam)
           First(f, i) == IF Cut(ofIam[i].arn) \in Range(f[i - 1]) THEN f[i - 1]
                          ELSE Append(f[i - 1], Cut(ofIam[i].arn))
           Listed(f) == [i \in 0..n |-> IF i = 0 THEN <<>> ELSE First(f, i)]
           listed == CHOOSE f : f = Listed(f)
           step == [p \in (1..n) \X Seq(PrincipalArn) |->
                      IF Cut(ofIam[p[1]].arn) \in Range(p[2]) THEN p[2] ELSE Append(p[2], Cut(ofIam[p[1]].arn))]
           good == {i \in 0..n : listed[i] \in Seq(PrincipalArn)
                                   /\ Range(listed[i]) = {Cut(ofIam[j].arn) : j \in 1..i}}
<1>1. evaluatePrincipal(clients) = listed[n]
  BY Zenon DEF evaluatePrincipal, IamClients
<1>2. ofIam \in Seq(Client) /\ Range(ofIam) = IamClients(clients)
  <2>1. Keeping(clients, IamClients(clients)) \in Seq(Client)
        /\ Range(Keeping(clients, IamClients(clients))) = Range(clients) \cap IamClients(clients)
    BY KeepingKeeps
  <2>2. QED
    BY <2>1 DEF IamClients
<1>3. n \in Nat /\ DOMAIN ofIam = 1..n /\ \A i \in 1..n : Cut(ofIam[i].arn) \in PrincipalArn
  <2> HIDE DEF ofIam
  <2>1. n \in Nat /\ DOMAIN ofIam = 1..n /\ \A i \in 1..n : ofIam[i].arn \in PrincipalArn
    <3>1. n \in Nat /\ DOMAIN ofIam = 1..n /\ \A i \in 1..n : ofIam[i] \in Client
      BY <1>2
    <3>2. \A c \in Client : c.arn \in PrincipalArn
      BY DEF Client
    <3>3. QED
      BY <3>1, <3>2
  <2>2. QED
    BY <2>1, CutIsArn
<1>4. Range(ofIam) = {ofIam[i] : i \in 1..n}
  BY <1>3, Zenon DEF Range
<1> HIDE DEF ofIam, n
<1>5. listed = Listed(listed)
  <2>1. Turns(step, n, Seq(PrincipalArn))
    BY <1>3 DEF Turns
  <2>2. PICK g : IsLoop(g, n, Seq(PrincipalArn), <<>>, step)
    <3>1. <<>> \in Seq(PrincipalArn)
      OBVIOUS
    <3> HIDE DEF step
    <3>2. QED
      BY <1>3, <2>1, <3>1, LoopExists
  <2>3. \A i \in 1..n : g[i] = First(g, i)
    <3> SUFFICES ASSUME NEW i \in 1..n PROVE g[i] = First(g, i)
      OBVIOUS
    <3>1. i - 1 \in 0..n /\ g[i - 1] \in Seq(PrincipalArn) /\ g[i] = step[<<i, g[i - 1]>>]
      <4>1. i - 1 \in 0..n
        BY <1>3
      <4> HIDE DEF step
      <4>2. g \in [0..n -> Seq(PrincipalArn)] /\ g[i] = step[<<i, g[i - 1]>>]
        BY <2>2 DEF IsLoop
      <4>3. QED
        BY <4>1, <4>2
    <3>2. \A x \in Seq(PrincipalArn) :
            step[<<i, x>>] = IF Cut(ofIam[i].arn) \in Range(x) THEN x ELSE Append(x, Cut(ofIam[i].arn))
      OBVIOUS
    <3> HIDE DEF step
    <3>3. QED
      BY <3>1, <3>2
  <2> HIDE DEF First
  <2>4. g = Listed(g)
    <3>1. g = [i \in 0..n |-> g[i]] /\ g[0] = <<>>
      BY <2>2 DEF IsLoop
    <3>2. \A i \in 0..n : g[i] = IF i = 0 THEN <<>> ELSE First(g, i)
      BY <1>3, <2>3, <3>1
    <3>3. QED
      BY <3>1, <3>2, Zenon
  <2> HIDE DEF Listed
  <2>5. QED
    BY <2>4
<1> HIDE DEF listed
<1>6. 0 \in 0..n /\ listed[0] = <<>> /\ \A i \in 1..n : listed[i] = First(listed, i)
  <2>1. 0 \in 0..n /\ \A i \in 1..n : i \in 0..n /\ i # 0
    BY <1>3
  <2> HIDE DEF First
  <2>2. \A i \in 0..n : listed[i] = IF i = 0 THEN <<>> ELSE First(listed, i)
    BY <1>5
  <2>3. QED
    BY <2>1, <2>2
<1>7. 0 \in good
  <2>1. {Cut(ofIam[j].arn) : j \in 1..0} = {} /\ Range(<<>>) = {} /\ <<>> \in Seq(PrincipalArn)
    BY DEF Range
  <2>2. QED
    BY <1>6, <2>1
<1>8. ASSUME NEW i \in 1..n, i - 1 \in good PROVE i \in good
  <2> DEFINE cut == Cut(ofIam[i].arn)
             before == listed[i - 1]
  <2>1. before \in Seq(PrincipalArn) /\ Range(before) = {Cut(ofIam[j].arn) : j \in 1..(i - 1)}
    BY <1>8
  <2>2. {Cut(ofIam[j].arn) : j \in 1..i} = {Cut(ofIam[j].arn) : j \in 1..(i - 1)} \cup {cut}
    BY <1>3
  <2>3. cut \in PrincipalArn /\ i \in 0..n
    BY <1>3
  <2>4. listed[i] = IF cut \in Range(before) THEN before ELSE Append(before, cut)
    BY <1>6
  <2> HIDE DEF cut, before
  <2>5. listed[i] \in Seq(PrincipalArn) /\ Range(listed[i]) = Range(before) \cup {cut}
    BY <2>1, <2>3, <2>4, OneMore
  <2>6. Range(listed[i]) = {Cut(ofIam[j].arn) : j \in 1..i}
    BY <2>1, <2>2, <2>5
  <2>7. QED
    BY <2>3, <2>5, <2>6
<1>9. n \in good
  <2> HIDE DEF good
  <2>1. QED
    BY <1>3, <1>7, <1>8, Rounds
<1>10. {Cut(ofIam[j].arn) : j \in 1..n} = {Cut(c.arn) : c \in IamClients(clients)}
  BY <1>2, <1>4
<1>11. QED
  BY <1>1, <1>9, <1>10

-----------------------------------------------------------------------------
(* The translation.                                                        *)

\* No two actions become the same operation on the same type of resource.
LEMMA ActionOfMapping ==
  /\ AllActions \notin KafkaAction
  /\ \A a, b \in KafkaAction :
       AclMap[a].Operation = AclMap[b].Operation /\ AclMap[a].ResourceType = AclMap[b].ResourceType => a = b
BY DEF KafkaAction, AclMap, Mapping, AllActions

\* Only the actions on the cluster itself may do without a name.
LEMMA PatternOfMapping ==
  \A a \in KafkaAction :
     \/ AclMap[a].RequiresPattern = TRUE
     \/ AclMap[a].RequiresPattern = FALSE /\ AclMap[a].ResourceType = "Cluster"
BY DEF KafkaAction, AclMap, Mapping

\* No resource's type is the bare star.
LEMMA TypeOfMapping == \A a \in KafkaAction : AclMap[a].ResourceType # "Any"
BY DEF KafkaAction, AclMap, Mapping

\* An action covers itself, the star of the service all.
LEMMA CoversItself == Covered(AllActions) = KafkaAction /\ \A a \in KafkaAction : Covered(a) = {a}
<1>1. AllActions # "kafka-cluster:Read*" /\ AllActions \notin KafkaAction /\ Star \notin KafkaAction
      /\ "kafka-cluster:Read*" \notin KafkaAction
  BY DEF KafkaAction, AclMap, Mapping, Star, AllActions
<1> HIDE DEF AllActions
<1>2. QED
  BY <1>1 DEF Covered

\* The star of the service and the wildcard of a name have no ACL of their own.
LEMMA StarIsNoAction == Star \notin KafkaAction /\ "kafka-cluster:Read*" \notin KafkaAction
BY DEF KafkaAction, AclMap, Mapping, Star

\* The actions for which a statement becomes ACLs.
Translated(statement) ==
  UNION {Range(translateIAMToKafkaACL(statement.actions[i])) : i \in DOMAIN statement.actions}

\* The rows of AclMap a statement's action becomes.
LEMMA ActionsOfAction ==
  ASSUME NEW action
  PROVE  /\ translateIAMToKafkaACL(action) \in Seq(KafkaAction)
         /\ Range(translateIAMToKafkaACL(action)) = IF action = AllActions THEN KafkaAction ELSE {action} \cap KafkaAction
<1>1. CASE action = AllActions
  <2>1. translateIAMToKafkaACL(action) = MapOrder
    BY <1>1, ActionOfMapping DEF translateIAMToKafkaACL
  <2>2. QED
    BY <1>1, <2>1, OrderAssumption
<1>2. CASE action # AllActions /\ action \in KafkaAction
  <2>1. translateIAMToKafkaACL(action) = <<action>>
    BY <1>2 DEF translateIAMToKafkaACL
  <2>2. <<action>> \in Seq(KafkaAction) /\ Range(<<action>>) = {action}
    BY <1>2 DEF Range
  <2>3. QED
    BY <1>2, <2>1, <2>2
<1>3. CASE action # AllActions /\ action \notin KafkaAction
  <2>1. translateIAMToKafkaACL(action) = <<>>
    BY <1>3 DEF translateIAMToKafkaACL
  <2>2. <<>> \in Seq(KafkaAction) /\ Range(<<>>) = {}
    BY DEF Range
  <2>3. QED
    BY <1>3, <2>1, <2>2
<1>4. QED
  BY <1>1, <1>2, <1>3

\* Those with one of its actions, or all when it names all.
LEMMA TranslatedActions ==
  ASSUME NEW s \in Statement
  PROVE  Translated(s) = {a \in KafkaAction : \E action \in Range(s.actions) : action = a \/ action = AllActions}
<1>1. \A i \in DOMAIN s.actions : Range(translateIAMToKafkaACL(s.actions[i])) =
        IF s.actions[i] = AllActions THEN KafkaAction ELSE {s.actions[i]} \cap KafkaAction
  BY ActionsOfAction
<1> DEFINE R(i) == Range(translateIAMToKafkaACL(s.actions[i]))
<1>2. Translated(s) = UNION {R(i) : i \in DOMAIN s.actions}
  BY DEF Translated
<1>3. \A i \in DOMAIN s.actions : R(i) = IF s.actions[i] = AllActions THEN KafkaAction ELSE {s.actions[i]} \cap KafkaAction
  BY <1>1
<1> HIDE DEF R
<1>4. Range(s.actions) = {s.actions[i] : i \in DOMAIN s.actions}
  BY DEF Range
<1>5. QED
  BY <1>2, <1>3, <1>4

\* A function on the first numbers is a sequence.
LEMMA FunctionIsSequence ==
  ASSUME NEW S, NEW n \in Nat, NEW f \in [1..n -> S]
  PROVE  f \in Seq(S) /\ Len(f) = n
<1>1. f \in Seq(S)
  BY SeqDef
<1>2. QED
  BY <1>1

\* The ACLs a statement is translated into.
GivenBy(account, s) == {createACLFromMapping(account, a, s) : a \in Translated(s)}

AclsFor(account) == UNION {{createACLFromMapping(account, a, s) : a \in KafkaAction} : s \in Statement}

\* processPolicy gives, for a statement, one ACL per translated action.
LEMMA StatementGives ==
  ASSUME NEW account, NEW s \in Statement
  PROVE  processStatement(account, s) \in Seq(AclsFor(account))
         /\ Range(processStatement(account, s)) = GivenBy(account, s)
<1> DEFINE rows == [i \in DOMAIN s.actions |-> translateIAMToKafkaACL(s.actions[i])]
           actions == FlattenSeq(rows)
           acls == [i \in DOMAIN actions |-> createACLFromMapping(account, actions[i], s)]
<1>1. processStatement(account, s) = acls
  BY Zenon DEF processStatement
<1>2. rows \in Seq(Seq(KafkaAction)) /\ DOMAIN rows = DOMAIN s.actions
  <2>1. s.actions \in Seq(STRING) /\ DOMAIN s.actions = 1..Len(s.actions) /\ Len(s.actions) \in Nat
    BY DEF Statement
  <2>2. rows \in [1..Len(s.actions) -> Seq(KafkaAction)]
    BY <2>1, ActionsOfAction
  <2> HIDE DEF rows
  <2>3. rows \in Seq(Seq(KafkaAction))
    BY <2>1, <2>2, FunctionIsSequence
  <2>4. QED
    BY <2>1, <2>2, <2>3
<1>3. actions \in Seq(KafkaAction) /\ Range(actions) = Elements(rows)
  BY <1>2, FlattenSeqKeeps
<1>4. Elements(rows) = Translated(s)
  <2>1. \A i \in DOMAIN s.actions : Range(rows[i]) = Range(translateIAMToKafkaACL(s.actions[i]))
    OBVIOUS
  <2> HIDE DEF rows
  <2>2. QED
    BY <1>2, <2>1, Zenon DEF Elements, Translated
<1> HIDE DEF actions
<1>5. /\ DOMAIN actions = 1..Len(actions) /\ Len(actions) \in Nat
      /\ \A i \in DOMAIN actions : actions[i] \in KafkaAction
  BY <1>3
<1>6. \A i \in DOMAIN actions : acls[i] \in AclsFor(account) /\ acls[i] = createACLFromMapping(account, actions[i], s)
  BY <1>5 DEF AclsFor
<1>7. DOMAIN acls = DOMAIN actions /\ acls \in [1..Len(actions) -> AclsFor(account)]
  BY <1>5, <1>6
<1> HIDE DEF acls
<1>8. acls \in Seq(AclsFor(account))
  BY <1>5, <1>7, FunctionIsSequence
<1>9. Range(acls) = {createACLFromMapping(account, a, s) : a \in Range(actions)}
  BY <1>6, <1>7 DEF Range
<1>10. QED
  BY <1>1, <1>3, <1>4, <1>8, <1>9 DEF GivenBy

\* What a list of statements gives.
Given(account, statements) == UNION {GivenBy(account, s) : s \in statements}

\* And for a document those of its statements.
LEMMA PolicyGives ==
  ASSUME NEW account, NEW document \in Document
  PROVE  processPolicy(account, document) \in Seq(AclsFor(account))
         /\ Range(processPolicy(account, document)) = Given(account, Range(document.statements))
<1> DEFINE list == document.statements
           acls == [i \in DOMAIN list |-> processStatement(account, list[i])]
<1>1. processPolicy(account, document) = FlattenSeq(acls)
  BY Zenon DEF processPolicy
<1>2. list \in Seq(Statement)
  BY DEF Document
<1> HIDE DEF list
<1>3. DOMAIN list = 1..Len(list) /\ Len(list) \in Nat /\ \A i \in DOMAIN list : list[i] \in Statement
  BY <1>2
<1>4. \A i \in DOMAIN list : acls[i] \in Seq(AclsFor(account)) /\ Range(acls[i]) = GivenBy(account, list[i])
  BY <1>3, StatementGives
<1>5. DOMAIN acls = DOMAIN list /\ acls \in [1..Len(list) -> Seq(AclsFor(account))]
  BY <1>3, <1>4
<1> HIDE DEF acls
<1>6. acls \in Seq(Seq(AclsFor(account)))
  BY <1>3, <1>5, FunctionIsSequence
<1>7. FlattenSeq(acls) \in Seq(AclsFor(account)) /\ Range(FlattenSeq(acls)) = Elements(acls)
  BY <1>6, FlattenSeqKeeps
<1>8. \A x : x \in Elements(acls) <=> \E i \in DOMAIN list : x \in GivenBy(account, list[i])
  BY <1>4, <1>5 DEF Elements
<1>9. \A x : x \in Given(account, Range(list)) <=> \E i \in DOMAIN list : x \in GivenBy(account, list[i])
  BY DEF Given, Range
<1>10. Elements(acls) = Given(account, Range(list))
  BY <1>8, <1>9
<1>11. QED
  BY <1>1, <1>7, <1>10 DEF list

\* The same for a list of documents.
LEMMA DocumentsGive ==
  ASSUME NEW account, NEW documents \in Seq(Document)
  PROVE  LET acls == FlattenSeq([i \in DOMAIN documents |-> processPolicy(account, documents[i])]) IN
         /\ acls \in Seq(AclsFor(account))
         /\ Range(acls) = Given(account, UNION {Range(d.statements) : d \in Range(documents)})
<1> DEFINE acls == [i \in DOMAIN documents |-> processPolicy(account, documents[i])]
<1>1. DOMAIN documents = 1..Len(documents) /\ Len(documents) \in Nat
      /\ \A i \in DOMAIN documents : documents[i] \in Document
  OBVIOUS
<1>2. \A i \in DOMAIN documents :
        acls[i] \in Seq(AclsFor(account)) /\ Range(acls[i]) = Given(account, Range(documents[i].statements))
  BY <1>1, PolicyGives
<1>3. DOMAIN acls = DOMAIN documents /\ acls \in [1..Len(documents) -> Seq(AclsFor(account))]
  BY <1>1, <1>2
<1> HIDE DEF acls
<1>4. acls \in Seq(Seq(AclsFor(account)))
  BY <1>1, <1>3, FunctionIsSequence
<1>5. FlattenSeq(acls) \in Seq(AclsFor(account)) /\ Range(FlattenSeq(acls)) = Elements(acls)
  BY <1>4, FlattenSeqKeeps
<1> DEFINE of(i) == Range(documents[i].statements)
           Every == UNION {Range(d.statements) : d \in Range(documents)}
<1>6. \A s : s \in Every <=> \E i \in DOMAIN documents : s \in of(i)
  BY DEF Range
<1>7. \A i \in DOMAIN documents : Range(acls[i]) = Given(account, of(i))
  BY <1>2
<1> HIDE DEF of, Every
<1>8. \A x : x \in Elements(acls) <=> \E i \in DOMAIN documents : x \in Given(account, of(i))
  BY <1>3, <1>7 DEF Elements
<1>9. \A x : x \in Given(account, Every) <=> \E i \in DOMAIN documents : x \in Given(account, of(i))
  BY <1>6 DEF Given
<1>10. Elements(acls) = Given(account, Every)
  BY <1>8, <1>9
<1>11. QED
  BY <1>5, <1>10 DEF acls, Every

IsPolicies(policies) == policies \in [attached : Seq(Document), inline : Seq(Document)]

\* The ACLs of a principal are those its statements give.
LEMMA PoliciesGive ==
  ASSUME NEW account, NEW policies, IsPolicies(policies)
  PROVE  /\ extractKafkaPermissionsFromPrincipalPolicies(account, policies) \in Seq(AclsFor(account))
         /\ Range(extractKafkaPermissionsFromPrincipalPolicies(account, policies)) = Given(account, Statements(policies))
<1> DEFINE a == FlattenSeq([i \in DOMAIN policies.attached |-> processPolicy(account, policies.attached[i])])
           b == FlattenSeq([i \in DOMAIN policies.inline |-> processPolicy(account, policies.inline[i])])
           A == UNION {Range(d.statements) : d \in Range(policies.attached)}
           B == UNION {Range(d.statements) : d \in Range(policies.inline)}
<1>1. policies.attached \in Seq(Document) /\ policies.inline \in Seq(Document)
  BY DEF IsPolicies
<1>2. a \in Seq(AclsFor(account)) /\ Range(a) = Given(account, A)
  BY <1>1, DocumentsGive, Zenon
<1>3. b \in Seq(AclsFor(account)) /\ Range(b) = Given(account, B)
  BY <1>1, DocumentsGive, Zenon
<1>4. extractKafkaPermissionsFromPrincipalPolicies(account, policies) = a \o b
  BY Zenon DEF extractKafkaPermissionsFromPrincipalPolicies
<1>5. Range(policies.attached \o policies.inline) = Range(policies.attached) \cup Range(policies.inline)
  BY <1>1, BothRanges
<1>6. Statements(policies) = A \cup B
  BY <1>5 DEF Statements
<1> HIDE DEF a, b, A, B
<1>7. a \o b \in Seq(AclsFor(account)) /\ Range(a \o b) = Range(a) \cup Range(b)
  BY <1>2, <1>3, BothRanges
<1>8. Given(account, A \cup B) = Given(account, A) \cup Given(account, B)
  BY DEF Given
<1>9. QED
  BY <1>2, <1>3, <1>4, <1>6, <1>7, <1>8

-----------------------------------------------------------------------------
(* The files.                                                              *)

\* Every account of a main.tf has an ACL.
Filled(main) == \A a \in DOMAIN main : Range(main[a]) # {}

\* Grouping loses no ACL and makes none up.
LEMMA GroupsAreFilled ==
  ASSUME NEW S, NEW acls \in Seq(S), NEW key
  PROVE  /\ Contents(GroupBy(acls, key)) = {<<key[acl.Principal], acl>> : acl \in Range(acls)}
         /\ Filled(GroupBy(acls, key))
<1> DEFINE groups == GroupBy(acls, key)
           Group(a) == {acl \in Range(acls) : key[acl.Principal] = a}
<1>1. groups = [a \in {key[acl.Principal] : acl \in Range(acls)} |-> Keeping(acls, Group(a))]
  BY Zenon DEF GroupBy
<1>2. \A a : Range(Keeping(acls, Group(a))) = Group(a)
  <2> TAKE a
  <2>1. Range(Keeping(acls, Group(a))) = Range(acls) \cap Group(a)
    BY KeepingKeeps
  <2>2. QED
    BY <2>1
<1>3. /\ DOMAIN groups = {key[acl.Principal] : acl \in Range(acls)}
      /\ \A a \in DOMAIN groups : Range(groups[a]) = Group(a)
  <2> DEFINE Kept(a) == Keeping(acls, Group(a))
  <2>1. groups = [a \in {key[acl.Principal] : acl \in Range(acls)} |-> Kept(a)] /\ \A a : Range(Kept(a)) = Group(a)
    BY <1>1, <1>2
  <2> HIDE DEF Kept, groups, Group
  <2>2. QED
    BY <2>1
<1> HIDE DEF groups
<1>4. \A x : x \in Contents(groups) <=> \E a \in DOMAIN groups : \E acl \in Group(a) : x = <<a, acl>>
  BY <1>3 DEF Contents
<1>5. \A x : x \in Contents(groups) <=> x \in {<<key[acl.Principal], acl>> : acl \in Range(acls)}
  BY <1>3, <1>4
<1>6. Contents(groups) = {<<key[acl.Principal], acl>> : acl \in Range(acls)}
  BY <1>5
<1>7. Filled(groups)
  BY <1>3 DEF Filled
<1>8. QED
  BY <1>6, <1>7 DEF groups

Entered(account, acls) == {<<account, acl>> : acl \in Range(acls)}

\* The ACLs collected of the principals read so far.
Collected(f) == \A a \in DOMAIN f : f[a] \in Seq(AclsFor(a))

\* Collecting the ACLs of one more principal.
LEMMA OneMoreCollected ==
  ASSUME NEW f, Collected(f), Filled(f), NEW account, NEW acls \in Seq(AclsFor(account)), acls # <<>>
  PROVE  LET more == Put(f, account, Get(f, account, <<>>) \o acls) IN
         Collected(more) /\ Filled(more) /\ Contents(more) = Contents(f) \cup Entered(account, acls)
<1> DEFINE old == Get(f, account, <<>>)
           new == old \o acls
           more == Put(f, account, new)
<1>1. old \in Seq(AclsFor(account)) /\ Range(old) = IF account \in DOMAIN f THEN Range(f[account]) ELSE {}
  <2>1. Range(<<>>) = {} /\ <<>> \in Seq(AclsFor(account))
    BY DEF Range
  <2>2. QED
    BY <2>1 DEF Get, Collected
<1>2. Range(acls) # {}
  <2>1. 1 \in DOMAIN acls
    OBVIOUS
  <2>2. QED
    BY <2>1 DEF Range
<1> HIDE DEF old
<1>3. new \in Seq(AclsFor(account)) /\ Range(new) = Range(old) \cup Range(acls)
  BY <1>1, BothRanges
<1> HIDE DEF new
<1>4. DOMAIN more = DOMAIN f \cup {account} /\ \A a \in DOMAIN more : more[a] = IF a = account THEN new ELSE f[a]
  BY DEF Put
<1> HIDE DEF more
<1>5. Collected(more) /\ Filled(more)
  BY <1>2, <1>3, <1>4 DEF Collected, Filled
<1>6. \A x : x \in Contents(more) <=> \E a \in DOMAIN more : \E acl \in Range(more[a]) : x = <<a, acl>>
  BY DEF Contents
<1>7. \A x : x \in Contents(f) <=> \E a \in DOMAIN f : \E acl \in Range(f[a]) : x = <<a, acl>>
  BY DEF Contents
<1>8. \A x : x \in Entered(account, acls) <=> \E acl \in Range(acls) : x = <<account, acl>>
  BY DEF Entered
<1>9. \A x : x \in Contents(more) <=> x \in Contents(f) \cup Entered(account, acls)
  BY <1>1, <1>3, <1>4, <1>6, <1>7, <1>8
<1>10. Contents(more) = Contents(f) \cup Entered(account, acls)
  BY <1>9
<1>11. QED
  BY <1>5, <1>10, Zenon DEF more, new, old

AclsIn(world, arn) ==
  extractKafkaPermissionsFromPrincipalPolicies(Account(arn), world[extractPrincipalFromArn(arn)])

Known(world, arn) == extractPrincipalFromArn(arn) \in DOMAIN world

\* What a principal that is in IAM has.
LEMMA AclsOfPrincipal ==
  ASSUME NEW world \in Worlds, NEW arn, Known(world, arn)
  PROVE  /\ IsPolicies(world[extractPrincipalFromArn(arn)]) /\ arn.kind \in {"role", "user"}
         /\ AclsIn(world, arn) \in Seq(AclsFor(Account(arn)))
         /\ Range(AclsIn(world, arn)) = Given(Account(arn), Statements(world[extractPrincipalFromArn(arn)]))
<1>1. IsPolicies(world[extractPrincipalFromArn(arn)])
  BY MigrateAssumption DEF Known, IsPolicies
<1>2. arn.kind \in {"role", "user"}
  BY MigrateAssumption DEF Known, extractPrincipalFromArn
<1>3. QED
  BY <1>1, <1>2, PoliciesGive DEF AclsIn

-----------------------------------------------------------------------------
(* The commands and the page's request.                                    *)

\* The ACLs of some principals, each with its account.
ReadOf(world, principals) == UNION {Entered(Account(arn), AclsIn(world, arn)) : arn \in principals}

\* Each principal that is not in the queue any more was read.
IsRead(world, request, q, f) ==
  /\ request.source \in {"arn", "clients"}
  /\ q \in Seq(PrincipalArn) /\ Collected(f)
  /\ \E read \in SUBSET PrincipalArn :
        /\ Range(PrincipalArns(request)) = read \cup Range(q)
        /\ \A arn \in read : Known(world, arn)
        /\ Contents(f) = ReadOf(world, read)

\* All that a request asks for, in a world.
ExpectedIn(world, request) ==
  CASE request.source = "kafka" -> {<<Clean[acl.Principal], acl>> : acl \in Range(request.acls)}
    [] request.source = "page" ->
           {<<acl.Principal, acl>> : acl \in {a \in Range(request.acls) : a.Principal \in request.selected}}
    [] OTHER -> ReadOf(world, Range(PrincipalArns(request)))

IsWhole(world, request, main) ==
  /\ \A arn \in Range(PrincipalArns(request)) : Known(world, arn)
  /\ ExpectedIn(world, request) = Contents(main)

IsFiles(files) == files = [main |-> files.main, inputs |-> files.inputs, report |-> files.report]

\* What a directory holds is what one of the requests made for it asks for.
IsDirectory(world, requests, dir, files) ==
  /\ IsFiles(files) /\ Filled(files.main)
  /\ files.main # None => \E request \in requests : Dir(request) = dir /\ IsWhole(world, request, files.main)

IsDisk(world, requests, d) == \A dir \in DOMAIN d : IsDirectory(world, requests, dir, d[dir])

MigrateInv ==
  /\ iam \in Worlds /\ asked \in Seq(Requests)
  /\ stage \in {"idle", "reading", "main", "inputs", "report"}
  /\ IF stage = "idle" THEN found = None ELSE asked # <<>>
  /\ Filled(found)
  /\ stage = "reading" => IsRead(iam, Last(asked), queue, found)
  /\ stage \in {"main", "inputs", "report"} => IsWhole(iam, Last(asked), found)
  /\ IsDisk(iam, Range(asked), disk)

\* A command starts with no ACLs.
LEMMA NothingIsFilled == Filled(None) /\ Collected(None) /\ Contents(None) = {} /\ \A world : ReadOf(world, {}) = {}
<1>1. DOMAIN None = {}
  BY DEF None
<1>2. Filled(None) /\ Collected(None)
  BY <1>1 DEF Filled, Collected
<1>3. Contents(None) = {}
  BY <1>1 DEF Contents
<1>4. QED
  BY <1>2, <1>3 DEF ReadOf

\* A request made is one more and the last one.
LEMMA OneMoreAsked ==
  ASSUME NEW list \in Seq(Requests), NEW request \in Requests
  PROVE  /\ Append(list, request) \in Seq(Requests) /\ Append(list, request) # <<>> /\ Last(Append(list, request)) = request
         /\ Range(Append(list, request)) = Range(list) \cup {request}
<1>1. Append(list, request) \in Seq(Requests) /\ Append(list, request) # <<>> 
      /\ Range(Append(list, request)) = Range(list) \cup {request}
  BY OneMore
<1>2. Last(Append(list, request)) = request
  BY DEF Last
<1>3. QED
  BY <1>1, <1>2

\* The last request is one of those made.
LEMMA LastIsAsked ==
  ASSUME NEW list \in Seq(Requests), list # <<>>
  PROVE  Last(list) \in Requests /\ Last(list) \in Range(list)
<1>1. Len(list) \in DOMAIN list
  OBVIOUS
<1>2. QED
  BY <1>1 DEF Last, Range

\* Another request takes nothing away from a directory.
LEMMA DiskStays ==
  ASSUME NEW world, NEW R, NEW more, R \subseteq more, NEW d, IsDisk(world, R, d)
  PROVE  IsDisk(world, more, d)
BY DEF IsDisk, IsDirectory

\* Nor does a file written into another one.
LEMMA OneMoreWritten ==
  ASSUME NEW world, NEW R, NEW d, IsDisk(world, R, d), NEW dir, NEW files, IsDirectory(world, R, dir, files)
  PROVE  IsDisk(world, R, Put(d, dir, files))
BY DEF IsDisk, Put

\* What an IAM command starts with.
LEMMA StartsReading ==
  ASSUME NEW world, NEW request \in Requests, request.source \in {"arn", "clients"}
  PROVE  /\ PrincipalArns(request) \in Seq(PrincipalArn)
         /\ ExpectedIn(world, request) = ReadOf(world, Range(PrincipalArns(request)))
<1>1. PrincipalArns(request) \in Seq(PrincipalArn)
  <2>1. CASE request.source = "arn"
    <3>1. request.arn \in PrincipalArn
      BY <2>1, MigrateAssumption
    <3>2. QED
      BY <2>1, <3>1 DEF PrincipalArns
  <2>2. CASE request.source = "clients"
    <3>1. request.clients \in Seq(Client)
      BY <2>2, MigrateAssumption
    <3>2. QED
      BY <2>2, <3>1, PrincipalsOfClients DEF PrincipalArns
  <2>3. QED
    BY <2>1, <2>2
<1>2. QED
  BY <1>1, Zenon DEF ExpectedIn

\* The ACLs of the file or of the page are all there, and no principal is read.
LEMMA NothingToRead ==
  ASSUME NEW world, NEW request, request.source \in {"kafka", "page"}, NEW main, ExpectedIn(world, request) = Contents(main)
  PROVE  IsWhole(world, request, main)
BY DEF IsWhole, PrincipalArns, Range

\* Every step of the commands and of the page keeps the invariant.
LEMMA MigrateStep == MigrateInv /\ [MigrateNext]_migrateVars => MigrateInv'
<1> SUFFICES ASSUME MigrateInv, [MigrateNext]_migrateVars PROVE MigrateInv'
  OBVIOUS
<1>0. /\ iam \in Worlds /\ asked \in Seq(Requests) /\ IsDisk(iam, Range(asked), disk)
      /\ stage \in {"idle", "reading", "main", "inputs", "report"}
      /\ IF stage = "idle" THEN found = None ELSE asked # <<>>
      /\ Filled(found)
      /\ stage = "reading" => IsRead(iam, Last(asked), queue, found)
      /\ stage \in {"main", "inputs", "report"} => IsWhole(iam, Last(asked), found)
  BY DEF MigrateInv
<1>a. ASSUME Abort, UNCHANGED <<iam, asked>>, IsDisk(iam, Range(asked), disk') PROVE MigrateInv'
  BY <1>0, <1>a, NothingIsFilled DEF Abort, MigrateInv
<1>1. ASSUME NEW request \in Requests, StartIam(request) PROVE MigrateInv'
  <2>1. /\ request.source \in {"arn", "clients"} /\ asked' = Append(asked, request)
        /\ stage = "idle" /\ stage' = "reading" /\ queue' = PrincipalArns(request)
        /\ iam' = iam /\ found' = None /\ disk' = disk
    BY <1>0, <1>1 DEF StartIam, Ask
  <2>2. /\ asked' \in Seq(Requests) /\ asked' # <<>> /\ Last(asked') = request
        /\ Range(asked) \subseteq Range(asked')
    BY <1>0, <2>1, OneMoreAsked
  <2>3. IsRead(iam, request, PrincipalArns(request), None)
    <3>1. PrincipalArns(request) \in Seq(PrincipalArn) /\ Collected(None)
      BY <2>1, StartsReading, NothingIsFilled
    <3>2. /\ {} \in SUBSET PrincipalArn
          /\ Range(PrincipalArns(request)) = {} \cup Range(PrincipalArns(request))
          /\ Contents(None) = ReadOf(iam, {})
      BY NothingIsFilled
    <3>3. QED
      BY <2>1, <3>1, <3>2 DEF IsRead
  <2>4. IsDisk(iam, Range(asked'), disk)
    BY <1>0, <2>2, DiskStays
  <2>5. QED
    BY <1>0, <2>1, <2>2, <2>3, <2>4, NothingIsFilled DEF MigrateInv
<1>2. ASSUME NEW request \in Requests, StartKafka(request) PROVE MigrateInv'
  <2>1. /\ request.source = "kafka" /\ asked' = Append(asked, request) /\ stage = "idle"
        /\ IF request.acls = <<>> THEN stage' = stage /\ found' = found
           ELSE stage' = "main" /\ found' = GroupBy(request.acls, Clean)
        /\ iam' = iam /\ queue' = queue /\ disk' = disk
    BY <1>2 DEF StartKafka, Ask
  <2>2. /\ asked' \in Seq(Requests) /\ asked' # <<>> /\ Last(asked') = request
        /\ Range(asked) \subseteq Range(asked')
    BY <1>0, <2>1, OneMoreAsked
  <2>3. IsDisk(iam, Range(asked'), disk)
    BY <1>0, <2>2, DiskStays
  <2>4. CASE request.acls = <<>>
    BY <1>0, <2>1, <2>2, <2>3, <2>4 DEF MigrateInv
  <2>5. CASE request.acls # <<>>
    <3>1. request.acls \in Seq(Acl)
      BY <2>1, MigrateAssumption
    <3>2. /\ Contents(found') = {<<Clean[acl.Principal], acl>> : acl \in Range(request.acls)}
          /\ Filled(found')
      BY <2>1, <2>5, <3>1, GroupsAreFilled
    <3>3. ExpectedIn(iam, request) = {<<Clean[acl.Principal], acl>> : acl \in Range(request.acls)}
      BY <2>1, Zenon DEF ExpectedIn
    <3>4. IsWhole(iam, request, found')
      <4>1. ExpectedIn(iam, request) = Contents(found')
        BY <3>2, <3>3
      <4>2. QED
        BY <2>1, <4>1, NothingToRead
    <3>5. QED
      BY <1>0, <2>1, <2>2, <2>3, <2>5, <3>2, <3>4 DEF MigrateInv
  <2>6. QED
    BY <2>4, <2>5
<1>3. ASSUME NEW request \in Requests, handleMigrateAclsAssets(request) PROVE MigrateInv'
  <2> DEFINE selected == {acl \in Range(request.acls) : acl.Principal \in request.selected}
             key == [p \in request.selected |-> p]
             main == GroupBy(Keeping(request.acls, selected), key)
             files == [main |-> main, inputs |-> request.target, report |-> None]
  <2>1. /\ request.source = "page" /\ asked' = Append(asked, request) /\ stage = "idle"
        /\ disk' = Put(disk, Dir(request), files)
        /\ iam' = iam /\ stage' = stage /\ queue' = queue /\ found' = found
    BY <1>3, Zenon DEF handleMigrateAclsAssets, Ask
  <2>2. /\ asked' \in Seq(Requests) /\ asked' # <<>> /\ Last(asked') = request
        /\ Range(asked') = Range(asked) \cup {request}
    BY <1>0, <2>1, OneMoreAsked
  <2>3. IsDisk(iam, Range(asked'), disk)
    BY <1>0, <2>2, DiskStays
  <2>4. request.acls \in Seq(Acl)
    BY <2>1, MigrateAssumption
  <2>5. Keeping(request.acls, selected) \in Seq(Acl) /\ Range(Keeping(request.acls, selected)) = selected
    <3>1. Keeping(request.acls, selected) \in Seq(Acl)
          /\ Range(Keeping(request.acls, selected)) = Range(request.acls) \cap selected
      BY <2>4, KeepingKeeps
    <3>2. QED
      BY <3>1
  <2>6. Contents(main) = {<<key[acl.Principal], acl>> : acl \in selected} /\ Filled(main)
    <3>1. /\ Contents(main) = {<<key[acl.Principal], acl>> : acl \in Range(Keeping(request.acls, selected))}
          /\ Filled(main)
      BY <2>5, GroupsAreFilled
    <3>2. QED
      BY <2>5, <3>1
  <2>7. {<<key[acl.Principal], acl>> : acl \in selected} = {<<acl.Principal, acl>> : acl \in selected}
    <3>1. \A acl \in selected : key[acl.Principal] = acl.Principal
      OBVIOUS
    <3> HIDE DEF selected, key
    <3>2. QED
      BY <3>1
  <2>8. ExpectedIn(iam, request) = {<<acl.Principal, acl>> : acl \in selected}
    BY <2>1, Zenon DEF ExpectedIn
  <2> HIDE DEF main
  <2>9. IsWhole(iam, request, main)
    <3>1. ExpectedIn(iam, request) = Contents(main)
      BY <2>6, <2>7, <2>8
    <3>2. QED
      BY <2>1, <3>1, NothingToRead
  <2>10. IsDirectory(iam, Range(asked'), Dir(request), files)
    BY <2>2, <2>6, <2>9 DEF IsDirectory, IsFiles
  <2>11. IsDisk(iam, Range(asked'), disk')
    BY <2>1, <2>3, <2>10, OneMoreWritten
  <2>12. QED
    BY <1>0, <2>1, <2>2, <2>11 DEF MigrateInv
<1>4. CASE ReadPolicies
  <2> DEFINE arn == Head(queue)
             acls == AclsIn(iam, arn)
  <2>1. /\ stage = "reading" /\ queue # <<>> /\ Known(iam, arn)
        /\ found' = IF acls = <<>> THEN found ELSE Put(found, Account(arn), Get(found, Account(arn), <<>>) \o acls)
        /\ queue' = Tail(queue)
        /\ iam' = iam /\ asked' = asked /\ stage' = stage /\ disk' = disk
    BY <1>4, Zenon DEF ReadPolicies, InIam, Known, Collect, AclsIn, AclsOf, GetPrincipalPolicies
  <2>2. /\ Last(asked).source \in {"arn", "clients"} /\ queue \in Seq(PrincipalArn) /\ Collected(found)
    BY <1>0, <2>1 DEF IsRead
  <2>3. PICK read \in SUBSET PrincipalArn :
           /\ Range(PrincipalArns(Last(asked))) = read \cup Range(queue)
           /\ \A a \in read : Known(iam, a)
           /\ Contents(found) = ReadOf(iam, read)
    BY <1>0, <2>1 DEF IsRead
  <2>4. arn \in PrincipalArn /\ queue' \in Seq(PrincipalArn) /\ Range(queue) = {arn} \cup Range(queue')
    <3>1. \A i \in 1..Len(queue') : queue'[i] = queue[i + 1]
      BY <2>1, <2>2
    <3>2. Len(queue) = Len(queue') + 1 /\ Len(queue') \in Nat /\ DOMAIN queue = 1..Len(queue) /\ DOMAIN queue' = 1..Len(queue')
      BY <2>1, <2>2
    <3>3. arn = queue[1] /\ arn \in PrincipalArn /\ queue' \in Seq(PrincipalArn)
      BY <2>1, <2>2
    <3>4. Range(queue) \subseteq {arn} \cup Range(queue')
      <4> SUFFICES ASSUME NEW i \in 1..Len(queue), i # 1 PROVE queue[i] \in Range(queue')
        BY <3>2, <3>3 DEF Range
      <4>1. i - 1 \in 1..Len(queue') /\ queue'[i - 1] = queue[i]
        BY <3>1, <3>2
      <4>2. QED
        BY <3>2, <4>1 DEF Range
    <3>5. {arn} \cup Range(queue') \subseteq Range(queue)
      BY <3>1, <3>2, <3>3 DEF Range
    <3>6. QED
      BY <3>3, <3>4, <3>5
  <2>5. acls \in Seq(AclsFor(Account(arn)))
    BY <1>0, <2>1, AclsOfPrincipal
  <2> HIDE DEF acls, arn
  <2>6. Collected(found') /\ Filled(found') /\ Contents(found') = Contents(found) \cup Entered(Account(arn), acls)
    <3>1. CASE acls = <<>>
      <4>1. Entered(Account(arn), acls) = {}
        BY <3>1 DEF Entered, Range
      <4>2. QED
        BY <1>0, <2>1, <2>2, <3>1, <4>1
    <3>2. CASE acls # <<>>
      <4> DEFINE more == Put(found, Account(arn), Get(found, Account(arn), <<>>) \o acls)
      <4>1. Collected(more) /\ Filled(more) /\ Contents(more) = Contents(found) \cup Entered(Account(arn), acls)
        BY <1>0, <2>2, <2>5, <3>2, OneMoreCollected
      <4> HIDE DEF more
      <4>2. found' = more
        BY <2>1, <3>2 DEF more
      <4>3. QED
        BY <4>1, <4>2
    <3>3. QED
      BY <3>1, <3>2
  <2>7. IsRead(iam, Last(asked), queue', found')
    <3>1. read \cup {arn} \in SUBSET PrincipalArn
      BY <2>4
    <3>2. Range(PrincipalArns(Last(asked))) = (read \cup {arn}) \cup Range(queue')
      BY <2>3, <2>4
    <3>3. \A a \in read \cup {arn} : Known(iam, a)
      BY <2>1, <2>3
    <3>4. Contents(found') = ReadOf(iam, read \cup {arn})
      <4>1. ReadOf(iam, read \cup {arn}) = ReadOf(iam, read) \cup Entered(Account(arn), acls)
        BY DEF ReadOf, acls
      <4>2. QED
        BY <2>3, <2>6, <4>1
    <3>5. QED
      BY <2>2, <2>4, <2>6, <3>1, <3>2, <3>3, <3>4 DEF IsRead
  <2>8. QED
    BY <1>0, <2>1, <2>6, <2>7 DEF MigrateInv
<1>5. CASE ReadFails \/ Panic \/ Stop
  <2>1. Abort /\ iam' = iam /\ asked' = asked /\ disk' = disk
    BY <1>5 DEF ReadFails, Panic, Stop
  <2>2. QED
    BY <1>0, <1>a, <2>1
<1>6. CASE AllRead
  <2>1. /\ stage = "reading" /\ queue = <<>> /\ iam' = iam /\ asked' = asked /\ disk' = disk
        /\ IF found = None THEN Abort ELSE stage' = "main" /\ queue' = queue /\ found' = found
    BY <1>6 DEF AllRead
  <2>2. CASE found = None
    BY <1>0, <1>a, <2>1, <2>2
  <2>3. CASE found # None
    <3>1. PICK read \in SUBSET PrincipalArn :
             /\ Range(PrincipalArns(Last(asked))) = read \cup Range(queue)
             /\ \A a \in read : Known(iam, a)
             /\ Contents(found) = ReadOf(iam, read)
      BY <1>0, <2>1 DEF IsRead
    <3>2. Range(PrincipalArns(Last(asked))) = read
      <4>1. Range(queue) = {}
        BY <2>1 DEF Range
      <4>2. QED
        BY <3>1, <4>1
    <3>3. Last(asked) \in Requests /\ Last(asked).source \in {"arn", "clients"}
      BY <1>0, <2>1, LastIsAsked DEF IsRead
    <3>4. ExpectedIn(iam, Last(asked)) = ReadOf(iam, read)
      BY <3>2, <3>3, StartsReading
    <3>5. IsWhole(iam, Last(asked), found)
      BY <3>1, <3>2, <3>4 DEF IsWhole
    <3>6. QED
      BY <1>0, <2>1, <2>3, <3>5 DEF MigrateInv
  <2>4. QED
    BY <2>2, <2>3
<1> DEFINE dir == Dir(Request)
           old == FilesOf(dir)
<1>7. IsDirectory(iam, Range(asked), dir, old)
  <2>1. CASE dir \in DOMAIN disk
    BY <1>0, <2>1 DEF IsDisk, FilesOf, Get
  <2>2. CASE dir \notin DOMAIN disk
    <3>1. old = [main |-> None, inputs |-> NoFiles, report |-> None]
      BY <2>2 DEF FilesOf, Get
    <3>2. QED
      BY <3>1, NothingIsFilled DEF IsDirectory, IsFiles
  <2>3. QED
    BY <2>1, <2>2
<1>8. old = [main |-> old.main, inputs |-> old.inputs, report |-> old.report]
  BY <1>7 DEF IsDirectory, IsFiles
<1> HIDE DEF dir, old
<1>9. CASE writeMain
  <2> DEFINE new == [old EXCEPT !.main = found]
  <2>1. /\ stage = "main" /\ stage' = "inputs" /\ disk' = Put(disk, dir, new)
        /\ iam' = iam /\ asked' = asked /\ queue' = queue /\ found' = found
    BY <1>9 DEF writeMain, dir, old
  <2>2. new = [main |-> found, inputs |-> old.inputs, report |-> old.report]
    BY <1>8
  <2> HIDE DEF new
  <2>3. Last(asked) \in Range(asked) /\ Dir(Last(asked)) = dir
    BY <1>0, <2>1, LastIsAsked DEF dir, Request
  <2>4. IsDirectory(iam, Range(asked), dir, new)
    <3>1. new.main = found /\ IsFiles(new)
      BY <2>2 DEF IsFiles
    <3>2. QED
      BY <1>0, <2>1, <2>3, <3>1 DEF IsDirectory
  <2>5. IsDisk(iam, Range(asked), disk')
    BY <1>0, <2>1, <2>4, OneMoreWritten
  <2>6. QED
    BY <1>0, <2>1, <2>5 DEF MigrateInv
<1>10. CASE writeInputs
  <2> DEFINE new == [old EXCEPT !.inputs = Request.target]
  <2>1. /\ stage = "inputs" /\ disk' = Put(disk, dir, new) /\ iam' = iam /\ asked' = asked
        /\ IF Request.skip THEN Abort ELSE stage' = "report" /\ queue' = queue /\ found' = found
    BY <1>10 DEF writeInputs, dir, old
  <2>2. new = [main |-> old.main, inputs |-> Request.target, report |-> old.report]
    BY <1>8
  <2> HIDE DEF new
  <2>3. IsDirectory(iam, Range(asked), dir, new)
    <3>1. new.main = old.main /\ IsFiles(new)
      BY <2>2 DEF IsFiles
    <3>2. QED
      BY <1>7, <3>1 DEF IsDirectory
  <2>4. IsDisk(iam, Range(asked), disk')
    BY <1>0, <2>1, <2>3, OneMoreWritten
  <2>5. CASE Abort
    BY <1>a, <2>1, <2>4, <2>5
  <2>6. CASE stage' = "report" /\ queue' = queue /\ found' = found
    BY <1>0, <2>1, <2>4, <2>6 DEF MigrateInv
  <2>7. QED
    BY <2>1, <2>5, <2>6
<1>11. CASE writeReport
  <2> DEFINE new == [old EXCEPT !.report = found]
  <2>1. disk' = Put(disk, dir, new) /\ Abort /\ iam' = iam /\ asked' = asked
    BY <1>11 DEF writeReport, dir, old
  <2>2. new = [main |-> old.main, inputs |-> old.inputs, report |-> found]
    BY <1>8
  <2> HIDE DEF new
  <2>3. IsDirectory(iam, Range(asked), dir, new)
    <3>1. new.main = old.main /\ IsFiles(new)
      BY <2>2 DEF IsFiles
    <3>2. QED
      BY <1>7, <3>1 DEF IsDirectory
  <2>4. IsDisk(iam, Range(asked), disk')
    BY <1>0, <2>1, <2>3, OneMoreWritten
  <2>5. QED
    BY <1>a, <2>1, <2>4
<1>12. CASE UNCHANGED migrateVars
  BY <1>0, <1>12 DEF migrateVars, MigrateInv
<1>13. QED
  BY <1>1, <1>2, <1>3, <1>4, <1>5, <1>6, <1>9, <1>10, <1>11, <1>12, Zenon DEF MigrateNext

\* The state of the commands is always as described.
THEOREM MigrateInvariance == MigrateSpec => []MigrateInv
<1>1. MigrateInit => MigrateInv
  <2> SUFFICES ASSUME MigrateInit PROVE MigrateInv
    OBVIOUS
  <2>1. iam \in Worlds /\ asked = <<>> /\ stage = "idle" /\ found = None /\ disk = None
    BY DEF MigrateInit
  <2>2. IsDisk(iam, Range(asked), disk)
    BY <2>1 DEF IsDisk, None
  <2>3. asked \in Seq(Requests)
    BY <2>1
  <2>4. QED
    BY <2>1, <2>2, <2>3, NothingIsFilled DEF MigrateInv
<1>2. QED
  BY <1>1, MigrateStep, PTL DEF MigrateSpec

\* The ACLs in question are those of the proof's own operators.
LEMMA InTheWorld ==
  /\ \A request : Expected(request) = ExpectedIn(iam, request)
  /\ \A request : Readable(request) <=> \A arn \in Range(PrincipalArns(request)) : Known(iam, arn)
<1>1. \A arn : AclsOf(arn) = AclsIn(iam, arn)
  BY DEF AclsOf, AclsIn, GetPrincipalPolicies
<1>2. \A request : Expected(request) = ExpectedIn(iam, request)
  <2> TAKE request
  <2>1. UNION {{<<Account(arn), acl>> : acl \in Range(AclsOf(arn))} : arn \in Range(PrincipalArns(request))}
          = ReadOf(iam, Range(PrincipalArns(request)))
    BY <1>1 DEF ReadOf, Entered
  <2>2. QED
    BY <2>1, Zenon DEF Expected, ExpectedIn
<1>3. \A request : Readable(request) <=> \A arn \in Range(PrincipalArns(request)) : Known(iam, arn)
  BY DEF Readable, InIam, Known
<1>4. QED
  BY <1>2, <1>3

\* Whatever fails and wherever a run ends, main.tf holds every ACL of every
\* principal of one of the requests made for its directory, and nothing else.
THEOREM EveryPrincipalEverywhere == MigrateSpec => []EveryPrincipalIsWritten
<1>1. MigrateInv => EveryPrincipalIsWritten
  <2> SUFFICES ASSUME MigrateInv, NEW dir \in DOMAIN disk, disk[dir].main # None
               PROVE  \E request \in Asked(dir) : Readable(request) /\ Expected(request) = Contents(disk[dir].main)
    BY DEF EveryPrincipalIsWritten
  <2>1. PICK request \in Range(asked) : Dir(request) = dir /\ IsWhole(iam, request, disk[dir].main)
    BY DEF MigrateInv, IsDisk, IsDirectory
  <2>2. request \in Asked(dir)
    BY <2>1 DEF Asked
  <2>3. QED
    BY <2>1, <2>2, InTheWorld DEF IsWhole
<1>2. QED
  BY <1>1, MigrateInvariance, PTL

-----------------------------------------------------------------------------
(* What the ACLs mean.                                                     *)

\* One piece of the name per token of the pattern.
IsCut(cut, pattern, name) ==
  /\ cut \in [0..Len(pattern) -> 0..Len(name)]
  /\ cut[0] = 0
  /\ cut[Len(pattern)] = Len(name)
  /\ \A i \in DOMAIN pattern :
         IF pattern[i] = Star THEN cut[i - 1] <= cut[i]
         ELSE cut[i] = cut[i - 1] + 1 /\ name[cut[i]] = pattern[i]

\* A pattern matches when the name can be cut so.
LEMMA MatchesIsCut == \A pattern, name : Matches(pattern, name) <=> \E cut : IsCut(cut, pattern, name)
BY Zenon DEF Matches, IsCut

\* Up to the first star every piece is one token.
LEMMA PiecesOfOne ==
  ASSUME NEW pattern \in Seq(STRING), NEW name \in Seq(STRING), NEW cut, IsCut(cut, pattern, name),
         NEW n \in 0..Len(pattern), \A i \in 1..n : pattern[i] # Star
  PROVE  cut[n] = n /\ n <= Len(name) /\ \A i \in 1..n : name[i] = pattern[i]
<1> DEFINE good == {i \in 0..n : cut[i] = i /\ \A j \in 1..i : name[j] = pattern[j]}
<1>1. /\ DOMAIN pattern = 1..Len(pattern) /\ Len(pattern) \in Nat /\ Len(name) \in Nat /\ n \in Nat
      /\ cut \in [0..Len(pattern) -> 0..Len(name)] /\ cut[0] = 0
      /\ \A i \in 1..n : cut[i] = cut[i - 1] + 1 /\ name[cut[i]] = pattern[i]
  <2>1. DOMAIN pattern = 1..Len(pattern) /\ Len(pattern) \in Nat /\ Len(name) \in Nat /\ n \in Nat
    OBVIOUS
  <2>2. /\ cut \in [0..Len(pattern) -> 0..Len(name)] /\ cut[0] = 0
        /\ \A i \in DOMAIN pattern : pattern[i] # Star => cut[i] = cut[i - 1] + 1 /\ name[cut[i]] = pattern[i]
    BY Zenon DEF IsCut
  <2>3. \A i \in 1..n : i \in DOMAIN pattern
    BY <2>1
  <2>4. QED
    BY <2>1, <2>2, <2>3
<1>2. 0 \in good
  BY <1>1
<1>3. \A i \in 1..n : i - 1 \in good => i \in good
  BY <1>1
<1> HIDE DEF good
<1>4. n \in good
  BY <1>1, <1>2, <1>3, Rounds
<1>5. cut[n] = n /\ \A i \in 1..n : name[i] = pattern[i]
  BY <1>4 DEF good
<1>6. cut[n] \in 0..Len(name)
  BY <1>1
<1>7. QED
  BY <1>1, <1>5, <1>6

\* A pattern without a star matches the name it is.
LEMMA NameMatches ==
  ASSUME NEW pattern \in Seq(STRING), NEW name \in Seq(STRING), \A i \in 1..Len(pattern) : pattern[i] # Star
  PROVE  Matches(pattern, name) <=> name = pattern
<1>1. ASSUME NEW cut, IsCut(cut, pattern, name) PROVE name = pattern
  <2>1. Len(pattern) \in 0..Len(pattern) /\ cut[Len(pattern)] = Len(name)
    BY <1>1 DEF IsCut
  <2>2. Len(name) = Len(pattern) /\ \A i \in 1..Len(pattern) : name[i] = pattern[i]
    BY <1>1, <2>1, PiecesOfOne
  <2>3. QED
    BY <2>2
<1>2. ASSUME name = pattern PROVE IsCut([i \in 0..Len(pattern) |-> i], pattern, name)
  BY <1>2 DEF IsCut
<1>3. QED
  BY <1>1, <1>2, MatchesIsCut

\* One whose only star ends it matches the names with its prefix.
LEMMA PrefixMatches ==
  ASSUME NEW pattern \in Seq(STRING) \ {<<>>}, NEW name \in Seq(STRING), Last(pattern) = Star,
         \A i \in 1..(Len(pattern) - 1) : pattern[i] # Star
  PROVE  Matches(pattern, name) <=> IsPrefix(Front(pattern), name)
<1> DEFINE n == Len(pattern) - 1
<1>1. n \in Nat /\ n \in 0..Len(pattern) /\ Len(pattern) = n + 1 /\ Len(name) \in Nat /\ pattern[n + 1] = Star
      /\ DOMAIN pattern = 1..(n + 1)
  BY DEF Last
<1>2. IsPrefix(Front(pattern), name) <=> n <= Len(name) /\ \A i \in 1..n : name[i] = pattern[i]
  <2>1. Front(pattern) \in Seq(STRING) /\ Len(Front(pattern)) = n /\ \A i \in 1..n : Front(pattern)[i] = pattern[i]
    BY <1>1 DEF Front
  <2> HIDE DEF n
  <2>2. SubSeq(Front(pattern), 1, n) = Front(pattern)
    BY <1>1, <2>1
  <2>3. IsPrefix(Front(pattern), name) <=> n <= Len(name) /\ Front(pattern) = SubSeq(name, 1, n)
    BY <2>1, <2>2 DEF IsPrefix
  <2>4. ASSUME n <= Len(name)
        PROVE  /\ SubSeq(name, 1, n) \in Seq(STRING) /\ Len(SubSeq(name, 1, n)) = n
               /\ \A i \in 1..n : SubSeq(name, 1, n)[i] = name[i]
    BY <1>1, <2>4
  <2>5. ASSUME n <= Len(name)
        PROVE  Front(pattern) = SubSeq(name, 1, n) <=> \A i \in 1..n : name[i] = pattern[i]
    <3>1. ASSUME \A i \in 1..n : name[i] = pattern[i] PROVE Front(pattern) = SubSeq(name, 1, n)
      <4> DEFINE a == Front(pattern)
                 b == SubSeq(name, 1, n)
      <4>1. a \in Seq(STRING) /\ b \in Seq(STRING) /\ Len(a) = n /\ Len(b) = n /\ \A i \in 1..n : a[i] = b[i]
        BY <2>1, <2>4, <2>5, <3>1
      <4> HIDE DEF a, b
      <4>2. a = b
        BY <4>1
      <4>3. QED
        BY <4>2 DEF a, b
    <3>2. QED
      BY <2>1, <2>4, <2>5, <3>1
  <2>6. QED
    BY <2>3, <2>5
<1>3. ASSUME NEW cut, IsCut(cut, pattern, name) PROVE n <= Len(name) /\ \A i \in 1..n : name[i] = pattern[i]
  BY <1>1, <1>3, PiecesOfOne
<1>4. ASSUME n <= Len(name), \A i \in 1..n : name[i] = pattern[i] PROVE \E cut : IsCut(cut, pattern, name)
  <2> DEFINE cut == [i \in 0..(n + 1) |-> IF i <= n THEN i ELSE Len(name)]
  <2>0. \A i \in 1..n : pattern[i] # Star
    OBVIOUS
  <2> HIDE DEF n
  <2>1. cut \in [0..Len(pattern) -> 0..Len(name)] /\ cut[0] = 0 /\ cut[Len(pattern)] = Len(name)
    BY <1>1, <1>4
  <2>2. \A i \in 1..n : cut[i] = cut[i - 1] + 1 /\ name[cut[i]] = pattern[i]
    BY <1>1, <1>4
  <2>3. cut[n] <= cut[n + 1]
    BY <1>1, <1>4
  <2>4. \A i \in 1..(n + 1) : IF pattern[i] = Star THEN cut[i - 1] <= cut[i]
                              ELSE cut[i] = cut[i - 1] + 1 /\ name[cut[i]] = pattern[i]
    <3> TAKE i \in 1..(n + 1)
    <3>1. CASE i \in 1..n
      BY <2>0, <2>2, <3>1
    <3>2. CASE i = n + 1
      BY <1>1, <2>3, <3>2
    <3>3. i \in 1..n \/ i = n + 1
      BY <1>1
    <3>4. QED
      BY <3>1, <3>2, <3>3
  <2> HIDE DEF cut
  <2>5. IsCut(cut, pattern, name)
    BY <1>1, <2>1, <2>4 DEF IsCut
  <2>6. QED
    BY <2>5
<1>5. QED
  BY <1>2, <1>3, <1>4, MatchesIsCut

\* The resource an ACL gets stands for the names the ARN stands for.
Stands(resource, type, name) ==
  \/ resource.name = Anything
  \/ type = "Cluster"
  \/ resource.pattern = "PREFIXED" /\ IsPrefix(resource.name, name)
  \/ resource.pattern = "LITERAL" /\ resource.name = name

\* determineResourceNameAndPattern keeps what a pattern matches, unless a star is
\* inside it.
LEMMA NamesAreKept ==
  ASSUME NEW pattern \in Seq(STRING) \ {<<>>}, NEW name \in Seq(STRING), NEW type, type # "Cluster",
         pattern = Anything \/ Star \notin Range(Front(pattern))
  PROVE  Stands(determineResourceNameAndPattern(pattern), type, name) <=> Matches(pattern, name)
<1>1. CASE pattern = Anything
  <2>1. determineResourceNameAndPattern(pattern) = [name |-> Anything, pattern |-> "LITERAL"]
    BY <1>1 DEF determineResourceNameAndPattern
  <2>2. Last(pattern) = Star /\ Len(pattern) - 1 = 0
    BY <1>1 DEF Anything, Last
  <2>3. IsPrefix(Front(pattern), name)
    BY <1>1 DEF Anything, Front, IsPrefix
  <2>4. Matches(pattern, name)
    <3> DEFINE n == Len(pattern) - 1
    <3>1. n = 0
      BY <2>2
    <3> HIDE DEF n
    <3>2. \A i \in 1..n : pattern[i] # Star
      BY <3>1
    <3>3. \A i \in 1..(Len(pattern) - 1) : pattern[i] # Star
      BY <3>2 DEF n
    <3>4. QED
      BY <2>2, <2>3, <3>3, PrefixMatches
  <2>5. QED
    BY <2>1, <2>4 DEF Stands
<1>2. CASE pattern # Anything
  <2>1. Len(pattern) \in Nat \ {0} /\ \A i \in 1..(Len(pattern) - 1) : pattern[i] # Star
    <3>1. Len(pattern) \in Nat \ {0}
      OBVIOUS
    <3>2. DOMAIN Front(pattern) = 1..(Len(pattern) - 1) /\ \A i \in 1..(Len(pattern) - 1) : Front(pattern)[i] = pattern[i]
      BY <3>1 DEF Front
    <3>3. QED
      BY <1>2, <3>1, <3>2 DEF Range
  <2>2. CASE Last(pattern) = Star
    <3>1. Len(pattern) # 1
      <4>1. SUFFICES ASSUME Len(pattern) = 1 PROVE pattern = <<Star>>
        BY <1>2 DEF Anything
      <4>2. pattern[1] = Star
        BY <2>2, <4>1 DEF Last
      <4>3. QED
        BY <4>1, <4>2
    <3>2. Head(pattern) # Star
      <4> DEFINE n == Len(pattern) - 1
      <4>1. n \in Nat /\ 1 <= n
        <5>1. PICK k \in Nat : k = Len(pattern)
          OBVIOUS
        <5>2. k # 0 /\ k # 1
          BY <2>1, <3>1, <5>1
        <5>3. k - 1 \in Nat /\ 1 <= k - 1
          BY <5>2
        <5>4. QED
          BY <5>1, <5>3
      <4> HIDE DEF n
      <4>2. 1 \in 1..n
        BY <4>1
      <4>3. Head(pattern) = pattern[1]
        OBVIOUS
      <4>4. QED
        BY <2>1, <4>2, <4>3 DEF n
    <3>3. determineResourceNameAndPattern(pattern) = [name |-> Front(pattern), pattern |-> "PREFIXED"]
      BY <1>2, <2>2, <3>2 DEF determineResourceNameAndPattern
    <3>4. Front(pattern) # Anything
      <4>1. SUFFICES ASSUME Front(pattern) = <<Star>> PROVE Star \in Range(Front(pattern))
        BY <1>2 DEF Anything
      <4>2. QED
        BY <4>1 DEF Range
    <3>5. QED
      BY <2>1, <2>2, <3>3, <3>4, PrefixMatches DEF Stands
  <2>3. CASE Last(pattern) # Star
    <3>1. determineResourceNameAndPattern(pattern) = [name |-> pattern, pattern |-> "LITERAL"]
      BY <2>3 DEF determineResourceNameAndPattern
    <3>2. \A i \in 1..Len(pattern) : pattern[i] # Star
      BY <2>1, <2>3 DEF Last
    <3>3. Matches(pattern, name) <=> name = pattern
      BY <3>2, NameMatches
    <3>4. QED
      BY <1>2, <3>1, <3>3 DEF Stands
  <2>4. QED
    BY <2>2, <2>3
<1>3. QED
  BY <1>1, <1>2

\* So does the resource of a statement's ACL, when the statement is translatable.
LEMMA ResourcesAreKept ==
  ASSUME NEW arn \in ResourceArn, NEW action \in KafkaAction, NEW name \in Seq(STRING),
         \/ arn.type = "Any"
         \/ /\ arn.type = AclMap[action].ResourceType
            /\ ~arn.wild
            /\ arn.pattern = Anything \/ Star \notin Range(Front(arn.pattern))
  PROVE  Stands(parseKafkaResourceFromArn(arn, AclMap[action].ResourceType), AclMap[action].ResourceType, name) <=>
           \/ arn.type = "Any"
           \/ arn.type = AclMap[action].ResourceType /\ (arn.type = "Cluster" \/ Matches(arn.pattern, name))
<1> DEFINE type == AclMap[action].ResourceType
           resource == parseKafkaResourceFromArn(arn, type)
<1> HIDE DEF type, resource
<1>1. CASE arn.type = "Any"
  <2>1. resource = [name |-> Anything, pattern |-> "LITERAL"]
    BY <1>1, TypeOfMapping DEF resource, type, parseKafkaResourceFromArn
  <2>2. QED
    BY <1>1, <2>1 DEF Stands, resource, type
<1>2. CASE arn.type # "Any" /\ type = "Cluster"
  BY <1>2 DEF Stands, type
<1>3. CASE arn.type # "Any" /\ type # "Cluster"
  <2>1. arn.type = type /\ ~arn.wild /\ (arn.pattern = Anything \/ Star \notin Range(Front(arn.pattern)))
    BY <1>3 DEF type
  <2>2. resource = determineResourceNameAndPattern(arn.pattern)
    BY <1>3, <2>1 DEF resource, parseKafkaResourceFromArn
  <2>3. arn.pattern \in Seq(STRING) \ {<<>>}
    BY DEF ResourceArn
  <2>4. Stands(resource, type, name) <=> Matches(arn.pattern, name)
    BY <1>3, <2>1, <2>2, <2>3, NamesAreKept
  <2>5. QED
    BY <1>3, <2>1, <2>4 DEF resource, type
<1>4. QED
  BY <1>1, <1>2, <1>3

\* The ACL of an action is about that action only.
LEMMA AclIsOfItsAction ==
  ASSUME NEW account, NEW s, NEW b \in KafkaAction, NEW action \in KafkaAction, NEW name,
         Concerns(createACLFromMapping(account, b, s), action, name)
  PROVE  b = action
<1> DEFINE acl == createACLFromMapping(account, b, s)
<1>1. acl.ResourceType = AclMap[b].ResourceType /\ acl.Operation = AclMap[b].Operation
  BY DEF createACLFromMapping
<1>2. acl.ResourceType = AclMap[action].ResourceType /\ acl.Operation = AclMap[action].Operation
  BY DEF Concerns
<1> HIDE DEF acl
<1>3. QED
  BY <1>1, <1>2, ActionOfMapping

\* The statement allows or denies the action for the name.
LEMMA AclSaysTheSame ==
  ASSUME NEW account, NEW s \in Statement, NEW action \in KafkaAction, NEW name \in Seq(STRING), Translatable(s, action)
  PROVE  /\ createACLFromMapping(account, action, s).PermissionType = s.effect
         /\ Concerns(createACLFromMapping(account, action, s), action, name) <=> Applies(s, action, name)
<1> DEFINE mapping == AclMap[action]
           acl == createACLFromMapping(account, action, s)
           arn == s.resources[1]
           resource == IF mapping.RequiresPattern /\ s.resources # <<>>
                       THEN parseKafkaResourceFromArn(s.resources[1], mapping.ResourceType)
                       ELSE [name |-> Anything, pattern |-> "LITERAL"]
<1>1. acl = [ResourceType |-> mapping.ResourceType, ResourceName |-> resource.name,
             ResourcePatternType |-> resource.pattern, Principal |-> account,
             Operation |-> mapping.Operation, PermissionType |-> s.effect]
  BY Zenon DEF createACLFromMapping
<1>2. s.resources \in Seq(ResourceArn) /\ Len(s.resources) = 1
  BY DEF Translatable, Statement
<1>3. arn \in ResourceArn /\ s.resources # <<>> /\ Range(s.resources) = {arn}
  BY <1>2 DEF Range
<1>4. \/ arn.type = "Any"
      \/ /\ arn.type = mapping.ResourceType
         /\ ~arn.wild
         /\ arn.pattern = Anything \/ Star \notin Range(Front(arn.pattern))
  BY Zenon DEF Translatable
<1>5. action \in CoveredBy(s)
  <2>1. PICK a \in Range(s.actions) : a = action \/ a = AllActions
    BY DEF Translatable
  <2>2. Covered(a) \subseteq CoveredBy(s)
    BY <2>1 DEF CoveredBy
  <2>3. action \in Covered(a)
    BY <2>1, CoversItself
  <2>4. QED
    BY <2>2, <2>3
<1>6. Applies(s, action, name) <=>
         \/ arn.type = "Any"
         \/ arn.type = mapping.ResourceType /\ (arn.type = "Cluster" \/ Matches(arn.pattern, name))
  BY <1>3, <1>5, Zenon DEF Applies
<1>7. mapping.RequiresPattern \/ (~mapping.RequiresPattern /\ mapping.ResourceType = "Cluster")
  BY PatternOfMapping, Zenon
<1> HIDE DEF resource, arn
<1>8. Concerns(acl, action, name) <=> Stands(resource, mapping.ResourceType, name)
  BY <1>1 DEF Concerns, Stands
<1>9. Stands(resource, mapping.ResourceType, name) <=> Applies(s, action, name)
  <2>1. CASE mapping.RequiresPattern
    <3>1. resource = parseKafkaResourceFromArn(arn, AclMap[action].ResourceType)
      BY <1>3, <2>1 DEF resource, arn
    <3>2. QED
      BY <1>3, <1>4, <1>6, <3>1, ResourcesAreKept
  <2>2. CASE ~mapping.RequiresPattern
    <3>1. Stands(resource, mapping.ResourceType, name)
      BY <1>7, <2>2 DEF Stands
    <3>2. Applies(s, action, name)
      BY <1>4, <1>6, <1>7, <2>2
    <3>3. QED
      BY <3>1, <3>2
  <2>3. QED
    BY <1>7, <2>1, <2>2
<1>10. QED
  BY <1>1, <1>8, <1>9

\* The ACLs made of statements allow what the statements allow.
THEOREM TranslationMeansTheSame ==
  ASSUME NEW account, NEW statements, statements \subseteq Statement,
         NEW action \in KafkaAction, NEW name \in Seq(STRING), ~Lossy(statements, action)
  PROVE  KafkaAllows(Given(account, statements), action, name) <=> IamAllows(statements, action, name)
<1> DEFINE Says(effect) == \E acl \in Given(account, statements) : acl.PermissionType = effect /\ Concerns(acl, action, name)
           Means(effect) == \E s \in statements : s.effect = effect /\ Applies(s, action, name)
           Made(s) == createACLFromMapping(account, action, s)
<1>1. \A s \in statements : action \in CoveredBy(s) => Translatable(s, action)
  BY DEF Lossy
<1>2. \A s \in statements : Translatable(s, action) =>
         Made(s).PermissionType = s.effect /\ (Concerns(Made(s), action, name) <=> Applies(s, action, name))
  BY AclSaysTheSame
<1>3. \A s \in statements : action \in Translated(s) => action \in CoveredBy(s)
  <2> SUFFICES ASSUME NEW s \in statements, action \in Translated(s) PROVE action \in CoveredBy(s)
    OBVIOUS
  <2>1. PICK a \in Range(s.actions) : a = action \/ a = AllActions
    BY TranslatedActions
  <2>2. Covered(a) \subseteq CoveredBy(s)
    BY <2>1 DEF CoveredBy
  <2>3. action \in Covered(a)
    BY <2>1, CoversItself
  <2>4. QED
    BY <2>2, <2>3
<1>4. \A s \in statements : Translatable(s, action) => action \in Translated(s)
  <2> SUFFICES ASSUME NEW s \in statements, Translatable(s, action) PROVE action \in Translated(s)
    OBVIOUS
  <2>1. \E a \in Range(s.actions) : a = action \/ a = AllActions
    BY DEF Translatable
  <2>2. QED
    BY <2>1, TranslatedActions
<1>5. ASSUME NEW effect, Says(effect) PROVE Means(effect)
  <2>1. PICK acl \in Given(account, statements) : acl.PermissionType = effect /\ Concerns(acl, action, name)
    BY <1>5
  <2>2. PICK s \in statements : acl \in GivenBy(account, s)
    BY <2>1 DEF Given
  <2>3. PICK b \in Translated(s) : acl = createACLFromMapping(account, b, s)
    BY <2>2 DEF GivenBy
  <2>4. b \in KafkaAction
    BY <2>3, TranslatedActions
  <2>5. b = action
    BY <2>1, <2>3, <2>4, AclIsOfItsAction
  <2>6. Translatable(s, action)
    BY <1>1, <1>3, <2>3, <2>5
  <2>7. s.effect = effect /\ Applies(s, action, name)
    BY <1>2, <2>1, <2>3, <2>5, <2>6
  <2>8. QED
    BY <2>7
<1>6. ASSUME NEW effect, Means(effect) PROVE Says(effect)
  <2>1. PICK s \in statements : s.effect = effect /\ Applies(s, action, name)
    BY <1>6
  <2>2. Translatable(s, action)
    BY <1>1, <2>1 DEF Applies
  <2>3. Made(s) \in Given(account, statements)
    BY <1>4, <2>2 DEF Given, GivenBy
  <2>4. Made(s).PermissionType = effect /\ Concerns(Made(s), action, name)
    BY <1>2, <2>1, <2>2
  <2> HIDE DEF Made
  <2>5. QED
    BY <2>3, <2>4
<1>7. \A effect : Says(effect) <=> Means(effect)
  BY <1>5, <1>6
<1> HIDE DEF Says, Means
<1>8. KafkaAllows(Given(account, statements), action, name) <=> Says("ALLOW") /\ ~Says("DENY")
  BY Zenon DEF KafkaAllows, Says
<1>9. IamAllows(statements, action, name) <=> Means("ALLOW") /\ ~Means("DENY")
  BY Zenon DEF IamAllows, Means
<1>10. QED
  BY <1>7, <1>8, <1>9

\* A directory tells which command its requests are of.
LEMMA DirectoriesTell ==
  ASSUME NEW a \in Requests, NEW b \in Requests, Dir(a) = Dir(b)
  PROVE  a.source = b.source /\ (a.source = "clients" => Dir(a) = <<"client-discovery-acls">>)
<1>1. \A r \in Requests : \/ r.source = "arn" /\ Dir(r) = <<Account(r.arn), "_iam_acls">>
                          \/ r.source = "clients" /\ Dir(r) = <<"client-discovery-acls">>
                          \/ r.source = "kafka" /\ Dir(r) = <<"cluster", "_kafka_acls">>
                          \/ r.source = "page" /\ Dir(r) = <<"browser">>
  <2> TAKE r \in Requests
  <2>1. r.source \in {"arn", "clients", "kafka", "page"}
    BY MigrateAssumption
  <2>2. QED
    BY <2>1 DEF Dir
<1>2. /\ <<"client-discovery-acls">> # <<"browser">> /\ <<"cluster", "_kafka_acls">> # <<"browser">>
      /\ <<"cluster", "_kafka_acls">> # <<"client-discovery-acls">>
      /\ \A account : /\ <<account, "_iam_acls">> # <<"client-discovery-acls">> /\ <<account, "_iam_acls">> # <<"browser">>
                      /\ <<account, "_iam_acls">> # <<"cluster", "_kafka_acls">>
  OBVIOUS
<1>3. QED
  BY <1>1, <1>2

\* A principal is read for an ARN of the request with its account, and is the
\* role or user that ARN acts as unless a client's path was taken for its name.
LEMMA PrincipalsHaveOwners ==
  ASSUME NEW world \in Worlds, NEW request \in Requests, request.source \in {"arn", "clients"},
         NEW p \in Range(PrincipalArns(request)), Known(world, p)
  PROVE  \E o \in Arns(request) :
            /\ Account(o) = Account(p)
            /\ \/ Identity(o) = extractPrincipalFromArn(p)
               \/ request.source = "clients" /\ o.kind # "assumed-role" /\ Len(o.segments) > 1
<1>1. p.kind \in {"role", "user"}
  BY AclsOfPrincipal
<1>2. CASE request.source = "arn"
  <2>1. p = request.arn /\ p \in Arns(request)
    <3>1. PrincipalArns(request) = <<request.arn>>
      BY <1>2 DEF PrincipalArns
    <3>2. p = request.arn
      BY <3>1 DEF Range
    <3>3. QED
      BY <1>2, <3>2 DEF Arns
  <2>2. Identity(p) = extractPrincipalFromArn(p)
    BY <1>1 DEF Identity, extractPrincipalFromArn, Role
  <2>3. QED
    BY <2>1, <2>2
<1>3. CASE request.source = "clients"
  <2>1. request.clients \in Seq(Client)
    BY <1>3, MigrateAssumption
  <2>2. PrincipalArns(request) = evaluatePrincipal(request.clients)
    BY <1>3 DEF PrincipalArns
  <2>3. PICK c \in IamClients(request.clients) : p = Cut(c.arn)
    BY <2>1, <2>2, PrincipalsOfClients
  <2>4. c.arn \in PrincipalArn /\ c.arn \in Arns(request)
    <3>1. c \in Range(request.clients) /\ c \in Client
      BY <2>1 DEF IamClients, Range
    <3>2. c.arn \in PrincipalArn
      BY <3>1 DEF Client
    <3>3. Arns(request) = {d.arn : d \in IamClients(request.clients)}
      BY <1>3, Zenon DEF Arns, IamClients
    <3>4. QED
      BY <3>2, <3>3
  <2>5. p.kind = Role(c.arn) /\ p.segments = <<c.arn.segments[1]>>
    BY <2>3, <2>4, CutIsArn
  <2>6. p.segments[1] = c.arn.segments[1] /\ Last(p.segments) = c.arn.segments[1]
    BY <2>5 DEF Last
  <2>7. Account(c.arn) = Account(p)
    BY <2>6 DEF Account
  <2>8. extractPrincipalFromArn(p) = <<Role(c.arn), c.arn.segments[1]>>
    BY <2>5, <2>6 DEF extractPrincipalFromArn
  <2>9. CASE c.arn.kind = "assumed-role"
    <3>1. Identity(c.arn) = <<Role(c.arn), c.arn.segments[1]>>
      BY <2>9 DEF Identity
    <3>2. QED
      BY <2>4, <2>7, <2>8, <3>1
  <2>10. CASE c.arn.kind # "assumed-role" /\ Len(c.arn.segments) > 1
    BY <1>3, <2>4, <2>7, <2>10
  <2>11. CASE c.arn.kind # "assumed-role" /\ ~(Len(c.arn.segments) > 1)
    <3>1. Len(c.arn.segments) = 1
      <4> DEFINE segments == c.arn.segments
      <4>1. segments \in Seq(STRING) /\ segments # <<>> /\ ~(Len(segments) > 1)
        BY <2>4, <2>11 DEF PrincipalArn
      <4> HIDE DEF segments
      <4>2. Len(segments) \in Nat /\ Len(segments) # 0
        BY <4>1
      <4>3. Len(segments) = 1
        <5>1. \A k \in Nat : k # 0 /\ ~(k > 1) => k = 1
          OBVIOUS
        <5>2. ~(Len(segments) > 1)
          BY <4>1
        <5> HIDE DEF segments
        <5>3. QED
          BY <4>2, <5>1, <5>2
      <4>4. QED
        BY <4>3 DEF segments
    <3>2. Identity(c.arn) = <<Role(c.arn), c.arn.segments[1]>>
      BY <2>11, <3>1 DEF Identity, Last
    <3>3. QED
      BY <2>4, <2>7, <2>8, <3>2
  <2>12. QED
    BY <2>9, <2>10, <2>11
<1>4. QED
  BY <1>2, <1>3

\* The ACLs of one account are those of the principals with its name.
LEMMA AclsOfAccount ==
  ASSUME NEW world, NEW principals, NEW main, Contents(main) = ReadOf(world, principals), NEW account \in DOMAIN main
  PROVE  Range(main[account]) = UNION {Range(AclsIn(world, p)) : p \in {q \in principals : Account(q) = account}}
<1>1. \A acl : acl \in Range(main[account]) <=> <<account, acl>> \in Contents(main)
  <2> TAKE acl
  <2>1. <<account, acl>> \in Contents(main) <=> \E a \in DOMAIN main : \E b \in Range(main[a]) : <<account, acl>> = <<a, b>>
    BY DEF Contents
  <2>2. QED
    BY <2>1
<1>2. \A acl : <<account, acl>> \in ReadOf(world, principals) <=>
                 \E p \in principals : Account(p) = account /\ acl \in Range(AclsIn(world, p))
  <2> TAKE acl
  <2>1. <<account, acl>> \in ReadOf(world, principals) <=>
          \E p \in principals : \E b \in Range(AclsIn(world, p)) : <<account, acl>> = <<Account(p), b>>
    BY DEF ReadOf, Entered
  <2>2. QED
    BY <2>1
<1>3. QED
  BY <1>1, <1>2

\* With the generated ACLs an account may do exactly what IAM allows the role or
\* user it was made for, but for what the translation is known to lose.
THEOREM TranslationAlwaysExplained == MigrateSpec => []TranslationExplained
<1>1. MigrateInv => TranslationExplained
  <2> SUFFICES ASSUME MigrateInv, NEW dir \in DOMAIN disk, NEW account \in DOMAIN disk[dir].main
               PROVE  LET owners == {arn \in UNION {Arns(r) : r \in Asked(dir)} : Account(arn) = account}
                      IN  \A arn \in owners :
                            \/ \E other \in owners : Identity(other) # Identity(arn)
                            \/ /\ dir = <<"client-discovery-acls">>
                               /\ \E other \in owners : other.kind # "assumed-role" /\ Len(other.segments) > 1
                            \/ LET statements == Statements(iam[Identity(arn)])
                                   acls == Range(disk[dir].main[account])
                               IN  \A action \in KafkaAction, name \in Names :
                                       \/ Lossy(statements, action)
                                       \/ KafkaAllows(acls, action, name) <=> IamAllows(statements, action, name)
    BY Zenon DEF TranslationExplained
  <2> DEFINE owners == {arn \in UNION {Arns(r) : r \in Asked(dir)} : Account(arn) = account}
  <2> SUFFICES ASSUME NEW arn \in owners,
                      \A other \in owners : Identity(other) = Identity(arn),
                      dir = <<"client-discovery-acls">> =>
                         \A other \in owners : ~(other.kind # "assumed-role" /\ Len(other.segments) > 1),
                      NEW action \in KafkaAction, NEW name \in Names,
                      ~Lossy(Statements(iam[Identity(arn)]), action)
               PROVE  KafkaAllows(Range(disk[dir].main[account]), action, name) <=>
                         IamAllows(Statements(iam[Identity(arn)]), action, name)
    OBVIOUS
  <2> DEFINE main == disk[dir].main
             policies == iam[Identity(arn)]
  <2>1. iam \in Worlds /\ asked \in Seq(Requests) /\ IsDirectory(iam, Range(asked), dir, disk[dir])
    BY DEF MigrateInv, IsDisk
  <2>2. Range(asked) \subseteq Requests
    BY <2>1 DEF Range
  <2>3. PICK r \in Range(asked) : Dir(r) = dir /\ arn \in Arns(r)
    BY DEF Asked
  <2>4. r.source \in {"arn", "clients"}
    BY <2>3 DEF Arns
  <2>5. main # None /\ Range(main[account]) # {}
    BY <2>1 DEF None, IsDirectory, Filled
  <2>6. PICK request \in Range(asked) : Dir(request) = dir /\ IsWhole(iam, request, main)
    BY <2>1, <2>5 DEF IsDirectory
  <2>7. /\ request.source \in {"arn", "clients"} /\ request \in Requests
        /\ request.source = "clients" => dir = <<"client-discovery-acls">>
    BY <2>2, <2>3, <2>4, <2>6, DirectoriesTell
  <2> DEFINE principals == Range(PrincipalArns(request))
             Mine == {q \in principals : Account(q) = account}
  <2>8. Contents(main) = ReadOf(iam, principals) /\ \A p \in principals : Known(iam, p)
    BY <2>6, <2>7, StartsReading DEF IsWhole
  <2>9. Range(main[account]) = UNION {Range(AclsIn(iam, p)) : p \in Mine}
    BY <2>8, AclsOfAccount
  <2>10. \A p \in Mine : extractPrincipalFromArn(p) = Identity(arn)
    <3> TAKE p \in Mine
    <3>1. PICK o \in Arns(request) :
             /\ Account(o) = Account(p)
             /\ \/ Identity(o) = extractPrincipalFromArn(p)
                \/ request.source = "clients" /\ o.kind # "assumed-role" /\ Len(o.segments) > 1
      BY <2>1, <2>7, <2>8, PrincipalsHaveOwners
    <3>2. o \in owners
      BY <2>6, <3>1 DEF Asked
    <3>3. QED
      BY <2>7, <3>1, <3>2
  <2> HIDE DEF main, owners
  <2>11. \A p \in Mine : /\ Range(AclsIn(iam, p)) = Given(account, Statements(policies))
                         /\ IsPolicies(policies)
    <3> TAKE p \in Mine
    <3>1. Known(iam, p) /\ Account(p) = account
      BY <2>8
    <3>2. /\ IsPolicies(iam[extractPrincipalFromArn(p)])
          /\ Range(AclsIn(iam, p)) = Given(Account(p), Statements(iam[extractPrincipalFromArn(p)]))
      BY <2>1, <3>1, AclsOfPrincipal
    <3>3. QED
      BY <2>10, <3>1, <3>2
  <2> HIDE DEF Mine, policies
  <2>12. Mine # {}
    BY <2>5, <2>9
  <2>13. Range(main[account]) = Given(account, Statements(policies)) /\ IsPolicies(policies)
    BY <2>9, <2>11, <2>12
  <2>14. Statements(policies) \subseteq Statement
    <3>1. policies.attached \in Seq(Document) /\ policies.inline \in Seq(Document)
      BY <2>13 DEF IsPolicies
    <3>2. Range(policies.attached \o policies.inline) \subseteq Document
      <4>1. Range(policies.attached \o policies.inline) = Range(policies.attached) \cup Range(policies.inline)
        BY <3>1, BothRanges
      <4>2. Range(policies.attached) \subseteq Document
        BY <3>1 DEF Range
      <4>3. Range(policies.inline) \subseteq Document
        BY <3>1 DEF Range
      <4>4. QED
        BY <4>1, <4>2, <4>3
    <3>3. \A d \in Document : Range(d.statements) \subseteq Statement
      BY DEF Document, Range
    <3>4. QED
      BY <3>2, <3>3 DEF Statements
  <2>15. name \in Seq(STRING)
    BY MigrateAssumption
  <2>16. KafkaAllows(Given(account, Statements(policies)), action, name) <=> IamAllows(Statements(policies), action, name)
    BY <2>14, <2>15, TranslationMeansTheSame DEF policies
  <2>17. QED
    BY <2>13, <2>16 DEF main, policies
<1>2. QED
  BY <1>1, MigrateInvariance, PTL

=============================================================================
