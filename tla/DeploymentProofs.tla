-------------------------- MODULE DeploymentProofs --------------------------
(***************************************************************************)
(* Proofs about Deployment, for every set of paths and secrets.  The disk  *)
(* properties rest on one fact: no path is both a directory and a          *)
(* database, and what a server has run on is there to stay.                *)
(***************************************************************************)
EXTENDS Deployment, SequenceTheorems, TLAPS

-----------------------------------------------------------------------------
(* Paths *)

LEMMA NameIsAString == "hyacine.db" \in STRING
<1>1. DefaultPath \in Seq(STRING) /\ Len(DefaultPath) = 2 /\ DefaultPath[2] = "hyacine.db"
  BY DeploymentAssumption DEF DefaultPath
<1>2. DefaultPath[2] \in STRING
  BY <1>1, ElementOfSeq
<1> QED
  BY <1>1, <1>2

(* The database of a data directory is none of the directories above it.   *)
LEMMA DatabaseIsBelow ==
  ASSUME NEW p \in DataDirs
  PROVE  Database(p) \notin Prefixes(p)
<1>1. p \in Seq(STRING)
  BY DeploymentAssumption
<1>2. Len(Database(p)) = Len(p) + 1
  BY <1>1 DEF Database
<1>3. ASSUME NEW n \in 1..Len(p)
      PROVE  Len(SubSeq(p, 1, n)) = n
  BY <1>1, <1>3
<1>4. Len(p) \in Nat
  BY <1>1
<1> QED
  BY <1>2, <1>3, <1>4 DEF Prefixes, Upto

(* What is above a data directory is above its database.                   *)
LEMMA PrefixesOfDatabase ==
  ASSUME NEW p \in DataDirs
  PROVE  Prefixes(p) \subseteq Prefixes(Database(p))
<1>1. p \in Seq(STRING) /\ Len(p) \in Nat
  BY DeploymentAssumption
<1> DEFINE q == Database(p)
<1>2. q \in Seq(STRING) /\ Len(q) = Len(p) + 1 /\ \A i \in 1..Len(p) : q[i] = p[i]
  BY <1>1, NameIsAString, AppendProperties DEF Database
<1>3. ASSUME NEW n \in 1..Len(p)
      PROVE  SubSeq(p, 1, n) = SubSeq(q, 1, n)
  <2> HIDE DEF q
  <2>1. /\ SubSeq(p, 1, n) \in Seq(STRING) /\ Len(SubSeq(p, 1, n)) = n
        /\ \A i \in 1..n : SubSeq(p, 1, n)[i] = p[i]
    BY <1>1
  <2>2. /\ SubSeq(q, 1, n) \in Seq(STRING) /\ Len(SubSeq(q, 1, n)) = n
        /\ \A i \in 1..n : SubSeq(q, 1, n)[i] = q[i]
    BY <1>1, <1>2
  <2> QED
    BY <1>1, <1>2, <2>1, <2>2, SeqEqual
<1> HIDE DEF q
<1>4. 1..Len(p) \subseteq 1..Len(q)
  BY <1>1, <1>2
<1>5. Prefixes(p) \subseteq Prefixes(q)
  BY <1>3, <1>4 DEF Prefixes, Upto
<1> QED
  BY <1>5 DEF q

(* What a MkdirAll that stops has made is on the way it was to make.       *)
LEMMA UptoIsPrefixes ==
  ASSUME NEW p \in DataDirs, NEW n \in 0..Len(p)
  PROVE  Upto(p, n) \subseteq Prefixes(p)
<1>1. Len(p) \in Nat
  BY DeploymentAssumption
<1> QED
  BY <1>1 DEF Upto, Prefixes

(* The default path of the configuration names the default database of     *)
(* the commands, as a directory.                                           *)
LEMMA DefaultPathIsADatabase ==
  Database(DataDir) = DefaultPath /\ DefaultPath \in Prefixes(DefaultPath)
<1>1. Database(DataDir) = DefaultPath
  <2>1. /\ "hyacine.db" \in STRING
        /\ DataDir \in Seq(STRING) /\ DefaultPath \in Seq(STRING)
    BY DeploymentAssumption, NameIsAString
  <2>2. Len(DataDir) = 1 /\ DataDir[1] = "data"
    BY DEF DataDir
  <2>3. /\ Len(DefaultPath) = 2
        /\ DefaultPath[1] = "data" /\ DefaultPath[2] = "hyacine.db"
    BY DEF DefaultPath
  <2>4. /\ Database(DataDir) \in Seq(STRING) /\ Len(Database(DataDir)) = 2
        /\ Database(DataDir)[1] = "data" /\ Database(DataDir)[2] = "hyacine.db"
    <3> DEFINE a == Append(DataDir, "hyacine.db")
    <3>1. /\ a \in Seq(STRING) /\ Len(a) = Len(DataDir) + 1
          /\ \A i \in 1..Len(DataDir) : a[i] = DataDir[i]
          /\ a[Len(DataDir) + 1] = "hyacine.db"
      BY <2>1, AppendProperties
    <3> HIDE DEF a
    <3>2. a \in Seq(STRING) /\ Len(a) = 2 /\ a[1] = "data" /\ a[2] = "hyacine.db"
      BY <2>2, <3>1
    <3> QED
      BY <3>2 DEF Database, a
  <2>5. \A i \in 1..2 : Database(DataDir)[i] = DefaultPath[i]
    BY <2>3, <2>4
  <2> QED
    BY <2>1, <2>3, <2>4, <2>5, SeqEqual
<1>2. DefaultPath = SubSeq(DefaultPath, 1, 2) /\ Len(DefaultPath) = 2
  BY DEF DefaultPath
<1> QED
  BY <1>1, <1>2 DEF Prefixes, Upto

-----------------------------------------------------------------------------
(* Types *)

LEMMA LoadType ==
  ASSUME NEW f \in [Places -> Texts \cup {None}]
  PROVE  Load(f) \in Texts
  BY DEF Load, Places, Texts

LEMMA EnsureConfigType ==
  ASSUME DeploymentTypeOK, EnsureConfig
  PROVE  files' \in [Places -> Texts \cup {None}]
  BY DEF DeploymentTypeOK, EnsureConfig, Places, Texts, Contents

LEMMA EffectiveType ==
  ASSUME NEW s \in Texts
  PROVE  Effective(s) \in [dir : DataDirs, secret : Secrets \cup {BuiltIn.secret}]
<1>1. /\ s.path \in DataDirs \cup {None}
      /\ s.secret \in Secrets \cup {None, BuiltIn.secret}
  BY DeploymentAssumption DEF Texts, Contents, Broken, BuiltIn
<1> QED
  BY <1>1, DeploymentAssumption DEF Effective

(* store.New keeps the types of the disk, whether it succeeds or not.      *)
LEMMA NewType ==
  ASSUME DeploymentTypeOK, NEW p \in DataDirs, NEW opened \in BOOLEAN, New(p, opened)
  PROVE  /\ databases' \subseteq {Database(q) : q \in DataDirs}
         /\ dirs' \subseteq UNION {Prefixes(Database(q)) : q \in DataDirs}
         /\ databases \subseteq databases'
<1>1. Prefixes(p) \subseteq Prefixes(Database(p))
  BY PrefixesOfDatabase
<1>2. dirs' \subseteq dirs \cup Prefixes(p)
  BY UptoIsPrefixes DEF New, NewFails
<1>3. databases' \in {databases, databases \cup {Database(p)}}
  BY DEF New, NewFails
<1> QED
  BY <1>1, <1>2, <1>3 DEF DeploymentTypeOK

(* A start with a configuration file and a data directory, as one fact.    *)
LEMMA StartType ==
  ASSUME DeploymentTypeOK, Start
  PROVE  /\ files' \in [Places -> Texts \cup {None}]
         /\ settings' \in [dir : DataDirs, secret : Secrets \cup {BuiltIn.secret}]
         /\ settings'.dir \in DataDirs
<1>1. files' \in [Places -> Texts \cup {None}]
  BY EnsureConfigType DEF Start
<1>2. Load(files') \in Texts
  BY <1>1, LoadType
<1>3. settings' \in [dir : DataDirs, secret : Secrets \cup {BuiltIn.secret}]
  BY <1>2, EffectiveType DEF Start
<1> QED
  BY <1>1, <1>3

LEMMA TypeStep == DeploymentTypeOK /\ [Next]_vars => DeploymentTypeOK'
<1> SUFFICES ASSUME DeploymentTypeOK, [Next]_vars PROVE DeploymentTypeOK'
  OBVIOUS
<1>1. CASE Start
  <2>1. /\ files' \in [Places -> Texts \cup {None}]
        /\ settings' \in [dir : DataDirs, secret : Secrets \cup {BuiltIn.secret}]
        /\ settings'.dir \in DataDirs
    BY <1>1, StartType
  <2> DEFINE p == settings'.dir
  <2>2. PICK opened \in BOOLEAN :
          /\ New(p, opened)
          /\ served' = IF opened THEN p ELSE None
          /\ ran' = IF opened THEN ran \cup {p} ELSE ran
    BY <1>1 DEF Start, Serve
  <2> HIDE DEF p
  <2>3. /\ databases' \subseteq {Database(q) : q \in DataDirs}
        /\ dirs' \subseteq UNION {Prefixes(Database(q)) : q \in DataDirs}
        /\ databases \subseteq databases'
    BY <2>1, <2>2, NewType DEF p
  <2>4. p \in DataDirs
    BY <2>1 DEF p
  <2>5. served' \in DataDirs \cup {None} /\ ran' \subseteq DataDirs
    BY <2>2, <2>4 DEF DeploymentTypeOK
  <2>6. used' \subseteq databases' /\ edited' \in BOOLEAN
    BY <1>1, <2>3 DEF Start, DeploymentTypeOK
  <2> QED
    BY <2>1, <2>3, <2>5, <2>6 DEF DeploymentTypeOK
<1>2. CASE Stop
  BY <1>2 DEF Stop, disk, DeploymentTypeOK
<1>3. CASE Command
  <2>1. PICK env \in DataDirs \cup {None}, opened \in BOOLEAN :
          /\ New(CommandDir(env), opened)
          /\ used' = IF env = None /\ opened
                     THEN used \cup {Database(CommandDir(env))} ELSE used
    BY <1>3 DEF Command
  <2>2. CommandDir(env) \in DataDirs
    BY DeploymentAssumption DEF CommandDir
  <2>3. /\ databases' \subseteq {Database(q) : q \in DataDirs}
        /\ dirs' \subseteq UNION {Prefixes(Database(q)) : q \in DataDirs}
        /\ databases \subseteq databases'
    BY <2>1, <2>2, NewType
  <2>4. used' \subseteq databases'
    BY <2>1, <2>3 DEF New, DeploymentTypeOK
  <2> QED
    BY <1>3, <2>3, <2>4 DEF Command, DeploymentTypeOK
<1>4. CASE Edit
  BY <1>4 DEF Edit, disk, DeploymentTypeOK, Texts
<1>5. CASE UNCHANGED vars
  BY <1>5 DEF vars, DeploymentTypeOK
<1> QED
  BY <1>1, <1>2, <1>3, <1>4, <1>5 DEF Next

(* The files, the disk and the history keep their types (main.go,          *)
(* config.go and store.go).                                                *)
THEOREM DeploymentTypes == Spec => []DeploymentTypeOK
<1>1. Init => DeploymentTypeOK
  BY DEF Init, DeploymentTypeOK
<1> QED
  BY <1>1, TypeStep, PTL DEF Spec

-----------------------------------------------------------------------------
(* The disk *)

\* What is proved of the disk by induction.
DiskInv ==
  /\ dirs \cap databases = {}
  /\ \A p \in ran : Database(p) \in databases /\ Prefixes(p) \subseteq dirs
  /\ used \subseteq databases \cap {Database(DataDir)}
  /\ served # None => served \in ran

(* store.New never makes a path a directory and a database: MkdirAll stops *)
(* at a file, and SQLite at a directory.                                   *)
LEMMA NewKeepsApart ==
  ASSUME NEW p \in DataDirs, NEW opened \in BOOLEAN, New(p, opened),
         dirs \cap databases = {}
  PROVE  /\ dirs' \cap databases' = {}
         /\ dirs \subseteq dirs' /\ databases \subseteq databases'
         /\ opened => Database(p) \in databases' /\ Prefixes(p) \subseteq dirs'
<1>1. CASE opened
  BY <1>1, DatabaseIsBelow DEF New, Openable, Creatable
<1>2. CASE ~opened
  <2>1. PICK n \in 0..Len(p) :
          /\ Upto(p, n) \cap databases = {}
          /\ dirs' = dirs \cup Upto(p, n)
          /\ \/ UNCHANGED databases
             \/ n = Len(p) /\ Openable(p) /\ databases' = databases \cup {Database(p)}
    BY <1>2 DEF New, NewFails
  <2>2. Upto(p, n) \subseteq Prefixes(p)
    BY UptoIsPrefixes
  <2> QED
    BY <1>2, <2>1, <2>2, DatabaseIsBelow DEF Openable, Creatable
<1> QED
  BY <1>1, <1>2

LEMMA DiskStep == DeploymentTypeOK /\ DiskInv /\ [Next]_vars => DiskInv'
<1> SUFFICES ASSUME DeploymentTypeOK, DiskInv, [Next]_vars PROVE DiskInv'
  OBVIOUS
<1>1. CASE Start
  <2> DEFINE p == settings'.dir
  <2>1. p \in DataDirs
    BY <1>1, StartType
  <2>2. PICK opened \in BOOLEAN :
          /\ New(p, opened)
          /\ served' = IF opened THEN p ELSE None
          /\ ran' = IF opened THEN ran \cup {p} ELSE ran
    BY <1>1 DEF Start, Serve
  <2>3. UNCHANGED used
    BY <1>1 DEF Start
  <2> HIDE DEF p
  <2>4. /\ dirs' \cap databases' = {}
        /\ dirs \subseteq dirs' /\ databases \subseteq databases'
        /\ opened => Database(p) \in databases' /\ Prefixes(p) \subseteq dirs'
    BY <2>1, <2>2, NewKeepsApart DEF DiskInv
  <2> QED
    BY <2>2, <2>3, <2>4 DEF DiskInv
<1>2. CASE Stop
  BY <1>2 DEF Stop, disk, DiskInv
<1>3. CASE Command
  <2>1. PICK env \in DataDirs \cup {None}, opened \in BOOLEAN :
          /\ New(CommandDir(env), opened)
          /\ used' = IF env = None /\ opened
                     THEN used \cup {Database(CommandDir(env))} ELSE used
    BY <1>3 DEF Command
  <2> DEFINE p == CommandDir(env)
  <2>2. p \in DataDirs /\ (env = None => p = DataDir)
    BY DeploymentAssumption DEF CommandDir
  <2>3. /\ dirs' \cap databases' = {}
        /\ dirs \subseteq dirs' /\ databases \subseteq databases'
        /\ opened => Database(p) \in databases' /\ Prefixes(p) \subseteq dirs'
    BY <2>1, <2>2, NewKeepsApart DEF DiskInv
  <2> HIDE DEF p
  <2>4. UNCHANGED <<served, ran>>
    BY <1>3 DEF Command
  <2>5. used' \subseteq databases' \cap {Database(DataDir)}
    BY <2>1, <2>2, <2>3 DEF DiskInv, p
  <2> QED
    BY <2>3, <2>4, <2>5 DEF DiskInv
<1>4. CASE Edit
  BY <1>4 DEF Edit, disk, DiskInv
<1>5. CASE UNCHANGED vars
  BY <1>5 DEF vars, DiskInv
<1> QED
  BY <1>1, <1>2, <1>3, <1>4, <1>5 DEF Next

LEMMA DiskInvariant == Spec => []DiskInv
<1>1. Init => DeploymentTypeOK /\ DiskInv
  BY DEF Init, DeploymentTypeOK, DiskInv
<1> QED
  BY <1>1, TypeStep, DiskStep, PTL DEF Spec

(* store.go:44.  Nothing on the disk ever comes to stand in the way of a   *)
(* data directory a server has run on, whatever commands and other servers *)
(* make, or fail to make, on it.                                           *)
THEOREM ServesAgainHolds == Spec => []ServesAgain
<1>1. DiskInv => ServesAgain
  BY DEF DiskInv, ServesAgain, Openable, Creatable
<1> QED
  BY <1>1, DiskInvariant, PTL

(* main.go:77 and 141.  On a server with the default path, or with ./data, *)
(* no command without HYACINE_DATA_DIR has opened another database.        *)
THEOREM DefaultsNeverSplitHolds == Spec => []DefaultsNeverSplit
<1>1. DiskInv => DefaultsNeverSplit
  <2> SUFFICES ASSUME DiskInv, served \in {DataDir, DefaultPath}
               PROVE  used \subseteq {Database(served)}
    BY DEF DefaultsNeverSplit
  <2>1. CASE served = DataDir
    BY <2>1 DEF DiskInv
  <2>2. CASE served = DefaultPath
    <3>1. served # None
      BY <2>2, DeploymentAssumption
    <3>2. Database(DataDir) \in dirs
      BY <2>2, <3>1, DefaultPathIsADatabase DEF DiskInv
    <3> QED
      BY <3>2 DEF DiskInv
  <2> QED
    BY <2>1, <2>2
<1> QED
  BY <1>1, DiskInvariant, PTL

-----------------------------------------------------------------------------
(* The settings *)

\* What a start that writes nothing would load now is what the last one did.
Settled == settings # None /\ ~edited => settings = Effective(Load(files))

(* The first ./config.json takes the place of the file beside the          *)
(* executable, and of nothing else.                                        *)
LEMMA FirstLocalFile ==
  ASSUME DeploymentTypeOK, EnsureConfig, files' # files
  PROVE  /\ files["local"] = None /\ files'["local"] # None
         /\ Load(files') = BuiltIn
         /\ Load(files) \in {BuiltIn, files["exec"]}
<1>1. /\ files["local"] = None /\ files["etc"] = None
      /\ \/ files' = [files EXCEPT !["local"] = BuiltIn]
         \/ files' = [files EXCEPT !["local"] = Broken]
  BY DEF EnsureConfig
<1>2. files'["local"] \in {BuiltIn, Broken}
  BY <1>1 DEF DeploymentTypeOK, Places
<1>3. /\ None \notin {BuiltIn, Broken}
      /\ BuiltIn.kind = "good" /\ Broken.kind = "broken"
  BY DeploymentAssumption DEF BuiltIn, Broken
<1>4. Load(files') = BuiltIn
  <2>1. "local" \in Places /\ files'["local"].kind # "unreadable" /\ files'["local"] # None
    BY <1>2, <1>3 DEF Places
  <2> QED
    BY <2>1, <1>2, <1>3 DEF Load
<1>5. Load(files) \in {BuiltIn, files["exec"]}
  BY <1>1 DEF Load
<1> QED
  BY <1>1, <1>2, <1>3, <1>4, <1>5

LEMMA SettledStep == DeploymentTypeOK /\ Settled /\ [Next]_vars => Settled'
<1> SUFFICES ASSUME DeploymentTypeOK, Settled, [Next]_vars PROVE Settled'
  OBVIOUS
<1>1. CASE Start
  BY <1>1 DEF Start, Settled
<1>2. CASE Stop
  BY <1>2 DEF Stop, Settled
<1>3. CASE Command
  BY <1>3 DEF Command, Settled
<1>4. CASE Edit
  BY <1>4 DEF Edit, Settled
<1>5. CASE UNCHANGED vars
  BY <1>5 DEF vars, Settled
<1> QED
  BY <1>1, <1>2, <1>3, <1>4, <1>5 DEF Next

(* main.go:69-102.  A restart without an edit runs on the data directory   *)
(* and the secret of the start before it, unless it is the first to get    *)
(* ./config.json written and the settings were those of the file beside    *)
(* the executable, which goes out of use for the built-in ones.            *)
THEOREM RestartKeepsSettingsHolds == Spec => RestartKeepsSettings
<1>1. Init => DeploymentTypeOK /\ Settled
  BY DEF Init, DeploymentTypeOK, Settled
<1> DEFINE Kept ==
      \/ edited
      \/ /\ files["local"] = None /\ files'["local"] # None
         /\ settings = Effective(files["exec"]) /\ settings' = Effective(BuiltIn)
<1>2. DeploymentTypeOK /\ Settled /\ [Next]_vars =>
        [settings # None /\ settings' # settings => Kept]_vars
  <2> SUFFICES ASSUME DeploymentTypeOK, Settled, [Next]_vars,
                      settings # None, settings' # settings, ~edited
               PROVE  Kept
    OBVIOUS
  <2>1. Start
    BY DEF Next, Stop, Command, Edit, vars
  <2>2. EnsureConfig /\ settings' = Effective(Load(files'))
    BY <2>1 DEF Start
  <2>3. settings = Effective(Load(files))
    BY DEF Settled
  <2>4. files' # files
    BY <2>2, <2>3
  <2>5. /\ files["local"] = None /\ files'["local"] # None
        /\ Load(files') = BuiltIn
        /\ Load(files) \in {BuiltIn, files["exec"]}
    BY <2>2, <2>4, FirstLocalFile
  <2> QED
    BY <2>2, <2>3, <2>5
<1> QED
  BY <1>1, <1>2, TypeStep, SettledStep, PTL DEF Spec, RestartKeepsSettings
=============================================================================
