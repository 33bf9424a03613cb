----------------------------- MODULE Deployment -----------------------------
(***************************************************************************)
(* Which configuration and which database each process ends up with:       *)
(* ensureConfig and main of cmd/hyacine-server, config.Load, store.New and *)
(* the data directory of the commands, over starts, edits and commands in  *)
(* any order.  A path is the sequence of its names below the working       *)
(* directory; "./data/hyacine.db" is <<"data", "hyacine.db">>.             *)
(***************************************************************************)
EXTENDS Integers, Sequences

CONSTANTS
  DataDirs,   \* values an operator gives database.path or HYACINE_DATA_DIR
  Secrets,    \* and jwt.secret
  None        \* "": not set; also no file, no server

DefaultPath == <<"data", "hyacine.db">>
DataDir == <<"data">>
BuiltIn == [kind |-> "good", path |-> DefaultPath, secret |-> "change-this"]

\* A file that does not parse, as one that WriteFile could not finish.
Broken == [kind |-> "broken", path |-> None, secret |-> None]

ASSUME DeploymentAssumption ==
  /\ \A p \in DataDirs : p \in Seq(STRING) /\ p # << >>
  /\ {DefaultPath, DataDir} \subseteq DataDirs
  /\ "change-this" \notin Secrets
  /\ None \notin DataDirs \cup Secrets /\ None \notin {BuiltIn, Broken}

VARIABLES
  files,      \* the configuration file at each of three places, or None
  dirs, databases,   \* paths that are directories, and database files
  settings,   \* the data directory and the secret of the last start
  served,     \* the data directory of the running server, or None
  edited,     \* history: whether a file was edited since the last start
  ran,        \* history: data directories a server has run on
  used        \* history: databases commands opened by default

vars == <<files, dirs, databases, settings, served, edited, ran, used>>
disk == <<dirs, databases>>

Places == {"local", "etc", "exec"}

\* What an operator may write: a file that does not parse, or cannot be read
\* by the server, counts as much as one that says something, or leaves the
\* path or the secret out.
Contents ==
  [kind : {"good"}, path : DataDirs \cup {None}, secret : Secrets \cup {None}] \cup
  {Broken, [kind |-> "unreadable", path |-> None, secret |-> None]}

Texts == Contents \cup {BuiltIn}

\* The paths MkdirAll(p) makes on its way, the first n of them.
Upto(p, n) == {SubSeq(p, 1, k) : k \in 1..n}
Prefixes(p) == Upto(p, Len(p))
Database(p) == Append(p, "hyacine.db")

(* Types of the files, the disk and the history. *)
DeploymentTypeOK ==
  /\ files \in [Places -> Texts \cup {None}]
  /\ settings \in [dir : DataDirs, secret : Secrets \cup {BuiltIn.secret}] \cup {None}
  /\ served \in DataDirs \cup {None}
  /\ databases \subseteq {Database(p) : p \in DataDirs}
  /\ dirs \subseteq UNION {Prefixes(Database(p)) : p \in DataDirs}
  /\ edited \in BOOLEAN
  /\ ran \subseteq DataDirs /\ used \subseteq databases

Init ==
  /\ files = [place \in Places |-> None]
  /\ dirs = {} /\ databases = {}
  /\ settings = None /\ served = None
  /\ edited = FALSE /\ ran = {} /\ used = {}

-----------------------------------------------------------------------------
(* store.New *)

Creatable(p) == Prefixes(p) \cap databases = {}

\* Mutant: nothing asks for the file at the start; sql.Open alone does not.
OpenableLazily(p) == p \in DataDirs

\* Neither a file where MkdirAll needs a directory, nor a directory where
\* SQLite needs the file.
Openable(p) == Creatable(p) /\ Database(p) \notin dirs

\* MkdirAll stops at a file, or where the system refuses (permissions, a full
\* disk), and what it made stays; so does the file if only migrate fails.
NewFails(p) ==
  /\ \E n \in 0..Len(p) :
       /\ Upto(p, n) \cap databases = {}
       /\ dirs' = dirs \cup Upto(p, n)
       /\ \/ UNCHANGED databases
          \/ n = Len(p) /\ Openable(p) /\ databases' = databases \cup {Database(p)}

\* Mutant: the directory is made for the path of the file.
NewMakesFilePath(p, opened) ==
  \/ /\ opened /\ Openable(p)
     /\ dirs' = dirs \cup Prefixes(p) \cup {Database(p)}
     /\ databases' = databases \cup {Database(p)}
  \/ ~opened /\ NewFails(p)

New(p, opened) ==
  \/ /\ opened /\ Openable(p)
     /\ dirs' = dirs \cup Prefixes(p)
     /\ databases' = databases \cup {Database(p)}
  \/ ~opened /\ NewFails(p)

-----------------------------------------------------------------------------
(* The server *)

\* The two places ensureConfig looks at; os.Stat is content with any file.
\* WriteFile may fail at one start and not at the next, and leave a part.
EnsureConfig ==
  \/ /\ files["local"] # None \/ files["etc"] # None
     /\ UNCHANGED files
  \/ /\ files["local"] = None /\ files["etc"] = None
     /\ \/ files' = [files EXCEPT !["local"] = BuiltIn]
        \/ files' = [files EXCEPT !["local"] = Broken]
        \/ UNCHANGED files

\* loadFromFile goes on after a file it cannot read and stops at one it
\* cannot parse; Load falls back to its defaults after both.
Load(f) ==
  LET readable == {place \in Places : f[place] # None /\ f[place].kind # "unreadable"}
      first == IF "local" \in readable THEN "local"
               ELSE IF "etc" \in readable THEN "etc" ELSE "exec"
  IN  IF readable = {} \/ f[first].kind = "broken" THEN BuiltIn ELSE f[first]

\* What main makes of it: the path is taken for a directory.
Effective(s) ==
  [dir |-> IF s.path = None THEN DataDir ELSE s.path,
   secret |-> IF s.secret = None THEN BuiltIn.secret ELSE s.secret]

\* log.Fatalf when the store cannot be opened.
Serve(dir) ==
  \E opened \in BOOLEAN :
    /\ New(dir, opened)
    /\ served' = IF opened THEN dir ELSE None
    /\ ran' = IF opened THEN ran \cup {dir} ELSE ran

\* Mutant: the configuration is loaded before the default one is written.
StartLoadingFirst ==
  /\ served = None
  /\ EnsureConfig
  /\ settings' = Effective(Load(files))
  /\ Serve(settings'.dir)
  /\ edited' = FALSE
  /\ UNCHANGED used

Start ==
  /\ served = None
  /\ EnsureConfig
  /\ settings' = Effective(Load(files'))
  /\ Serve(settings'.dir)
  /\ edited' = FALSE
  /\ UNCHANGED used

Stop ==
  /\ served # None /\ served' = None
  /\ UNCHANGED <<files, disk, settings, edited, ran, used>>

-----------------------------------------------------------------------------
(* The operator *)

\* Mutant: without HYACINE_DATA_DIR the working directory is taken.
CommandDirHere(env) == IF env = None THEN <<"hyacine">> ELSE env

CommandDir(env) == IF env = None THEN DataDir ELSE env

\* Any command of either binary; "Failed to connect to database" if New fails.
Command ==
  /\ \E env \in DataDirs \cup {None}, opened \in BOOLEAN :
       /\ New(CommandDir(env), opened)
       /\ used' = IF env = None /\ opened THEN used \cup {Database(CommandDir(env))} ELSE used
  /\ UNCHANGED <<files, settings, served, edited, ran>>

Edit ==
  /\ \E place \in Places, content \in Contents \cup {None} :
       files' = [files EXCEPT ![place] = content]
  /\ edited' = TRUE
  /\ UNCHANGED <<disk, settings, served, ran, used>>

Next == Start \/ Stop \/ Command \/ Edit

Spec == Init /\ [][Next]_vars

-----------------------------------------------------------------------------
(* Properties *)

(* main.go:69-102 and config.go:80-106.  A restart without an edit runs on *)
(* the data directory and the signing secret of the start before it, with  *)
(* one exception: the start at which ensureConfig first gets ./config.json *)
(* written, after starts at which it could not, goes over to the built-in  *)
(* settings if those in use are of the file beside the executable, which   *)
(* the new file hides.                                                     *)
RestartKeepsSettings ==
  [][settings # None /\ settings' # settings =>
       \/ edited
       \/ /\ files["local"] = None /\ files'["local"] # None
          /\ settings = Effective(files["exec"]) /\ settings' = Effective(BuiltIn)]_vars

(* store.go:44.  Nothing on the disk ever comes to stand in the way of a   *)
(* data directory a server has run on, whatever commands and servers with  *)
(* other settings make, or fail to make, on it.                            *)
ServesAgain == \A p \in ran : Openable(p)

(* On a server with the path "./data", or with the default path            *)
(* "./data/hyacine.db", no command without HYACINE_DATA_DIR has ever       *)
(* opened another database than the one served: it has the same, or one of *)
(* the two does not open (main.go:77, 141).  With any other path, one      *)
(* below ./data included, it may.                                          *)
DefaultsNeverSplit ==
  served \in {DataDir, DefaultPath} => used \subseteq {Database(served)}

(* "HYACINE_DATA_DIR    Data directory (default: ./data)" (main.go:165):   *)
(* on a server with the default settings, the commands' default is the     *)
(* directory of its database.                                              *)
DefaultIsServed ==
  served # None /\ settings = Effective(BuiltIn) /\ ~edited =>
    Database(CommandDir(None)) = Database(served)
=============================================================================
