--------------------------- MODULE PluginInstaller ---------------------------
(***************************************************************************)
(* cloudify.plugin_installer: install and uninstall of the versions of one *)
(* plugin, by the threads of several processes of a host. A version is a   *)
(* directory: a virtualenv, the packages in it, and plugin.id, which is    *)
(* written last and says that the rest is there.                           *)
(*                                                                         *)
(* Installs hold two locks, one among threads and one, a file beside the   *)
(* directory, among processes. uninstall holds none: it removes the        *)
(* directory a file at a time, then the lock file, then what is above if   *)
(* that is empty. touched records the versions this may have reached.      *)
(***************************************************************************)
EXTENDS Naturals, FiniteSets, FiniteSetsExt, Functions

CONSTANTS Workers, Processes,
          Versions,                \* of the plugin, under one directory
          Ids,                     \* of uploads of a version
          Empty,                   \* plugin.id that was opened and not written
          MaxCalls, MaxFailures, MaxUploads      \* bounds

ASSUME InstallerAssumption ==
    /\ Workers # {} /\ Processes # {} /\ Ids # {}
    /\ Empty \notin Ids \cup {"source"} /\ "source" \notin Ids
    /\ {MaxCalls, MaxFailures, MaxUploads} \subseteq Nat

VARIABLES source,      \* these are source plugins, of a deployment
          process,     \* Workers -> the process it is a thread of
          uploaded,    \* Versions -> the id the manager has
          told,        \* Versions -> the state the manager was told
          parent,      \* the directory of all versions is there
          files,       \* <<version, part>> that is there -> its content
          call,        \* Workers -> what it was called for
          phase,       \* Workers -> where it is
          opened,      \* Workers -> the lock file it has open, 0
          listed,      \* Workers -> what rmtree has listed and not removed
          calls, failures, uploads,         \* counted for the bounds
          spoiled,     \* history: left behind by a crash, outside of try or by rmtree
          touched      \* history: under an uninstall, or since one

host == <<parent, files>>
counted == <<calls, failures, uploads>>
manager == <<uploaded, told>>
fixed == <<source, process>>
vars == <<fixed, manager, host, call, phase, opened, listed, counted, spoiled,
          touched>>

NoCall == [do |-> "none", version |-> "none", id |-> "none", how |-> "none"]
Parts == {"root", "venv", "packages", "plugin.id"}
Version(w) == call[w].version
Has(v, part) == <<v, part>> \in DOMAIN files
InDirectory(v) == {f \in DOMAIN files : f[1] = v /\ f[2] # "lock"}

\* get_managed_plugin: the id the manager has now. A source plugin has none.
PluginId(v) == IF source THEN "source" ELSE uploaded[v]

\* What a finished install leaves, its lock file included.
Whole(part, i) == CASE part \in {"root", "venv"} -> "made"
                    [] part \in {"packages", "plugin.id"} -> i
                    [] part = "lock" -> 1

\* A host with nothing, or with what was installed before.
Init == /\ source \in BOOLEAN
        /\ process \in [Workers -> Processes]
        /\ uploaded = [v \in Versions |-> CHOOSE i \in Ids : TRUE]
        /\ \E present \in {{}} \cup {{v} : v \in Versions} :
              /\ told = [v \in Versions |-> IF v \in present /\ ~source THEN "installed"
                                            ELSE "pending-install"]
              /\ parent = (present # {})
              /\ files = [f \in present \X (Parts \cup {"lock"}) |->
                               Whole(f[2], PluginId(f[1]))]
        /\ call = [w \in Workers |-> NoCall]
        /\ phase = [w \in Workers |-> "idle"]
        /\ opened = [w \in Workers |-> 0]
        /\ listed = [w \in Workers |-> {}]
        /\ calls = 0 /\ failures = 0 /\ uploads = 0
        /\ spoiled = {} /\ touched = {}

-----------------------------------------------------------------------------
\* _lock: who is inside of which lock.
Locked == {"checking", "making", "installing", "writing", "filling", "cleaning"}
InThreadLock == Locked \cup {"opening", "locking"}

\* Mutant: threads are not kept apart.
ThreadLockFreeAlways(w) == TRUE

ThreadLockFree(w) ==
    \A x \in Workers \ {w} : process[x] = process[w] => phase[x] \notin InThreadLock

\* Mutant: who only has the file open counts.
FileLockFreeUnopened(w) == \A x \in Workers \ {w} : opened[x] # opened[w]

\* A lock of the file is a lock of the process.
FileLockFree(w) ==
    \A x \in Workers : process[x] # process[w] /\ phase[x] \in Locked
                       => opened[x] # opened[w]

Go(w, p) == phase' = [phase EXCEPT ![w] = p]
Fails(w) == call' = [call EXCEPT ![w].how = "error"]
At(w, p) == phase[w] = p

\* History: uninstalls at v, and none of what they met is left.
Uninstalled(v) ==
    \E w \in Workers : \/ call[w].do = "uninstall" /\ Version(w) = v
                       \/ \E f \in listed[w] : f[1] = v /\ call[w].do = "uninstall"
Alone(v) == \A w \in Workers : Version(w) # v /\ \A f \in listed[w] : f[1] # v
Over(v) == InDirectory(v) = {} /\ Alone(v) /\ told[v] # "installed"

Touch == touched' = {v \in Versions : Uninstalled(v)' \/ (v \in touched /\ ~Over(v)')}

\* What is left alone by a step of the thread alone, and of one of its files.
Still == UNCHANGED <<fixed, manager, counted>> /\ Touch
Quietly == UNCHANGED <<host, spoiled>> /\ Still

Write(F, content) ==
    files' = [f \in F \cup DOMAIN files |-> IF f \in F THEN content ELSE files[f]]
Remove(S) == files' = Restrict(files, DOMAIN files \ S)

-----------------------------------------------------------------------------
\* install, with _set_state of the pre_state: of a managed plugin, which has
\* an id, or of source.
Install(w, v) ==
    /\ At(w, "idle")
    /\ calls < MaxCalls
    /\ calls' = calls + 1
    /\ call' = [call EXCEPT ![w] =
                  [do |-> "install", version |-> v, how |-> "installed",
                   id |-> PluginId(v)]]
    /\ told' = IF source THEN told ELSE [told EXCEPT ![v] = "installing"]
    /\ Go(w, "acquiring")
    /\ UNCHANGED <<fixed, uploaded, host, opened, listed, failures, uploads, spoiled>>
    /\ Touch

Acquire(w) ==
    /\ At(w, "acquiring") /\ ThreadLockFree(w)
    /\ Go(w, "opening")
    /\ UNCHANGED <<call, opened, listed>>
    /\ Quietly

\* InterProcessLock makes the directory and the file if they are not there. A
\* file that was removed is still locked by those who have it open.
Open(w) ==
    /\ At(w, "opening")
    /\ LET v == Version(w)
           used == {opened[x] : x \in Workers}
                   \cup {files[f] : f \in {g \in DOMAIN files : g[2] = "lock"}}
           new == Min((1 .. Cardinality(used) + 1) \ used)
       IN  /\ IF Has(v, "lock") THEN UNCHANGED files ELSE Write({<<v, "lock">>}, new)
           /\ opened' = [opened EXCEPT ![w] =
                           IF Has(v, "lock") THEN files[v, "lock"] ELSE new]
    /\ parent' = TRUE
    /\ Go(w, "locking")
    /\ UNCHANGED <<call, listed, spoiled>>
    /\ Still

Lock(w) ==
    /\ At(w, "locking") /\ FileLockFree(w)
    /\ Go(w, "checking")
    /\ UNCHANGED <<call, opened, listed>>
    /\ Quietly

\* The locks are released as the call leaves _lock.
Release(w) == Go(w, "reporting") /\ opened' = [opened EXCEPT ![w] = 0]

\* Mutant: what was installed before is used whatever its id.
CheckAnyId(w) ==
    /\ At(w, "checking")
    /\ IF ~Has(Version(w), "root")
         THEN Go(w, "making") /\ UNCHANGED <<call, opened>>
         ELSE /\ IF Has(Version(w), "plugin.id") THEN UNCHANGED call ELSE Fails(w)
              /\ Release(w)
    /\ UNCHANGED listed
    /\ Quietly

\* is_already_installed. A file that goes while it looks raises too.
Check(w) ==
    /\ At(w, "checking")
    /\ IF ~Has(Version(w), "root")
         THEN Go(w, "making") /\ UNCHANGED <<call, opened>>
         ELSE /\ IF /\ Has(Version(w), "plugin.id")
                    /\ files[Version(w), "plugin.id"] = call[w].id
                   THEN UNCHANGED call
                   ELSE Fails(w)
              /\ Release(w)
    /\ UNCHANGED listed
    /\ Quietly

\* _make_virtualenv is outside of try: what it began stays.
MakeVirtualenv(w) ==
    /\ At(w, "making")
    /\ parent' = TRUE
    /\ \/ /\ Write({Version(w)} \X {"root", "venv"}, "made")
          /\ Go(w, "installing")
          /\ UNCHANGED <<call, opened, spoiled>>
       \/ /\ Write({<<Version(w), "root">>}, "made")
          /\ Fails(w) /\ Release(w)
          /\ spoiled' = spoiled \cup {Version(w)}
    /\ UNCHANGED listed
    /\ Still

\* except: rmtree(dst_dir) with the files it lists now.
CleanUp(w) == /\ Fails(w)
              /\ Go(w, "cleaning")
              /\ listed' = [listed EXCEPT ![w] = InDirectory(Version(w))]
              /\ UNCHANGED opened

\* _wagon_install or _pip_install, in the virtualenv.
InstallPackages(w) ==
    /\ At(w, "installing")
    /\ \/ /\ Has(Version(w), "venv")
          /\ Write({<<Version(w), "packages">>}, call[w].id)
          /\ Go(w, "writing")
          /\ UNCHANGED <<call, opened, listed>>
       \/ CleanUp(w) /\ UNCHANGED files
    /\ UNCHANGED <<parent, spoiled>>
    /\ Still

\* Of a source plugin plugin.id is written outside of try.
WriteFails(w) ==
    IF source
    THEN /\ Fails(w) /\ Release(w)
         /\ spoiled' = spoiled \cup {Version(w)}
         /\ UNCHANGED listed
    ELSE CleanUp(w) /\ UNCHANGED spoiled

OpenId(w) ==
    /\ At(w, "writing")
    /\ \/ /\ Has(Version(w), "root")
          /\ Write({<<Version(w), "plugin.id">>}, Empty)
          /\ Go(w, "filling")
          /\ UNCHANGED <<call, opened, listed, spoiled>>
       \/ WriteFails(w) /\ UNCHANGED files
    /\ UNCHANGED parent
    /\ Still

WriteId(w) ==
    /\ At(w, "filling")
    /\ \/ /\ IF Has(Version(w), "plugin.id")
               THEN Write({<<Version(w), "plugin.id">>}, call[w].id)
               ELSE UNCHANGED files
          /\ Release(w)
          /\ UNCHANGED <<call, listed, spoiled>>
       \/ WriteFails(w) /\ UNCHANGED files
    /\ UNCHANGED parent
    /\ Still

-----------------------------------------------------------------------------
\* rmtree(ignore_errors): what was listed goes one by one, a directory last
\* and only if it is empty by then; what cannot be removed stays.
RemoveOne(w) ==
    /\ \E f \in listed[w] :
          /\ f[2] = "root" => \A g \in listed[w] : g[1] = f[1] => g[2] \in {"root", "lock"}
          /\ listed' = [listed EXCEPT ![w] = @ \ {f}]
          /\ \/ /\ IF f[2] = "root" /\ InDirectory(f[1]) # {f}
                     THEN UNCHANGED files
                     ELSE Remove({f})
                /\ UNCHANGED <<failures, spoiled>>
             \/ /\ failures < MaxFailures
                /\ failures' = failures + 1
                /\ UNCHANGED files
                /\ spoiled' = spoiled \cup {f[1]}
    /\ UNCHANGED <<fixed, manager, parent, call, phase, opened, calls, uploads>>
    /\ Touch

Cleaned(w) ==
    /\ At(w, "cleaning") /\ listed[w] = {}
    /\ Release(w)
    /\ UNCHANGED <<call, listed>>
    /\ Quietly

Uninstall(w, v) ==
    /\ At(w, "idle")
    /\ calls < MaxCalls
    /\ calls' = calls + 1
    /\ call' = [call EXCEPT ![w] =
                  [do |-> "uninstall", version |-> v, how |-> "uninstalled",
                   id |-> PluginId(v)]]
    /\ listed' = [listed EXCEPT ![w] = InDirectory(v)]
    /\ Go(w, "removing")
    /\ UNCHANGED <<fixed, manager, host, opened, failures, uploads, spoiled>>
    /\ Touch

RemoveLockFile(w) ==
    /\ At(w, "removing") /\ listed[w] = {}
    /\ Remove({<<Version(w), "lock">>})
    /\ Go(w, "looking")
    /\ UNCHANGED <<parent, call, opened, listed, spoiled>>
    /\ Still

\* os.listdir(parent_dir)
LookAbove(w) ==
    /\ At(w, "looking")
    /\ Go(w, IF parent /\ files = <<>> THEN "listing" ELSE "reporting")
    /\ UNCHANGED <<call, opened, listed>>
    /\ Quietly

\* By the time rmtree lists what was empty, another install may be there.
ListAbove(w) ==
    /\ At(w, "listing")
    /\ listed' = [listed EXCEPT ![w] = DOMAIN files]
    /\ Go(w, "sweeping")
    /\ UNCHANGED <<call, opened>>
    /\ Quietly

RemoveAbove(w) ==
    /\ At(w, "sweeping") /\ listed[w] = {}
    /\ parent' = (parent /\ files # <<>>)
    /\ Go(w, "reporting")
    /\ UNCHANGED <<files, call, opened, listed, spoiled>>
    /\ Still

\* _set_state of the post_state, or of ERROR. The manager has no plugin of an
\* id that was uploaded again, and a request may fail.
Report(w) ==
    /\ At(w, "reporting")
    /\ \/ /\ ~source /\ call[w].id = uploaded[Version(w)]
          /\ told' = [told EXCEPT ![Version(w)] = call[w].how]
       \/ UNCHANGED told
    /\ call' = [call EXCEPT ![w] = NoCall]
    /\ Go(w, "idle")
    /\ UNCHANGED <<fixed, uploaded, host, opened, listed, counted, spoiled>>
    /\ Touch

-----------------------------------------------------------------------------
\* The plugin is deleted from the manager and uploaded anew.
Upload(v) ==
    /\ ~source
    /\ uploads < MaxUploads
    /\ uploads' = uploads + 1
    /\ \E i \in Ids \ {uploaded[v]} : uploaded' = [uploaded EXCEPT ![v] = i]
    /\ told' = [told EXCEPT ![v] = "pending-install"]
    /\ UNCHANGED <<fixed, host, call, phase, opened, listed, calls, failures, spoiled>>
    /\ Touch

Crash(p) ==
    LET dead == {w \in Workers : process[w] = p}
    IN  /\ failures < MaxFailures
        /\ failures' = failures + 1
        /\ spoiled' = spoiled \cup {Version(w) : w \in {x \in dead : phase[x] \in Locked}}
        /\ call' = [w \in Workers |-> IF w \in dead THEN NoCall ELSE call[w]]
        /\ phase' = [w \in Workers |-> IF w \in dead THEN "idle" ELSE phase[w]]
        /\ opened' = [w \in Workers |-> IF w \in dead THEN 0 ELSE opened[w]]
        /\ listed' = [w \in Workers |-> IF w \in dead THEN {} ELSE listed[w]]
        /\ UNCHANGED <<fixed, manager, host, calls, uploads>>
        /\ Touch

-----------------------------------------------------------------------------
Step(w) == \/ Acquire(w) \/ Open(w) \/ Lock(w) \/ Check(w)
           \/ MakeVirtualenv(w) \/ InstallPackages(w) \/ OpenId(w) \/ WriteId(w)
           \/ RemoveOne(w) \/ Cleaned(w)
           \/ RemoveLockFile(w) \/ LookAbove(w) \/ ListAbove(w) \/ RemoveAbove(w)
           \/ Report(w)

Next == \/ \E w \in Workers :
              \/ \E v \in Versions : Install(w, v) \/ Uninstall(w, v)
              \/ Step(w)
        \/ \E v \in Versions : Upload(v)
        \/ \E p \in Processes : Crash(p)

Spec == Init /\ [][Next]_vars

\* Threads run; nobody has to call, and nothing has to be uploaded or to crash.
Fairness == \A w \in Workers : WF_vars(Step(w))

FairSpec == Spec /\ Fairness

-----------------------------------------------------------------------------
Installed(v) ==
    /\ \A part \in Parts : Has(v, part)
    /\ files[v, "plugin.id"] = files[v, "packages"]

\* plugin.id tells the truth, and so does the manager: what is said to be
\* installed has a virtualenv and the packages of that very upload. And when
\* nobody is at it a directory is installed or absent, so that the next install
\* is not refused for ever, unless a process died in there or a step failed that
\* the code does not clean up after. (uninstall goes without the locks.)
WholeOrAbsent ==
    \A v \in Versions \ touched :
        /\ Has(v, "plugin.id") => Installed(v) \/ files[v, "plugin.id"] = Empty
        /\ told[v] = "installed" => Installed(v) /\ files[v, "plugin.id"] = uploaded[v]
        /\ Alone(v) /\ v \notin spoiled => Installed(v) \/ InDirectory(v) = {}

\* What is installed stays, whoever else installs and fails: an install that
\* failed removes only what it made itself (_lock, is_already_installed).
InstalledStays ==
    [][\A v \in Versions : Installed(v) => Installed(v)' \/ v \in touched']_vars

\* Every call ends: nobody waits for ever for one lock while he holds the other.
CallsEnd == \A w \in Workers : ~At(w, "idle") ~> At(w, "idle")
=============================================================================
