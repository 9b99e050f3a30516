----------------------- MODULE PluginInstallerProofs -----------------------
(***************************************************************************)
(* Theorems about installs of plugins, for any number of threads,          *)
(* processes, versions and uploads.                                        *)
(*                                                                         *)
(* The locks are what the rest hangs on: who holds both of a version has   *)
(* its lock file open as it is there (Work), so nobody else is inside      *)
(* (OneInside), and what he has made so far is his alone to finish or to   *)
(* remove. Directory says what others may find meanwhile.                  *)
(***************************************************************************)
EXTENDS PluginInstaller, TLAPS

(* The phases of an install and of an uninstall, and those in which the    *)
(* directory of a version is being made or unmade.                         *)
Installing   == InThreadLock \cup {"acquiring", "reporting"}
Uninstalling == {"removing", "looking", "listing", "sweeping", "reporting"}
Modifying    == {"installing", "writing", "filling", "cleaning"}

PluginIds == Ids \cup {"source"}
Files     == Versions \X (Parts \cup {"lock"})

(* What a worker may be doing. *)
CallFits(w) ==
    /\ listed[w] \subseteq Files
    /\ call[w].do = "none" => phase[w] = "idle" /\ listed[w] = {}
    /\ call[w].do # "none" => Version(w) \in Versions
    /\ call[w].do = "install" =>
          /\ phase[w] \in Installing
          /\ call[w].id \in PluginIds
          /\ call[w].how \in {"installed", "error"}
          /\ phase[w] # "cleaning" => listed[w] = {}
          /\ phase[w] = "cleaning" => /\ call[w].how = "error"
                                      /\ listed[w] \subseteq {Version(w)} \X Parts
    /\ call[w].do = "uninstall" =>
          /\ phase[w] \in Uninstalling
          /\ call[w].how = "uninstalled"
          /\ phase[w] \notin {"removing", "sweeping"} => listed[w] = {}

Calls == [do      : {"none", "install", "uninstall"},
          version : Versions \cup {"none"},
          id      : PluginIds \cup {"none"},
          how     : {"none", "installed", "uninstalled", "error"}]

InstallerType ==
    /\ source \in BOOLEAN
    /\ process \in [Workers -> Processes]
    /\ uploaded \in [Versions -> Ids]
    /\ told \in [Versions -> {"pending-install", "installing", "installed",
                              "uninstalled", "error"}]
    /\ call \in [Workers -> Calls]
    /\ phase \in [Workers -> {"idle"} \cup Installing \cup Uninstalling]
    /\ DOMAIN opened = Workers
    /\ DOMAIN listed = Workers
    /\ DOMAIN files \subseteq Files
    /\ \A w \in Workers : CallFits(w)

(* The two locks. *)
LocksApart ==
    \A w, x \in Workers :
        /\ w # x /\ process[w] = process[x] =>
               phase[w] \notin InThreadLock \/ phase[x] \notin InThreadLock
        /\ process[w] # process[x] /\ phase[w] \in Locked /\ phase[x] \in Locked =>
               opened[w] # opened[x]

(* What w has done at v so far. *)
Work(w, v) ==
    /\ phase[w] \in Locked \cup {"locking"} => Has(v, "lock") /\ opened[w] = files[v, "lock"]
    /\ phase[w] = "making" => ~Has(v, "root")
    /\ phase[w] \in {"installing", "writing", "filling"} =>
           /\ Has(v, "root") /\ Has(v, "venv")
           /\ Has(v, "packages") <=> phase[w] # "installing"
           /\ Has(v, "packages") => files[v, "packages"] = call[w].id
           /\ Has(v, "plugin.id") <=> phase[w] = "filling"
           /\ Has(v, "plugin.id") => files[v, "plugin.id"] = Empty
    /\ phase[w] = "cleaning" =>
           /\ InDirectory(v) \subseteq listed[w] \/ v \in spoiled
           /\ Has(v, "plugin.id") => files[v, "plugin.id"] = Empty
    /\ phase[w] = "reporting" /\ call[w].how = "installed" =>
           Installed(v) /\ files[v, "plugin.id"] = call[w].id

(* The directory of a version that no uninstall is at. *)
Directory(v) ==
    /\ Has(v, "venv") \/ Has(v, "packages") \/ Has(v, "plugin.id") => Has(v, "root")
    /\ Has(v, "packages") => files[v, "packages"] \in PluginIds
    /\ Has(v, "plugin.id") => Installed(v) \/ files[v, "plugin.id"] = Empty
    /\ told[v] = "installed" => Installed(v) /\ files[v, "plugin.id"] = uploaded[v]
    /\ v \notin spoiled /\ (\A w \in Workers : Version(w) = v => phase[w] \notin Modifying) =>
           Installed(v) \/ InDirectory(v) = {}

Sound(v) == Directory(v) /\ \A w \in Workers : Version(w) = v => Work(w, v)

InstallerInv ==
    /\ InstallerType
    /\ LocksApart
    /\ \A v \in Versions : Uninstalled(v) => v \in touched
    /\ \A v \in Versions \ touched : Sound(v)

-----------------------------------------------------------------------------
(* Files                                                                   *)

(* What is in a directory is named by its parts. *)
LEMMA DirectoryParts ==
    ASSUME NEW D \in SUBSET Files, NEW v
    PROVE  /\ {f \in D : f[1] = v /\ f[2] # "lock"} = {} <=>
                  \A part \in Parts : <<v, part>> \notin D
           /\ \A L : {f \in D : f[1] = v /\ f[2] # "lock"} \subseteq L <=>
                  \A part \in Parts : <<v, part>> \in D => <<v, part>> \in L
<1> DEFINE here == {f \in D : f[1] = v /\ f[2] # "lock"}
<1>1. "lock" \notin Parts
  BY DEF Parts
<1>2. \A part \in Parts : <<v, part>> \in D => <<v, part>> \in here
  BY <1>1
<1>3. ASSUME NEW f \in here
      PROVE  f[2] \in Parts /\ f = <<v, f[2]>> /\ f \in D
  <2>1. f \in Versions \X (Parts \cup {"lock"}) /\ f \in D /\ f[1] = v /\ f[2] # "lock"
    BY <1>3 DEF Files
  <2>2. f = <<f[1], f[2]>>
    BY <2>1
  <2> QED
    BY <2>1, <2>2
<1> HIDE DEF here
<1>4. here = {} <=> \A part \in Parts : <<v, part>> \notin D
  BY <1>2, <1>3
<1>5. \A L : here \subseteq L <=> \A part \in Parts : <<v, part>> \in D => <<v, part>> \in L
  BY <1>2, <1>3
<1> QED
  BY <1>4, <1>5 DEF here

(* The two ways the files change. *)
LEMMA WriteEffect ==
    ASSUME NEW F, NEW content, Write(F, content)
    PROVE  /\ DOMAIN files' = F \cup DOMAIN files
           /\ \A f \in F : files'[f] = content
           /\ \A f \in DOMAIN files \ F : files'[f] = files[f]
  BY DEF Write

LEMMA RemoveEffect ==
    ASSUME NEW S, Remove(S)
    PROVE  /\ DOMAIN files' = DOMAIN files \ S
           /\ \A f \in DOMAIN files' : files'[f] = files[f]
  BY DEF Remove, Restrict

-----------------------------------------------------------------------------
(* Types                                                                   *)

(* A step of one worker leaves the others where they are. *)
Others(w) ==
    \A x \in Workers \ {w} : /\ call'[x] = call[x] /\ phase'[x] = phase[x]
                             /\ opened'[x] = opened[x] /\ listed'[x] = listed[x]

LEMMA OthersStay ==
    ASSUME InstallerType, NEW w \in Workers,
           \/ \E v \in Versions : Install(w, v) \/ Uninstall(w, v)
           \/ Step(w)
    PROVE  Others(w)
<1> USE DEF InstallerType, Others, Go, Fails, Release, Quietly
<1>1. ASSUME NEW v \in Versions, Install(w, v) \/ Uninstall(w, v) PROVE Others(w)
  BY <1>1 DEF Install, Uninstall
<1>2. CASE Acquire(w) \/ Open(w) \/ Lock(w) \/ Check(w)
  BY <1>2 DEF Acquire, Open, Lock, Check
<1>3. CASE MakeVirtualenv(w) \/ InstallPackages(w) \/ OpenId(w) \/ WriteId(w)
  BY <1>3 DEF MakeVirtualenv, InstallPackages, OpenId, WriteId, WriteFails, CleanUp
<1>4. CASE RemoveOne(w) \/ Cleaned(w) \/ RemoveLockFile(w) \/ LookAbove(w)
  BY <1>4 DEF RemoveOne, Cleaned, RemoveLockFile, LookAbove
<1>5. CASE ListAbove(w) \/ RemoveAbove(w) \/ Report(w)
  BY <1>5 DEF ListAbove, RemoveAbove, Report
<1> QED
  BY <1>1, <1>2, <1>3, <1>4, <1>5 DEF Step

(* So only what becomes of the worker has to be looked at. *)
LEMMA TypeKept ==
    ASSUME InstallerType, NEW w \in Workers, Others(w), UNCHANGED fixed,
           uploaded' \in [Versions -> Ids],
           told' \in [Versions -> {"pending-install", "installing", "installed",
                                   "uninstalled", "error"}],
           call' \in [Workers -> Calls],
           phase' \in [Workers -> {"idle"} \cup Installing \cup Uninstalling],
           DOMAIN opened' = Workers, DOMAIN listed' = Workers,
           DOMAIN files' \subseteq Files, CallFits(w)'
    PROVE  InstallerType'
<1>1. ASSUME NEW x \in Workers \ {w} PROVE CallFits(x)'
  BY <1>1 DEF InstallerType, CallFits, Others, Version
<1> QED
  BY <1>1 DEF InstallerType, fixed

(* Each step keeps the types. *)
LEMMA InstallTyped ==
    ASSUME InstallerType, NEW w \in Workers, NEW v \in Versions,
           Install(w, v) \/ Uninstall(w, v)
    PROVE  InstallerType'
<1>1. Others(w)
  BY OthersStay
<1>2. PluginId(v) \in PluginIds
  BY DEF InstallerType, PluginId, PluginIds
<1>3. InDirectory(v) \subseteq Files
  BY DEF InstallerType, InDirectory
<1>4. listed[w] = {}
  <2>1. call[w].do \in {"none", "install", "uninstall"} /\ phase[w] = "idle" /\ CallFits(w)
    BY DEF InstallerType, Calls, Install, Uninstall, At
  <2> QED
    BY <2>1 DEF CallFits, Installing, Uninstalling, InThreadLock, Locked
<1>5. CASE Install(w, v)
  <2> DEFINE c == [do |-> "install", version |-> v, how |-> "installed", id |-> PluginId(v)]
  <2>1. c \in Calls
    BY <1>2 DEF Calls
  <2>2. /\ call' = [call EXCEPT ![w] = c] /\ phase' = [phase EXCEPT ![w] = "acquiring"]
        /\ UNCHANGED <<fixed, uploaded, files, opened, listed>>
        /\ \/ told' = told
           \/ told' = [told EXCEPT ![v] = "installing"]
    BY <1>5 DEF Install, Go, host
  <2>3. /\ call' \in [Workers -> Calls]
        /\ call'[w] = c
    BY <2>1, <2>2 DEF InstallerType
  <2>4. phase'[w] = "acquiring" /\ listed'[w] = {}
    BY <1>4, <2>2 DEF InstallerType
  <2>5. CallFits(w)'
    BY <1>2, <2>3, <2>4 DEF CallFits, Installing, Version
  <2> QED
    BY <1>1, <2>2, <2>3, <2>5, TypeKept DEF InstallerType, Installing
<1>6. CASE Uninstall(w, v)
  <2> DEFINE c == [do |-> "uninstall", version |-> v, how |-> "uninstalled", id |-> PluginId(v)]
  <2>1. c \in Calls
    BY <1>2 DEF Calls
  <2>2. /\ call' = [call EXCEPT ![w] = c] /\ phase' = [phase EXCEPT ![w] = "removing"]
        /\ listed' = [listed EXCEPT ![w] = InDirectory(v)]
        /\ UNCHANGED <<fixed, manager, files, opened>>
    BY <1>6 DEF Uninstall, Go, host
  <2>3. /\ call' \in [Workers -> Calls]
        /\ call'[w] = c
    BY <2>1, <2>2 DEF InstallerType
  <2>4. phase'[w] = "removing" /\ listed'[w] \subseteq Files
    BY <1>3, <2>2 DEF InstallerType
  <2>5. CallFits(w)'
    BY <2>3, <2>4 DEF CallFits, Uninstalling, Version
  <2> QED
    BY <1>1, <2>2, <2>3, <2>5, TypeKept DEF InstallerType, Uninstalling, manager
<1> QED
  BY <1>5, <1>6

(* A worker in an install or an uninstall. *)
LEMMA WorkerAt ==
    ASSUME InstallerType, NEW w \in Workers
    PROVE  /\ call[w] \in Calls /\ CallFits(w)
           /\ phase[w] \in InThreadLock \cup {"acquiring"} => call[w].do = "install"
           /\ phase[w] \in Uninstalling \ {"reporting"} => call[w].do = "uninstall"
           /\ phase[w] # "idle" => Version(w) \in Versions
<1>1. call[w] \in Calls /\ CallFits(w) /\ call[w].do \in {"none", "install", "uninstall"}
  BY DEF InstallerType, Calls
<1> QED
  BY <1>1 DEF CallFits, Installing, Uninstalling, InThreadLock, Locked

(* A step within an install. *)
LEMMA WithinInstall ==
    ASSUME InstallerType, NEW w \in Workers, Others(w), call[w].do = "install",
           UNCHANGED <<fixed, manager>>, DOMAIN opened' = Workers, DOMAIN listed' = Workers,
           DOMAIN files' \subseteq Files,
           call' = call \/ Fails(w),
           NEW p \in Installing, Go(w, p),
           p # "cleaning" => listed'[w] = {},
           p = "cleaning" => /\ call'[w].how = "error"
                             /\ listed'[w] \subseteq {Version(w)} \X Parts
    PROVE  InstallerType'
<1>1. call[w] \in Calls /\ CallFits(w) /\ Version(w) \in Versions
  BY WorkerAt DEF CallFits
<1>2. /\ call' \in [Workers -> Calls]
      /\ call'[w].do = "install" /\ call'[w].version = call[w].version
      /\ call'[w].id = call[w].id /\ call'[w].how \in {call[w].how, "error"}
  <2>1. CASE call' = call
    BY <1>1, <2>1 DEF InstallerType
  <2>2. CASE Fails(w)
    <3>1. [call[w] EXCEPT !.how = "error"] \in Calls
      BY <1>1 DEF Calls
    <3>2. call' = [call EXCEPT ![w] = [call[w] EXCEPT !.how = "error"]]
      BY <2>2 DEF Fails
    <3> QED
      BY <1>1, <3>1, <3>2 DEF InstallerType, Calls
  <2> QED
    BY <2>1, <2>2
<1>3. phase' \in [Workers -> {"idle"} \cup Installing \cup Uninstalling] /\ phase'[w] = p
  BY DEF InstallerType, Go
<1>4. listed'[w] \subseteq Files
  BY <1>1 DEF Files
<1>5. CallFits(w)'
  BY <1>1, <1>2, <1>3, <1>4 DEF CallFits, Version
<1> QED
  BY <1>2, <1>3, <1>5, TypeKept DEF InstallerType, manager

LEMMA InstallStepTyped ==
    ASSUME InstallerType, NEW w \in Workers,
           \/ Acquire(w) \/ Open(w) \/ Lock(w) \/ Check(w)
           \/ MakeVirtualenv(w) \/ InstallPackages(w) \/ OpenId(w) \/ WriteId(w) \/ Cleaned(w)
    PROVE  InstallerType'
<1>1. Others(w)
  BY OthersStay DEF Step
<1>2. /\ phase[w] \in InThreadLock \cup {"acquiring"}
      /\ UNCHANGED <<fixed, manager>>
  BY DEF Acquire, Open, Lock, Check, MakeVirtualenv, InstallPackages, OpenId, WriteId, Cleaned,
         At, Still, Quietly, InThreadLock, Locked
<1>3. /\ call[w].do = "install" /\ CallFits(w) /\ Version(w) \in Versions
      /\ DOMAIN opened = Workers /\ DOMAIN listed = Workers /\ DOMAIN files \subseteq Files
      /\ phase[w] # "cleaning" => listed[w] = {}
      /\ call \in [Workers -> Calls]
  BY <1>2, WorkerAt DEF InstallerType, CallFits, InThreadLock, Locked
<1>4. \A part \in Parts \cup {"lock"} : <<Version(w), part>> \in Files
  BY <1>3 DEF Files
<1>5. InDirectory(Version(w)) \subseteq {Version(w)} \X Parts
  BY <1>3 DEF InDirectory, Files
<1>6. DOMAIN opened' = Workers /\ DOMAIN listed' = Workers
  BY <1>3 DEF Acquire, Open, Lock, Check, MakeVirtualenv, InstallPackages, OpenId, WriteId, Cleaned,
         CleanUp, WriteFails, Release
<1>7. DOMAIN files' \subseteq Files
  <2>1. ASSUME NEW F, NEW c, Write(F, c), F \subseteq {Version(w)} \X (Parts \cup {"lock"})
        PROVE  DOMAIN files' \subseteq Files
    <3>1. DOMAIN files' = F \cup DOMAIN files
      BY <2>1, WriteEffect
    <3> QED
      BY <1>3, <2>1, <3>1 DEF Files
  <2>2. CASE files' = files
    BY <1>3, <2>2
  <2>3. CASE Open(w) /\ files' # files
    <3>1. \E new : Write({<<Version(w), "lock">>}, new)
      BY <2>3 DEF Open
    <3> QED
      BY <2>1, <3>1
  <2>4. CASE MakeVirtualenv(w)
    BY <2>1, <2>4 DEF MakeVirtualenv, Parts
  <2>5. CASE (InstallPackages(w) \/ OpenId(w) \/ WriteId(w)) /\ files' # files
    BY <2>1, <2>5 DEF InstallPackages, OpenId, WriteId, Parts
  <2>6. CASE Acquire(w) \/ Lock(w) \/ Check(w) \/ Cleaned(w)
    BY <2>2, <2>6 DEF Acquire, Lock, Check, Cleaned, Quietly, host
  <2> QED
    BY <2>2, <2>3, <2>4, <2>5, <2>6
<1>8. call' = call \/ Fails(w)
  BY DEF Acquire, Open, Lock, Check, MakeVirtualenv, InstallPackages, OpenId, WriteId, Cleaned,
         CleanUp, WriteFails
<1>9. \/ \E p \in Installing \ {"cleaning"} : Go(w, p) /\ listed'[w] = {}
      \/ /\ Go(w, "cleaning") /\ Fails(w)
         /\ listed' = [listed EXCEPT ![w] = InDirectory(Version(w))]
  <2>1. CASE CleanUp(w)
    BY <2>1 DEF CleanUp
  <2>2. CASE ~CleanUp(w)
    <3>1. listed' = listed
      BY <2>2 DEF Acquire, Open, Lock, Check, MakeVirtualenv, InstallPackages, OpenId, WriteId,
                  Cleaned, WriteFails
    <3>2. listed[w] = {}
      BY <1>3 DEF Acquire, Open, Lock, Check, MakeVirtualenv, InstallPackages, OpenId, WriteId,
                  Cleaned, At
    <3>3. \E p \in Installing \ {"cleaning"} : Go(w, p)
      BY <2>2 DEF Acquire, Open, Lock, Check, MakeVirtualenv, InstallPackages, OpenId, WriteId,
                  Cleaned, WriteFails, Release, Installing, InThreadLock, Locked
    <3> QED
      BY <3>1, <3>2, <3>3
  <2> QED
    BY <2>1, <2>2
<1>10. CASE \E p \in Installing \ {"cleaning"} : Go(w, p) /\ listed'[w] = {}
  BY <1>1, <1>2, <1>3, <1>6, <1>7, <1>8, <1>10, WithinInstall
<1>11. CASE /\ Go(w, "cleaning") /\ Fails(w)
            /\ listed' = [listed EXCEPT ![w] = InDirectory(Version(w))]
  <2>1. call'[w].how = "error" /\ listed'[w] \subseteq {Version(w)} \X Parts
    BY <1>3, <1>5, <1>11 DEF Fails, Calls
  <2>2. "cleaning" \in Installing
    BY DEF Installing, InThreadLock, Locked
  <2> QED
    BY <1>1, <1>2, <1>3, <1>6, <1>7, <1>8, <1>11, <2>1, <2>2, WithinInstall
<1> QED
  BY <1>9, <1>10, <1>11

LEMMA UninstallStepTyped ==
    ASSUME InstallerType, NEW w \in Workers,
           RemoveLockFile(w) \/ LookAbove(w) \/ ListAbove(w) \/ RemoveAbove(w)
    PROVE  InstallerType'
<1>1. Others(w)
  BY OthersStay DEF Step
<1>2. /\ phase[w] \in Uninstalling \ {"reporting"}
      /\ UNCHANGED <<fixed, manager, call, opened>>
  BY DEF RemoveLockFile, LookAbove, ListAbove, RemoveAbove, At, Still, Quietly, Uninstalling
<1>3. /\ call[w].do = "uninstall" /\ CallFits(w) /\ DOMAIN files \subseteq Files
      /\ DOMAIN listed = Workers
  BY <1>2, WorkerAt DEF InstallerType
<1>4. DOMAIN files' \subseteq Files
  <2>1. DOMAIN files' \subseteq DOMAIN files
    BY RemoveEffect DEF RemoveLockFile, LookAbove, ListAbove, RemoveAbove, Quietly, host
  <2> QED
    BY <1>3, <2>1
<1>5. DOMAIN listed' = Workers /\ listed'[w] \subseteq Files
  BY <1>3 DEF RemoveLockFile, LookAbove, ListAbove, RemoveAbove, CallFits
<1>6. PICK p \in Uninstalling \ {"removing"} : Go(w, p) /\ (p # "sweeping" => listed'[w] = {})
  <2>1. CASE RemoveLockFile(w) \/ RemoveAbove(w)
    BY <2>1 DEF RemoveLockFile, RemoveAbove, Uninstalling
  <2>2. CASE LookAbove(w)
    <3>1. listed'[w] = {}
      BY <1>3, <2>2 DEF LookAbove, CallFits, At
    <3>2. Go(w, "listing") \/ Go(w, "reporting")
      BY <2>2 DEF LookAbove
    <3> QED
      BY <3>1, <3>2 DEF Uninstalling
  <2>3. CASE ListAbove(w)
    BY <2>3 DEF ListAbove, Uninstalling
  <2> QED
    BY <2>1, <2>2, <2>3
<1>7. /\ phase' \in [Workers -> {"idle"} \cup Installing \cup Uninstalling]
      /\ phase'[w] = p
  BY <1>6 DEF InstallerType, Go
<1>8. CallFits(w)'
  BY <1>2, <1>3, <1>5, <1>6, <1>7 DEF CallFits, Version
<1> QED
  BY <1>1, <1>2, <1>4, <1>5, <1>7, <1>8, TypeKept DEF InstallerType, manager

LEMMA RemoveOneTyped ==
    ASSUME InstallerType, NEW w \in Workers, RemoveOne(w)
    PROVE  InstallerType'
<1>1. Others(w)
  BY OthersStay DEF Step
<1>2. /\ UNCHANGED <<fixed, manager, call, phase, opened>>
      /\ DOMAIN files' \subseteq DOMAIN files
      /\ DOMAIN listed' = Workers /\ listed'[w] \subseteq listed[w]
  BY RemoveEffect DEF RemoveOne, Still, InstallerType
<1>3. CallFits(w)
  BY DEF InstallerType
<1>4. CallFits(w)'
  BY <1>2, <1>3 DEF CallFits, Version
<1> QED
  BY <1>1, <1>2, <1>4, TypeKept DEF InstallerType, manager

LEMMA ReportTyped ==
    ASSUME InstallerType, NEW w \in Workers, Report(w)
    PROVE  InstallerType'
<1>1. Others(w)
  BY OthersStay DEF Step
<1>2. /\ Version(w) \in Versions /\ listed[w] = {}
      /\ call[w].how \in {"installed", "uninstalled", "error"}
  <2>1. /\ call[w].do \in {"none", "install", "uninstall"} /\ CallFits(w)
        /\ phase[w] = "reporting"
    BY DEF InstallerType, Calls, Report, At
  <2> QED
    BY <2>1 DEF CallFits
<1>3. NoCall \in Calls
  BY DEF NoCall, Calls
<1>4. /\ call' \in [Workers -> Calls] /\ call'[w].do = "none"
      /\ phase' \in [Workers -> {"idle"} \cup Installing \cup Uninstalling]
      /\ phase'[w] = "idle" /\ listed'[w] = {}
      /\ UNCHANGED <<fixed, uploaded, files, opened, listed>>
  BY <1>2, <1>3 DEF InstallerType, Report, Go, NoCall, host
<1>5. told' \in [Versions -> {"pending-install", "installing", "installed",
                             "uninstalled", "error"}]
  BY <1>2 DEF InstallerType, Report
<1>6. CallFits(w)'
  BY <1>4 DEF CallFits
<1> QED
  BY <1>1, <1>4, <1>5, <1>6, TypeKept DEF InstallerType

LEMMA UploadTyped ==
    ASSUME InstallerType, NEW v \in Versions, Upload(v)
    PROVE  InstallerType'
<1>1. uploaded' \in [Versions -> Ids]
  BY DEF InstallerType, Upload
<1>2. told' \in [Versions -> {"pending-install", "installing", "installed",
                             "uninstalled", "error"}]
  BY DEF InstallerType, Upload
<1>3. UNCHANGED <<fixed, files, call, phase, opened, listed>>
  BY DEF Upload, host
<1>4. \A w \in Workers : CallFits(w)'
  BY <1>3 DEF InstallerType, CallFits, Version
<1> QED
  BY <1>1, <1>2, <1>3, <1>4 DEF InstallerType, fixed

LEMMA CrashTyped ==
    ASSUME InstallerType, NEW p \in Processes, Crash(p)
    PROVE  InstallerType'
<1> DEFINE dead == {w \in Workers : process[w] = p}
<1>1. /\ UNCHANGED <<fixed, manager, files>>
      /\ call' = [w \in Workers |-> IF w \in dead THEN NoCall ELSE call[w]]
      /\ phase' = [w \in Workers |-> IF w \in dead THEN "idle" ELSE phase[w]]
      /\ opened' = [w \in Workers |-> IF w \in dead THEN 0 ELSE opened[w]]
      /\ listed' = [w \in Workers |-> IF w \in dead THEN {} ELSE listed[w]]
  BY DEF Crash, host
<1>2. NoCall \in Calls /\ NoCall.do = "none"
  BY DEF NoCall, Calls
<1>3. ASSUME NEW w \in Workers PROVE CallFits(w)'
  <2>1. CASE w \in dead
    BY <1>1, <1>2, <2>1 DEF CallFits
  <2>2. CASE w \notin dead
    BY <1>1, <2>2 DEF InstallerType, CallFits, Version
  <2> QED
    BY <2>1, <2>2
<1>4. /\ call' \in [Workers -> Calls]
      /\ phase' \in [Workers -> {"idle"} \cup Installing \cup Uninstalling]
  BY <1>1, <1>2 DEF InstallerType
<1> QED
  BY <1>1, <1>3, <1>4 DEF InstallerType, fixed, manager

LEMMA InstallerTyped == InstallerType /\ [Next]_vars => InstallerType'
<1> SUFFICES ASSUME InstallerType, [Next]_vars PROVE InstallerType'
  OBVIOUS
<1>1. CASE UNCHANGED vars
  BY <1>1 DEF vars, fixed, manager, host, InstallerType, CallFits, Version
<1>2. ASSUME NEW w \in Workers, Step(w) PROVE InstallerType'
  BY <1>2, InstallStepTyped, UninstallStepTyped, RemoveOneTyped, ReportTyped DEF Step
<1> QED
  BY <1>1, <1>2, InstallTyped, UploadTyped, CrashTyped DEF Next

-----------------------------------------------------------------------------
(* Locks                                                                   *)

(* Whoever comes inside of a lock found it free. *)
LEMMA LocksKept ==
    ASSUME LocksApart, NEW w \in Workers, Others(w), UNCHANGED process,
           phase'[w] \in InThreadLock => phase[w] \in InThreadLock \/ ThreadLockFree(w),
           phase'[w] \in Locked => /\ opened'[w] = opened[w]
                                   /\ phase[w] \in Locked \/ FileLockFree(w)
    PROVE  LocksApart'
<1> SUFFICES ASSUME NEW x \in Workers, NEW y \in Workers
             PROVE  /\ x # y /\ process[x] = process[y] =>
                           phase'[x] \notin InThreadLock \/ phase'[y] \notin InThreadLock
                    /\ process[x] # process[y] /\ phase'[x] \in Locked /\ phase'[y] \in Locked =>
                           opened'[x] # opened'[y]
  BY DEF LocksApart, InThreadLock, Locked
<1>1. \A z \in Workers \ {w} : phase'[z] = phase[z] /\ opened'[z] = opened[z]
  BY DEF Others
<1>2. CASE x # w /\ y # w
  BY <1>1, <1>2 DEF LocksApart
<1>3. CASE x = w /\ y # w
  BY <1>1, <1>3 DEF LocksApart, ThreadLockFree, FileLockFree
<1>4. CASE x # w /\ y = w
  BY <1>1, <1>4 DEF LocksApart, ThreadLockFree, FileLockFree
<1>5. CASE x = w /\ y = w
  BY <1>5
<1> QED
  BY <1>2, <1>3, <1>4, <1>5

LEMMA LocksStayApart ==
    ASSUME InstallerType, LocksApart, [Next]_vars
    PROVE  LocksApart'
<1>1. CASE UNCHANGED vars
  BY <1>1 DEF vars, fixed, LocksApart
<1>2. ASSUME NEW w \in Workers,
             \/ \E v \in Versions : Install(w, v) \/ Uninstall(w, v)
             \/ Step(w)
      PROVE  LocksApart'
  <2>1. Others(w) /\ phase \in [Workers -> {"idle"} \cup Installing \cup Uninstalling]
        /\ DOMAIN opened = Workers
    BY <1>2, OthersStay DEF InstallerType
  <2>2. UNCHANGED process
    BY <1>2 DEF Install, Uninstall, Step, Acquire, Open, Lock, Check, MakeVirtualenv,
                InstallPackages, OpenId, WriteId, RemoveOne, Cleaned, RemoveLockFile, LookAbove,
                ListAbove, RemoveAbove, Report, Quietly, Still, fixed
  <2>3. CASE Acquire(w)
    BY <2>1, <2>2, <2>3, LocksKept DEF Acquire, Go, Locked
  <2>4. CASE Open(w)
    <3>1. phase[w] \in InThreadLock /\ phase'[w] = "locking"
      BY <2>1, <2>4 DEF Open, Go, At, InThreadLock
    <3> QED
      BY <2>1, <2>2, <3>1, LocksKept DEF Locked
  <2>5. CASE Lock(w)
    BY <2>1, <2>2, <2>5, LocksKept DEF Lock, Go, At, InThreadLock
  <2>6. CASE \/ \E v \in Versions : Install(w, v) \/ Uninstall(w, v)
             \/ RemoveLockFile(w) \/ LookAbove(w) \/ ListAbove(w) \/ RemoveAbove(w) \/ Report(w)
             \/ Cleaned(w)
    <3>1. phase'[w] \notin InThreadLock
      BY <2>1, <2>6 DEF Install, Uninstall, RemoveLockFile, LookAbove, ListAbove, RemoveAbove,
                        Report, Cleaned, Release, Go, InThreadLock, Locked
    <3> QED
      BY <2>1, <2>2, <3>1, LocksKept DEF InThreadLock
  <2>7. CASE RemoveOne(w)
    BY <2>1, <2>2, <2>7, LocksKept DEF RemoveOne
  <2>8. CASE \/ Check(w) \/ MakeVirtualenv(w) \/ InstallPackages(w) \/ OpenId(w) \/ WriteId(w)
    <3>1. phase[w] \in Locked
      BY <2>8 DEF Check, MakeVirtualenv, InstallPackages, OpenId, WriteId, At, Locked
    <3>2. phase'[w] = "reporting" \/ opened' = opened
      BY <2>1, <2>8 DEF Check, MakeVirtualenv, InstallPackages, OpenId, WriteId, Release, CleanUp,
                        WriteFails, Go
    <3> QED
      BY <2>1, <2>2, <3>1, <3>2, LocksKept DEF InThreadLock, Locked
  <2> QED
    BY <1>2, <2>3, <2>4, <2>5, <2>6, <2>7, <2>8 DEF Step
<1>3. ASSUME NEW v \in Versions, Upload(v) PROVE LocksApart'
  BY <1>3 DEF Upload, fixed, LocksApart
<1>4. ASSUME NEW p \in Processes, Crash(p) PROVE LocksApart'
  <2>1. UNCHANGED process
    BY <1>4 DEF Crash, fixed
  <2>2. \A x \in Workers : \/ phase'[x] = phase[x] /\ opened'[x] = opened[x]
                           \/ phase'[x] = "idle"
    BY <1>4 DEF Crash
  <2>3. "idle" \notin InThreadLock /\ "idle" \notin Locked
    BY DEF InThreadLock, Locked
  <2> QED
    BY <2>1, <2>2, <2>3 DEF LocksApart
<1> QED
  BY <1>1, <1>2, <1>3, <1>4 DEF Next

(* Two installs that are inside of the lock of one version are one. *)
LEMMA OneInside ==
    ASSUME LocksApart, NEW v, NEW w \in Workers, NEW x \in Workers, Work(w, v), Work(x, v),
           phase[w] \in Locked, phase[x] \in Locked
    PROVE  w = x
<1>1. opened[w] = opened[x]
  BY DEF Work
<1> QED
  BY <1>1 DEF LocksApart, InThreadLock

-----------------------------------------------------------------------------
(* Steps that leave the directory of v alone                               *)

(* The parts of v are as they were. *)
SameParts(v) ==
    \A part \in Parts : /\ <<v, part>> \in DOMAIN files' <=> <<v, part>> \in DOMAIN files
                        /\ <<v, part>> \in DOMAIN files => files'[v, part] = files[v, part]

SameLock(v) ==
    Has(v, "lock") => /\ <<v, "lock">> \in DOMAIN files'
                      /\ files'[v, "lock"] = files[v, "lock"]

(* The same parts make the same directory. *)
LEMMA SamePartsEffect ==
    ASSUME InstallerType, InstallerType', NEW v, SameParts(v)
    PROVE  /\ \A part \in Parts : Has(v, part)' <=> Has(v, part)
           /\ \A part \in Parts : Has(v, part) => files'[v, part] = files[v, part]
           /\ {"root", "venv", "packages", "plugin.id"} = Parts
           /\ Installed(v)' <=> Installed(v)
           /\ InDirectory(v)' = {} <=> InDirectory(v) = {}
           /\ \A L : InDirectory(v) \subseteq L => InDirectory(v)' \subseteq L
<1>1. \A part \in Parts : Has(v, part)' <=> Has(v, part)
  BY DEF SameParts, Has
<1>2. \A part \in Parts : Has(v, part) => files'[v, part] = files[v, part]
  BY DEF SameParts, Has
<1>3. {"root", "venv", "packages", "plugin.id"} = Parts
  BY DEF Parts
<1>4. Installed(v)' <=> Installed(v)
  BY <1>1, <1>2, <1>3 DEF Installed
<1>5. DOMAIN files \in SUBSET Files /\ DOMAIN files' \in SUBSET Files
  BY DEF InstallerType, Files, Parts
<1>6. /\ InDirectory(v) = {} <=> \A part \in Parts : ~Has(v, part)
      /\ \A L : InDirectory(v) \subseteq L <=>
                \A part \in Parts : Has(v, part) => <<v, part>> \in L
  BY <1>5, DirectoryParts DEF InDirectory, Has
<1>7. /\ InDirectory(v)' = {} <=> \A part \in Parts : ~Has(v, part)'
      /\ \A L : InDirectory(v)' \subseteq L <=>
                \A part \in Parts : Has(v, part)' => <<v, part>> \in L
  BY <1>5, DirectoryParts DEF InDirectory, Has
<1> QED
  BY <1>1, <1>2, <1>3, <1>4, <1>6, <1>7

(* What a worker has done at v still is so. *)
LEMMA WorkKept ==
    ASSUME InstallerType, InstallerType', NEW v, SameParts(v), SameLock(v),
           NEW w \in Workers, Work(w, v), call'[w] = call[w], phase'[w] = phase[w],
           opened'[w] = opened[w], listed'[w] = listed[w], spoiled \subseteq spoiled'
    PROVE  Work(w, v)'
<1>1. /\ \A part \in Parts : Has(v, part)' <=> Has(v, part)
      /\ \A part \in Parts : Has(v, part) => files'[v, part] = files[v, part]
      /\ {"root", "venv", "packages", "plugin.id"} = Parts
      /\ Installed(v)' <=> Installed(v)
      /\ InDirectory(v) \subseteq listed[w] => InDirectory(v)' \subseteq listed[w]
  BY SamePartsEffect
<1>2. Has(v, "lock") => Has(v, "lock")' /\ files'[v, "lock"] = files[v, "lock"]
  BY DEF SameLock, Has
<1>3. Installed(v) => Has(v, "plugin.id")
  BY <1>1 DEF Installed
<1> QED
  BY <1>1, <1>2, <1>3 DEF Work

(* Nor is a directory another one because somebody comes or goes. *)
LEMMA DirectoryKept ==
    ASSUME InstallerType, InstallerType', NEW v, SameParts(v), Directory(v),
           told'[v] = "installed" => Installed(v) /\ files[v, "plugin.id"] = uploaded'[v],
           spoiled \subseteq spoiled',
           \A w \in Workers : Version(w) = v /\ phase[w] \in Modifying =>
               \/ call'[w].version = v /\ phase'[w] \in Modifying
               \/ v \in spoiled' \/ Installed(v) \/ InDirectory(v) = {}
    PROVE  Directory(v)' /\ (Installed(v) => Installed(v)')
<1>1. /\ \A part \in Parts : Has(v, part)' <=> Has(v, part)
      /\ \A part \in Parts : Has(v, part) => files'[v, part] = files[v, part]
      /\ {"root", "venv", "packages", "plugin.id"} = Parts
      /\ Installed(v)' <=> Installed(v)
      /\ InDirectory(v)' = {} <=> InDirectory(v) = {}
  BY SamePartsEffect
<1>2. Installed(v) => Has(v, "plugin.id")
  BY <1>1 DEF Installed
<1>3. ASSUME v \notin spoiled', \A w \in Workers : Version(w)' = v => phase'[w] \notin Modifying
      PROVE  Installed(v) \/ InDirectory(v) = {}
  BY <1>3 DEF Directory, Version
<1> QED
  BY <1>1, <1>2, <1>3 DEF Directory, Modifying

(* A step of w that does not touch the directory of v. *)
LEMMA Spared ==
    ASSUME InstallerType, InstallerType', NEW v, SameParts(v), SameLock(v), Sound(v),
           NEW w \in Workers, Others(w),
           told'[v] = "installed" => Installed(v) /\ files[v, "plugin.id"] = uploaded'[v],
           spoiled \subseteq spoiled',
           Version(w)' = v => Work(w, v)',
           Version(w) = v /\ phase[w] \in Modifying =>
               \/ call'[w].version = v /\ phase'[w] \in Modifying
               \/ v \in spoiled' \/ Installed(v) \/ InDirectory(v) = {}
    PROVE  Sound(v)' /\ (Installed(v) => Installed(v)')
<1>1. ASSUME NEW x \in Workers, Version(x)' = v PROVE Work(x, v)'
  <2>1. CASE x = w
    BY <1>1, <2>1
  <2>2. CASE x # w
    BY <1>1, <2>2, WorkKept DEF Others, Version, Sound
  <2> QED
    BY <2>1, <2>2
<1>2. Directory(v)' /\ (Installed(v) => Installed(v)')
  <2>1. \A x \in Workers : Version(x) = v /\ phase[x] \in Modifying =>
               \/ call'[x].version = v /\ phase'[x] \in Modifying
               \/ v \in spoiled' \/ Installed(v) \/ InDirectory(v) = {}
    BY DEF Others, Version
  <2> QED
    BY <2>1, DirectoryKept DEF Sound
<1> QED
  BY <1>1, <1>2 DEF Sound

(* A step of w, which holds the locks of v, inside of the directory.       *)
LEMMA Changed ==
    ASSUME InstallerType, LocksApart, NEW v \in Versions, SameLock(v), Sound(v),
           NEW w \in Workers, Others(w), Version(w) = v, phase[w] \in Locked, ~Installed(v),
           Work(w, v)', Directory(v)'
    PROVE  Sound(v)'
<1> SUFFICES ASSUME NEW x \in Workers, Version(x)' = v PROVE Work(x, v)'
  BY DEF Sound
<1>1. CASE x = w
  BY <1>1
<1>2. CASE x # w
  <2>1. /\ call'[x] = call[x] /\ phase'[x] = phase[x]
        /\ opened'[x] = opened[x] /\ listed'[x] = listed[x]
    BY <1>2 DEF Others
  <2>2. Work(x, v) /\ Work(w, v)
    BY <2>1 DEF Sound, Version
  <2>3. phase[x] \notin Locked
    BY <1>2, <2>2, OneInside
  <2>4. phase[x] = "locking" => Has(v, "lock")' /\ opened'[x] = files'[v, "lock"]
    BY <2>1, <2>2 DEF Work, SameLock, Has
  <2>5. ~ (phase[x] = "reporting" /\ call[x].how = "installed")
    BY <2>2 DEF Work
  <2> QED
    BY <2>1, <2>3, <2>4, <2>5 DEF Work, Locked
<1> QED
  BY <1>1, <1>2

-----------------------------------------------------------------------------
(* One lemma per step, of a version v that no uninstall is at              *)

(* Whoever uninstalls v is not there. *)
LEMMA NotUninstalled ==
    ASSUME InstallerInv, NEW v \in Versions \ touched, NEW w \in Workers
    PROVE  /\ Version(w) = v => call[w].do # "uninstall"
           /\ \A f \in listed[w] : f[1] = v =>
                  phase[w] = "cleaning" /\ Version(w) = v /\ call[w].how = "error"
<1>1. ~Uninstalled(v)
  BY DEF InstallerInv
<1>2. CallFits(w) /\ call[w].do \in {"none", "install", "uninstall"}
  BY WorkerAt DEF InstallerInv, Calls
<1>3. ASSUME NEW f \in listed[w], f[1] = v
      PROVE  phase[w] = "cleaning" /\ Version(w) = v /\ call[w].how = "error"
  <2>1. call[w].do = "install"
    BY <1>1, <1>2, <1>3 DEF Uninstalled, CallFits
  <2>2. phase[w] = "cleaning" /\ listed[w] \subseteq {Version(w)} \X Parts
    BY <1>2, <1>3, <2>1 DEF CallFits
  <2> QED
    BY <1>2, <1>3, <2>1, <2>2 DEF CallFits
<1> QED
  BY <1>1, <1>3 DEF Uninstalled

(* A call that fails stays the call it is. *)
LEMMA FailsEffect ==
    ASSUME InstallerType, NEW w \in Workers, Fails(w)
    PROVE  /\ call'[w].version = call[w].version /\ call'[w].id = call[w].id
           /\ call'[w].how = "error"
<1>1. call[w] \in Calls /\ call'[w] = [call[w] EXCEPT !.how = "error"]
  BY DEF InstallerType, Fails
<1> QED
  BY <1>1 DEF Calls

LEMMA SameFiles == ASSUME files' = files, NEW v PROVE SameParts(v) /\ SameLock(v)
  BY DEF SameParts, SameLock, Has

(* Calls begin: not an uninstall of v, which would touch it. *)
LEMMA CallSound ==
    ASSUME InstallerInv, InstallerType', NEW v \in Versions \ touched, v \notin touched',
           NEW w \in Workers, NEW u \in Versions, Install(w, u) \/ Uninstall(w, u)
    PROVE  Sound(v)' /\ (Installed(v) => Installed(v)')
<1>1. Others(w) /\ Sound(v) /\ InstallerType /\ phase[w] = "idle"
  BY OthersStay DEF InstallerInv, Install, Uninstall, At
<1>2. SameParts(v) /\ SameLock(v) /\ UNCHANGED <<uploaded, spoiled>>
  BY SameFiles DEF Install, Uninstall, host, manager
<1>3. told'[v] = "installed" => told[v] = "installed"
  BY <1>1 DEF Install, Uninstall, manager, InstallerType
<1>4. Version(w)' = v => Work(w, v)'
  <2>1. CASE Install(w, u)
    <3>1. phase'[w] = "acquiring"
      BY <1>1, <2>1 DEF Install, Go, InstallerType
    <3> QED
      BY <3>1 DEF Work, Locked
  <2>2. CASE Uninstall(w, u)
    <3>1. call'[w].do = "uninstall"
      BY <1>1, <2>2 DEF Uninstall, InstallerType
    <3>2. Version(w)' = v => Uninstalled(v)'
      BY <3>1 DEF Uninstalled, Version
    <3>3. Uninstalled(v)' => v \in touched'
      BY <2>2 DEF Uninstall, Touch
    <3> QED
      BY <3>2, <3>3
  <2> QED
    BY <2>1, <2>2
<1>5. told'[v] = "installed" => Installed(v) /\ files[v, "plugin.id"] = uploaded'[v]
  BY <1>1, <1>2, <1>3 DEF Sound, Directory
<1>6. phase[w] \notin Modifying
  BY <1>1 DEF Modifying
<1> QED
  BY <1>1, <1>2, <1>4, <1>5, <1>6, Spared

(* Steps that change no file of v. *)
LEMMA QuietSound ==
    ASSUME InstallerInv, InstallerType', NEW v \in Versions \ touched, NEW w \in Workers,
           \/ Acquire(w) \/ Lock(w) \/ Check(w) \/ Cleaned(w)
           \/ LookAbove(w) \/ ListAbove(w) \/ RemoveAbove(w)
    PROVE  Sound(v)' /\ (Installed(v) => Installed(v)')
<1>1. Others(w) /\ Sound(v) /\ InstallerType /\ CallFits(w)
  BY OthersStay DEF InstallerInv, InstallerType, Step
<1>2. SameParts(v) /\ SameLock(v) /\ UNCHANGED <<told, uploaded, spoiled, files>>
  BY SameFiles DEF Acquire, Lock, Check, Cleaned, LookAbove, ListAbove, RemoveAbove,
                   Quietly, Still, host, manager
<1>3. told'[v] = "installed" => Installed(v) /\ files[v, "plugin.id"] = uploaded'[v]
  BY <1>1, <1>2 DEF Sound, Directory
<1>4. Version(w)' = Version(w) /\ call'[w].id = call[w].id
  <2>1. call' = call \/ Fails(w)
    BY DEF Acquire, Lock, Check, Cleaned, LookAbove, ListAbove, RemoveAbove
  <2> QED
    BY <1>1, <2>1, FailsEffect DEF Version
<1>5. Has(v, "lock") <=> Has(v, "lock")'
  BY <1>2 DEF Has
<1>6. ASSUME Version(w) = v
      PROVE  /\ Work(w, v)'
             /\ phase[w] \in Modifying =>
                   v \in spoiled' \/ Installed(v) \/ InDirectory(v) = {}
  <2>1. Work(w, v) /\ Directory(v) /\ call[w].do # "uninstall"
    BY <1>1, <1>6, NotUninstalled DEF Sound
  <2>2. phase[w] \notin Uninstalling \ {"reporting"}
    BY <1>1, <2>1, WorkerAt
  <2>3. CASE Acquire(w)
    BY <1>1, <2>3 DEF Acquire, Go, At, Work, Locked, Modifying, InstallerType
  <2>4. CASE Lock(w)
    <3>1. /\ phase[w] = "locking" /\ phase'[w] = "checking"
          /\ UNCHANGED <<opened, files, call>>
      BY <1>1, <1>2, <2>4 DEF Lock, Go, At, InstallerType
    <3> QED
      BY <2>1, <3>1 DEF Work, Locked, Modifying, Has
  <2>5. CASE Check(w) /\ ~Has(v, "root")
    <3>1. /\ phase[w] = "checking" /\ phase'[w] = "making"
          /\ UNCHANGED <<opened, files, call>>
      BY <1>1, <1>2, <1>6, <2>5 DEF Check, Go, At, InstallerType
    <3> QED
      BY <2>1, <2>5, <3>1 DEF Work, Locked, Modifying, Has
  <2>6. CASE Check(w) /\ Has(v, "root")
    <3>1. phase[w] = "checking" /\ phase'[w] = "reporting" /\ files' = files
      BY <1>1, <1>2, <1>6, <2>6 DEF Check, Release, Go, At, InstallerType
    <3>2. call'[w].how = "installed" =>
              Has(v, "plugin.id") /\ files[v, "plugin.id"] = call[w].id
      BY <1>1, <1>6, <2>6, FailsEffect DEF Check
    <3>3. call[w].id # Empty
      <4>1. call[w].do = "install"
        BY <1>1, <3>1, WorkerAt DEF InThreadLock, Locked
      <4> QED
        BY <1>1, <4>1, InstallerAssumption DEF CallFits, PluginIds
    <3>4. call'[w].how = "installed" => Installed(v) /\ files[v, "plugin.id"] = call[w].id
      BY <2>1, <3>2, <3>3 DEF Directory
    <3>5. Installed(v)' <=> Installed(v)
      BY <3>1 DEF Installed, Has
    <3> QED
      BY <1>4, <3>1, <3>4, <3>5 DEF Work, Locked, Modifying
  <2>7. CASE Cleaned(w)
    <3>1. /\ phase[w] = "cleaning" /\ phase'[w] = "reporting" /\ call' = call
          /\ listed[w] = {}
      BY <1>1, <2>7 DEF Cleaned, Release, Go, At, InstallerType
    <3>2. call[w].how = "error"
      BY <1>1, <3>1, WorkerAt DEF InThreadLock, Locked, CallFits
    <3>3. InDirectory(v) = {} \/ v \in spoiled'
      BY <1>2, <2>1, <3>1 DEF Work
    <3> QED
      BY <3>1, <3>2, <3>3 DEF Work, Locked
  <2>8. ~ (LookAbove(w) \/ ListAbove(w) \/ RemoveAbove(w))
    BY <2>2 DEF LookAbove, ListAbove, RemoveAbove, At, Uninstalling
  <2> QED
    BY <2>3, <2>4, <2>5, <2>6, <2>7, <2>8
<1> QED
  BY <1>1, <1>2, <1>3, <1>4, <1>6, Spared

(* Lock files. *)
LEMMA LockFileSound ==
    ASSUME InstallerInv, InstallerType', NEW v \in Versions \ touched, NEW w \in Workers,
           Open(w) \/ RemoveLockFile(w)
    PROVE  Sound(v)' /\ (Installed(v) => Installed(v)')
<1>1. /\ Others(w) /\ Sound(v) /\ InstallerType
      /\ UNCHANGED <<told, uploaded, spoiled, call>>
      /\ phase[w] \notin Modifying
  BY OthersStay DEF InstallerInv, Step, Open, RemoveLockFile, Still, manager, At, Modifying
<1>2. "lock" \notin Parts
  BY DEF Parts
<1>3. told'[v] = "installed" => Installed(v) /\ files[v, "plugin.id"] = uploaded'[v]
  BY <1>1 DEF Sound, Directory
<1>4. CASE RemoveLockFile(w)
  <2>1. Version(w) # v
    <3>1. call[w].do = "uninstall"
      BY <1>1, <1>4, WorkerAt DEF RemoveLockFile, At, Uninstalling
    <3> QED
      BY <3>1, NotUninstalled
  <2>2. /\ DOMAIN files' = DOMAIN files \ {<<Version(w), "lock">>}
        /\ \A f \in DOMAIN files' : files'[f] = files[f]
    BY <1>4, RemoveEffect DEF RemoveLockFile
  <2>3. SameParts(v) /\ SameLock(v)
    BY <1>2, <2>1, <2>2 DEF SameParts, SameLock, Has
  <2>4. Version(w)' # v
    BY <1>1, <2>1 DEF Version
  <2> QED
    BY <1>1, <1>3, <2>3, <2>4, Spared
<1>5. CASE Open(w)
  <2> DEFINE l == <<Version(w), "lock">>
  <2>1. \/ Has(Version(w), "lock") /\ files' = files /\ opened'[w] = files[l]
        \/ \E new : /\ ~Has(Version(w), "lock") /\ Write({l}, new)
                    /\ opened'[w] = new
    BY <1>1, <1>5 DEF Open, InstallerType
  <2>2. /\ \A f \in DOMAIN files : f \in DOMAIN files' /\ files'[f] = files[f]
        /\ DOMAIN files' \subseteq DOMAIN files \cup {l}
        /\ l \in DOMAIN files' /\ files'[l] = opened'[w]
    <3>1. CASE Has(Version(w), "lock") /\ files' = files /\ opened'[w] = files[l]
      BY <3>1 DEF Has
    <3>2. ASSUME NEW new, ~Has(Version(w), "lock"), Write({l}, new), opened'[w] = new
          PROVE  /\ \A f \in DOMAIN files : f \in DOMAIN files' /\ files'[f] = files[f]
                 /\ DOMAIN files' \subseteq DOMAIN files \cup {l}
                 /\ l \in DOMAIN files' /\ files'[l] = opened'[w]
      <4>1. /\ DOMAIN files' = {l} \cup DOMAIN files
            /\ \A f \in {l} : files'[f] = new
            /\ \A f \in DOMAIN files \ {l} : files'[f] = files[f]
        BY <3>2, WriteEffect
      <4> QED
        BY <3>2, <4>1 DEF Has
    <3> QED
      BY <2>1, <3>1, <3>2
  <2>3. SameParts(v) /\ SameLock(v)
    BY <1>2, <2>2 DEF SameParts, SameLock, Has
  <2>4. phase'[w] = "locking"
    BY <1>1, <1>5 DEF Open, Go, InstallerType
  <2>5. Version(w)' = v => Work(w, v)'
    BY <1>1, <2>2, <2>4 DEF Work, Version, Has, Locked
  <2> QED
    BY <1>1, <1>3, <2>3, <2>5, Spared
<1> QED
  BY <1>4, <1>5

(* The manager is told what holds. *)
LEMMA ReportSound ==
    ASSUME InstallerInv, InstallerType', NEW v \in Versions \ touched, NEW w \in Workers,
           Report(w)
    PROVE  Sound(v)' /\ (Installed(v) => Installed(v)')
<1>1. /\ Others(w) /\ Sound(v) /\ InstallerType /\ phase[w] = "reporting"
      /\ UNCHANGED <<uploaded, spoiled, files>>
      /\ phase'[w] = "idle"
  BY OthersStay DEF InstallerInv, Step, Report, At, host, Go, InstallerType
<1>2. SameParts(v) /\ SameLock(v)
  BY <1>1, SameFiles
<1>3. Work(w, v)'
  BY <1>1 DEF Work, Locked
<1>4. told'[v] = "installed" => Installed(v) /\ files[v, "plugin.id"] = uploaded'[v]
  <2>1. CASE told'[v] = told[v]
    BY <1>1, <2>1 DEF Sound, Directory
  <2>2. CASE told'[v] # told[v]
    <3>1. /\ v = Version(w) /\ call[w].id = uploaded[v]
          /\ told'[v] = call[w].how
      BY <1>1, <2>2 DEF Report, InstallerType
    <3>2. Work(w, v)
      BY <1>1, <3>1 DEF Sound
    <3> QED
      BY <1>1, <3>1, <3>2 DEF Work
  <2> QED
    BY <2>1, <2>2
<1>5. phase[w] \notin Modifying
  BY <1>1 DEF Modifying
<1> QED
  BY <1>1, <1>2, <1>3, <1>4, <1>5, Spared

(* The manager has another plugin, and nothing is said of it. *)
LEMMA UploadSound ==
    ASSUME InstallerInv, InstallerType', NEW v \in Versions \ touched,
           NEW u \in Versions, Upload(u)
    PROVE  Sound(v)' /\ (Installed(v) => Installed(v)')
<1>1. /\ Sound(v) /\ InstallerType
      /\ UNCHANGED <<files, call, phase, opened, listed, spoiled>>
  BY DEF InstallerInv, Upload, host
<1>2. SameParts(v) /\ SameLock(v)
  BY <1>1, SameFiles
<1>3. told'[v] = "installed" => Installed(v) /\ files[v, "plugin.id"] = uploaded'[v]
  <2>1. CASE u = v
    BY <1>1, <2>1 DEF Upload, InstallerType
  <2>2. CASE u # v
    BY <1>1, <2>2 DEF Upload, InstallerType, Sound, Directory
  <2> QED
    BY <2>1, <2>2
<1>4. Directory(v)' /\ (Installed(v) => Installed(v)')
  BY <1>1, <1>2, <1>3, DirectoryKept DEF Sound, Version
<1>5. ASSUME NEW x \in Workers, Version(x)' = v PROVE Work(x, v)'
  BY <1>1, <1>2, <1>5, WorkKept DEF Sound, Version
<1> QED
  BY <1>4, <1>5 DEF Sound

(* A process that dies in a directory spoils it. *)
LEMMA CrashSound ==
    ASSUME InstallerInv, InstallerType', NEW v \in Versions \ touched,
           NEW p \in Processes, Crash(p)
    PROVE  Sound(v)' /\ (Installed(v) => Installed(v)')
<1>1. /\ Sound(v) /\ InstallerType /\ UNCHANGED <<files, told, uploaded>>
      /\ spoiled \subseteq spoiled'
      /\ \A x \in Workers : process[x] # p =>
            /\ call'[x] = call[x] /\ phase'[x] = phase[x]
            /\ opened'[x] = opened[x] /\ listed'[x] = listed[x]
      /\ \A x \in Workers : process[x] = p =>
            /\ phase'[x] = "idle"
            /\ phase[x] \in Locked => Version(x) \in spoiled'
  BY DEF InstallerInv, Crash, host, manager
<1>2. SameParts(v) /\ SameLock(v)
  BY <1>1, SameFiles
<1>3. told'[v] = "installed" => Installed(v) /\ files[v, "plugin.id"] = uploaded'[v]
  BY <1>1 DEF Sound, Directory
<1>4. Directory(v)' /\ (Installed(v) => Installed(v)')
  <2>1. Modifying \subseteq Locked
    BY DEF Modifying, Locked
  <2>2. \A x \in Workers : Version(x) = v /\ phase[x] \in Modifying =>
            (call'[x].version = v /\ phase'[x] \in Modifying) \/ v \in spoiled'
    BY <1>1, <2>1 DEF Version
  <2> QED
    BY <1>1, <1>2, <1>3, <2>2, DirectoryKept DEF Sound
<1>5. ASSUME NEW x \in Workers, Version(x)' = v PROVE Work(x, v)'
  <2>1. CASE process[x] = p
    BY <1>1, <2>1 DEF Work, Locked
  <2>2. CASE process[x] # p
    BY <1>1, <1>2, <1>5, <2>2, WorkKept DEF Sound, Version
  <2> QED
    BY <2>1, <2>2
<1> QED
  BY <1>4, <1>5 DEF Sound

(* Steps in the directory of another version. *)
LEMMA ElsewhereSound ==
    ASSUME InstallerInv, InstallerType', NEW v \in Versions \ touched, NEW w \in Workers,
           MakeVirtualenv(w) \/ InstallPackages(w) \/ OpenId(w) \/ WriteId(w), Version(w) # v
    PROVE  Sound(v)' /\ (Installed(v) => Installed(v)')
<1>1. /\ Others(w) /\ Sound(v) /\ InstallerType
      /\ UNCHANGED <<told, uploaded>> /\ spoiled \subseteq spoiled'
  BY OthersStay DEF InstallerInv, Step, MakeVirtualenv, InstallPackages, OpenId, WriteId, WriteFails,
                    Still, manager
<1>2. Version(w)' # v
  <2>1. call' = call \/ Fails(w)
    BY DEF MakeVirtualenv, InstallPackages, OpenId, WriteId, WriteFails, CleanUp
  <2> QED
    BY <1>1, <2>1, FailsEffect DEF Version
<1>3. SameParts(v) /\ SameLock(v)
  <2>1. \/ files' = files
        \/ \E F, c : Write(F, c) /\ \A f \in F : f[1] = Version(w)
    BY DEF MakeVirtualenv, InstallPackages, OpenId, WriteId
  <2>2. CASE files' = files
    BY <2>2, SameFiles
  <2>3. ASSUME NEW F, NEW c, Write(F, c), \A f \in F : f[1] = Version(w)
        PROVE  SameParts(v) /\ SameLock(v)
    <3>1. /\ DOMAIN files' = F \cup DOMAIN files
          /\ \A f \in DOMAIN files \ F : files'[f] = files[f]
      BY <2>3, WriteEffect
    <3>2. \A part \in Parts \cup {"lock"} : <<v, part>> \notin F
      BY <2>3
    <3> QED
      BY <3>1, <3>2 DEF SameParts, SameLock, Has
  <2> QED
    BY <2>1, <2>2, <2>3
<1>4. told'[v] = "installed" => Installed(v) /\ files[v, "plugin.id"] = uploaded'[v]
  BY <1>1 DEF Sound, Directory
<1> QED
  BY <1>1, <1>2, <1>3, <1>4, Spared

(* What is written into the directory of v. *)
LEMMA WrittenParts ==
    ASSUME NEW v, NEW P \in SUBSET Parts, NEW c, Write({v} \X P, c)
    PROVE  /\ \A part \in P : Has(v, part)' /\ files'[v, part] = c
           /\ \A part \in Parts \ P : /\ Has(v, part)' <=> Has(v, part)
                                      /\ Has(v, part) => files'[v, part] = files[v, part]
           /\ SameLock(v)
<1> DEFINE F == {v} \X P
<1>1. /\ DOMAIN files' = F \cup DOMAIN files
      /\ \A f \in F : files'[f] = c
      /\ \A f \in DOMAIN files \ F : files'[f] = files[f]
  BY WriteEffect
<1>2. \A part \in P : <<v, part>> \in F
  OBVIOUS
<1>3. \A part \in (Parts \cup {"lock"}) \ P : <<v, part>> \notin F
  OBVIOUS
<1>4. "lock" \notin P
  BY DEF Parts
<1> HIDE DEF F
<1> QED
  BY <1>1, <1>2, <1>3, <1>4 DEF Has, SameLock

(* What the directory of v has to satisfy after such a step, which leaves  *)
(* it not whole.                                                           *)
LEMMA UnfinishedSound ==
    ASSUME InstallerInv, InstallerType', NEW v \in Versions \ touched, SameLock(v),
           NEW w \in Workers, Others(w), Version(w) = v, phase[w] \in Locked, ~Installed(v),
           UNCHANGED <<told, uploaded>>, spoiled \subseteq spoiled',
           Work(w, v)', ~Has(v, "plugin.id")' \/ files'[v, "plugin.id"] = Empty,
           Has(v, "venv")' \/ Has(v, "packages")' \/ Has(v, "plugin.id")' => Has(v, "root")',
           Has(v, "packages")' => files'[v, "packages"] \in PluginIds,
           \/ Version(w)' = v /\ phase'[w] \in Modifying
           \/ v \in spoiled' \/ InDirectory(v)' = {}
    PROVE  Sound(v)' /\ (Installed(v) => Installed(v)')
<1>1. Sound(v) /\ InstallerType /\ LocksApart
  BY DEF InstallerInv
<1>2. told'[v] # "installed"
  BY <1>1 DEF Sound, Directory
<1>3. ASSUME v \notin spoiled', \A x \in Workers : Version(x)' = v => phase'[x] \notin Modifying
      PROVE  InDirectory(v)' = {}
  BY <1>3
<1>4. Directory(v)'
  BY <1>2, <1>3 DEF Directory, Modifying
<1> QED
  BY <1>1, <1>4, Changed

LEMMA OnePart == \A v, part : {<<v, part>>} = {v} \X {part}
  OBVIOUS

(* The worker of v, on its way to what it has to leave there. *)
LEMMA MakeVirtualenvSound ==
    ASSUME InstallerInv, InstallerType', NEW v \in Versions \ touched, NEW w \in Workers,
           MakeVirtualenv(w), Version(w) = v
    PROVE  Sound(v)' /\ (Installed(v) => Installed(v)')
<1>1. /\ Others(w) /\ Directory(v) /\ Work(w, v) /\ InstallerType /\ phase[w] = "making"
      /\ UNCHANGED <<told, uploaded>>
      /\ call[w].do = "install" /\ call[w] \in Calls
  BY OthersStay, WorkerAt
     DEF InstallerInv, Step, MakeVirtualenv, Still, manager, At, Sound, InThreadLock, Locked
<1>2. ~Has(v, "root") /\ ~Has(v, "venv") /\ ~Has(v, "packages") /\ ~Has(v, "plugin.id")
  BY <1>1 DEF Work, Directory
<1>3. ~Installed(v)
  BY <1>2 DEF Installed, Parts
<1>4. Has(v, "lock") /\ opened[w] = files[v, "lock"]
  BY <1>1 DEF Work, Locked
<1>5. ASSUME NEW P \in SUBSET {"root", "venv"}, "root" \in P, Write({v} \X P, "made")
      PROVE  /\ Has(v, "root")' /\ ("venv" \in P => Has(v, "venv")')
             /\ ~Has(v, "packages")' /\ ~Has(v, "plugin.id")'
             /\ SameLock(v)
  <2>1. P \in SUBSET Parts /\ {"packages", "plugin.id"} \subseteq Parts \ P
    BY <1>5 DEF Parts
  <2> QED
    BY <1>2, <1>5, <2>1, WrittenParts
<1>6. CASE /\ Write({v} \X {"root", "venv"}, "made")
           /\ Go(w, "installing") /\ UNCHANGED <<call, opened, spoiled>>
  <2>1. /\ Has(v, "root")' /\ Has(v, "venv")' /\ ~Has(v, "packages")' /\ ~Has(v, "plugin.id")'
        /\ SameLock(v)
    <3> DEFINE P == {"root", "venv"}
    <3>1. P \in SUBSET {"root", "venv"} /\ "root" \in P /\ "venv" \in P
          /\ Write({v} \X P, "made")
      BY <1>6
    <3> HIDE DEF P
    <3> QED
      BY <1>5, <3>1
  <2>2. phase'[w] = "installing" /\ Version(w)' = v
    BY <1>1, <1>6 DEF Go, InstallerType, Version, MakeVirtualenv
  <2>3. Work(w, v)'
    BY <1>4, <1>6, <2>1, <2>2 DEF Work, SameLock, Has
  <2> QED
    BY <1>1, <1>3, <1>6, <2>1, <2>2, <2>3, UnfinishedSound DEF Locked, Modifying
<1>7. CASE /\ Write({v} \X {"root"}, "made") /\ Fails(w) /\ Release(w)
           /\ spoiled' = spoiled \cup {v}
  <2>1. /\ Has(v, "root")' /\ ~Has(v, "packages")' /\ ~Has(v, "plugin.id")' /\ SameLock(v)
    <3> DEFINE P == {"root"}
    <3>1. P \in SUBSET {"root", "venv"} /\ "root" \in P /\ Write({v} \X P, "made")
      BY <1>7
    <3> HIDE DEF P
    <3> QED
      BY <1>5, <3>1
  <2>2. phase'[w] = "reporting" /\ call'[w].how = "error"
    BY <1>1, <1>7, FailsEffect DEF Go, Release, InstallerType
  <2>3. Work(w, v)'
    BY <2>2 DEF Work, Locked
  <2> QED
    BY <1>1, <1>3, <1>7, <2>1, <2>3, UnfinishedSound DEF Locked
<1> QED
  BY <1>6, <1>7, OnePart DEF MakeVirtualenv, Version

(* except, or a plugin.id that is not written in a source plugin. *)
LEMMA GivenUp ==
    ASSUME InstallerInv, InstallerType', NEW v \in Versions \ touched, NEW w \in Workers,
           InstallPackages(w) \/ OpenId(w) \/ WriteId(w), Version(w) = v,
           CleanUp(w) \/ WriteFails(w), files' = files
    PROVE  Sound(v)' /\ (Installed(v) => Installed(v)')
<1>1. /\ Others(w) /\ Directory(v) /\ Work(w, v) /\ InstallerType /\ InstallerType'
      /\ phase[w] \in {"installing", "writing", "filling"}
      /\ UNCHANGED <<told, uploaded>> /\ spoiled \subseteq spoiled'
  BY OthersStay DEF InstallerInv, Step, InstallPackages, OpenId, WriteId, Still, manager, At, Sound,
                    WriteFails
<1>2. /\ Has(v, "root") /\ (Has(v, "packages") => files[v, "packages"] \in PluginIds)
      /\ Has(v, "plugin.id") => files[v, "plugin.id"] = Empty
  <2>1. Has(v, "root") /\ (Has(v, "plugin.id") => files[v, "plugin.id"] = Empty)
    BY <1>1 DEF Work
  <2>2. Has(v, "packages") => files[v, "packages"] \in PluginIds
    BY <1>1 DEF Directory
  <2> QED
    BY <2>1, <2>2
<1>3. ~Installed(v)
  <2>1. Has(v, "packages") /\ Has(v, "plugin.id") => files[v, "packages"] # files[v, "plugin.id"]
    BY <1>2, InstallerAssumption DEF PluginIds
  <2> QED
    BY <2>1 DEF Installed, Parts
<1>4. /\ SameLock(v)
      /\ \A part : Has(v, part)' <=> Has(v, part)
      /\ \A part : files'[v, part] = files[v, part]
  BY SameFiles DEF Has
<1>5. Fails(w)
  BY DEF CleanUp, WriteFails
<1>6. Version(w)' = v /\ call'[w].how = "error"
  BY <1>1, <1>5, FailsEffect DEF Version
<1>7. CASE CleanUp(w)
  <2>1. /\ phase'[w] = "cleaning" /\ listed'[w] = InDirectory(v) /\ opened' = opened
    BY <1>1, <1>7 DEF CleanUp, Go, InstallerType
  <2>2. Has(v, "lock") /\ opened[w] = files[v, "lock"]
    BY <1>1 DEF Work, Locked
  <2>3. InDirectory(v)' = InDirectory(v)
    BY DEF InDirectory
  <2>4. Work(w, v)'
    BY <1>2, <1>4, <2>1, <2>2, <2>3 DEF Work, Locked
  <2> QED
    BY <1>1, <1>2, <1>3, <1>4, <1>6, <2>1, <2>4, UnfinishedSound DEF Locked, Modifying
<1>8. CASE ~CleanUp(w)
  <2>1. phase'[w] = "reporting" /\ v \in spoiled'
    BY <1>1, <1>8 DEF WriteFails, Release, Go, InstallerType
  <2>2. Work(w, v)'
    BY <1>6, <2>1 DEF Work, Locked
  <2> QED
    BY <1>1, <1>2, <1>3, <1>4, <2>1, <2>2, UnfinishedSound DEF Locked
<1> QED
  BY <1>7, <1>8

(* The packages are in the virtualenv, and plugin.id is not there yet. *)
LEMMA InstallPackagesSound ==
    ASSUME InstallerInv, InstallerType', NEW v \in Versions \ touched, NEW w \in Workers,
           InstallPackages(w), Version(w) = v
    PROVE  Sound(v)' /\ (Installed(v) => Installed(v)')
<1>1. CASE CleanUp(w) /\ files' = files
  BY <1>1, GivenUp
<1>2. CASE /\ Write({v} \X {"packages"}, call[w].id)
           /\ Go(w, "writing") /\ UNCHANGED <<call, opened, listed>>
  <2>1. /\ Others(w) /\ Directory(v) /\ Work(w, v) /\ InstallerType /\ phase[w] = "installing"
        /\ UNCHANGED <<told, uploaded, spoiled>>
        /\ call[w].do = "install" /\ CallFits(w)
    BY OthersStay, WorkerAt
       DEF InstallerInv, Step, InstallPackages, Still, manager, At, Sound, InThreadLock, Locked
  <2>2. /\ Has(v, "root") /\ Has(v, "venv") /\ ~Has(v, "packages") /\ ~Has(v, "plugin.id")
        /\ Has(v, "lock") /\ opened[w] = files[v, "lock"]
    BY <2>1 DEF Work, Locked
  <2>3. /\ Has(v, "root")' /\ Has(v, "venv")' /\ ~Has(v, "plugin.id")'
        /\ Has(v, "packages")' /\ files'[v, "packages"] = call[w].id
        /\ SameLock(v)
    <3> DEFINE P == {"packages"}
    <3>0. PICK c : c = call[w].id
      OBVIOUS
    <3>1. P \in SUBSET Parts /\ "packages" \in P /\ Write({v} \X P, c)
          /\ {"root", "venv", "plugin.id"} \subseteq Parts \ P
      BY <1>2, <3>0 DEF Parts
    <3>2. "root" \in Parts \ P /\ "venv" \in Parts \ P /\ "plugin.id" \in Parts \ P
      BY <3>1
    <3> HIDE DEF P
    <3>3. /\ \A part \in P : Has(v, part)' /\ files'[v, part] = c
          /\ \A part \in Parts \ P : /\ Has(v, part)' <=> Has(v, part)
                                     /\ Has(v, part) => files'[v, part] = files[v, part]
          /\ SameLock(v)
      BY <3>1, WrittenParts
    <3> QED
      BY <2>2, <3>0, <3>1, <3>2, <3>3
  <2>4. phase'[w] = "writing" /\ Version(w)' = v /\ call' = call /\ opened' = opened
    BY <1>2, <2>1 DEF Go, InstallerType, Version
  <2>5. Work(w, v)'
    BY <2>2, <2>3, <2>4 DEF Work, SameLock, Has, Locked
  <2>6. files'[v, "packages"] \in PluginIds
    BY <2>1, <2>3 DEF CallFits
  <2>7. ~Installed(v)
    BY <2>2 DEF Installed, Parts
  <2> QED
    BY <2>1, <2>3, <2>4, <2>5, <2>6, <2>7, UnfinishedSound DEF Locked, Modifying
<1> QED
  BY <1>1, <1>2, OnePart DEF InstallPackages, Version

(* plugin.id is opened, and empty. *)
LEMMA OpenIdSound ==
    ASSUME InstallerInv, InstallerType', NEW v \in Versions \ touched, NEW w \in Workers,
           OpenId(w), Version(w) = v
    PROVE  Sound(v)' /\ (Installed(v) => Installed(v)')
<1>1. CASE WriteFails(w) /\ files' = files
  BY <1>1, GivenUp
<1>2. CASE /\ Write({v} \X {"plugin.id"}, Empty)
           /\ Go(w, "filling") /\ UNCHANGED <<call, opened, listed, spoiled>>
  <2>1. /\ Others(w) /\ Directory(v) /\ Work(w, v) /\ InstallerType /\ phase[w] = "writing"
        /\ UNCHANGED <<told, uploaded>>
    BY OthersStay DEF InstallerInv, Step, OpenId, Still, manager, At, Sound
  <2>2. /\ Has(v, "root") /\ Has(v, "venv") /\ Has(v, "packages") /\ ~Has(v, "plugin.id")
        /\ files[v, "packages"] = call[w].id /\ files[v, "packages"] \in PluginIds
        /\ Has(v, "lock") /\ opened[w] = files[v, "lock"]
    BY <2>1 DEF Work, Locked, Directory
  <2>3. /\ Has(v, "root")' /\ Has(v, "venv")' /\ Has(v, "packages")'
        /\ files'[v, "packages"] = files[v, "packages"]
        /\ Has(v, "plugin.id")' /\ files'[v, "plugin.id"] = Empty
        /\ SameLock(v)
    <3> DEFINE P == {"plugin.id"}
    <3>1. P \in SUBSET Parts /\ "plugin.id" \in P /\ Write({v} \X P, Empty)
          /\ {"root", "venv", "packages"} \subseteq Parts \ P
      BY <1>2 DEF Parts
    <3>2. "root" \in Parts \ P /\ "venv" \in Parts \ P /\ "packages" \in Parts \ P
      BY <3>1
    <3> HIDE DEF P
    <3>3. /\ \A part \in P : Has(v, part)' /\ files'[v, part] = Empty
          /\ \A part \in Parts \ P : /\ Has(v, part)' <=> Has(v, part)
                                     /\ Has(v, part) => files'[v, part] = files[v, part]
          /\ SameLock(v)
      BY <3>1, WrittenParts
    <3> QED
      BY <2>2, <3>1, <3>2, <3>3
  <2>4. phase'[w] = "filling" /\ Version(w)' = v /\ call' = call /\ opened' = opened
    BY <1>2, <2>1 DEF Go, InstallerType, Version
  <2>5. Work(w, v)'
    BY <2>2, <2>3, <2>4 DEF Work, SameLock, Has, Locked
  <2>6. ~Installed(v)
    BY <2>2 DEF Installed, Parts
  <2> QED
    BY <1>2, <2>1, <2>2, <2>3, <2>4, <2>5, <2>6, UnfinishedSound DEF Locked, Modifying
<1> QED
  BY <1>1, <1>2, OnePart DEF OpenId, Version

(* The directory is whole once its plugin.id is written. *)
LEMMA WriteIdSound ==
    ASSUME InstallerInv, InstallerType', NEW v \in Versions \ touched, NEW w \in Workers,
           WriteId(w), Version(w) = v
    PROVE  Sound(v)' /\ (Installed(v) => Installed(v)')
<1>1. CASE WriteFails(w) /\ files' = files
  BY <1>1, GivenUp
<1>2. CASE /\ Release(w) /\ UNCHANGED <<call, listed, spoiled>>
           /\ Has(v, "plugin.id") => Write({v} \X {"plugin.id"}, call[w].id)
  <2>1. /\ Others(w) /\ Directory(v) /\ Work(w, v) /\ InstallerType /\ phase[w] = "filling"
        /\ LocksApart /\ Sound(v) /\ UNCHANGED <<told, uploaded>>
    BY OthersStay DEF InstallerInv, Step, WriteId, Still, manager, At, Sound
  <2>2. /\ Has(v, "root") /\ Has(v, "venv") /\ Has(v, "packages") /\ Has(v, "plugin.id")
        /\ files[v, "packages"] = call[w].id /\ files[v, "packages"] \in PluginIds
        /\ files[v, "plugin.id"] = Empty
    BY <2>1 DEF Work, Locked, Directory
  <2>3. /\ Has(v, "root")' /\ Has(v, "venv")' /\ Has(v, "packages")'
        /\ files'[v, "packages"] = files[v, "packages"]
        /\ Has(v, "plugin.id")' /\ files'[v, "plugin.id"] = call[w].id
        /\ SameLock(v)
    <3> DEFINE P == {"plugin.id"}
    <3>0. PICK c : c = call[w].id
      OBVIOUS
    <3>1. P \in SUBSET Parts /\ "plugin.id" \in P /\ Write({v} \X P, c)
          /\ {"root", "venv", "packages"} \subseteq Parts \ P
      BY <1>2, <3>0, <2>2 DEF Parts
    <3>2. "root" \in Parts \ P /\ "venv" \in Parts \ P /\ "packages" \in Parts \ P
      BY <3>1
    <3> HIDE DEF P
    <3>3. /\ \A part \in P : Has(v, part)' /\ files'[v, part] = c
          /\ \A part \in Parts \ P : /\ Has(v, part)' <=> Has(v, part)
                                     /\ Has(v, part) => files'[v, part] = files[v, part]
          /\ SameLock(v)
      BY <3>1, WrittenParts
    <3> QED
      BY <2>2, <3>0, <3>1, <3>2, <3>3
  <2>4. Installed(v)'
    BY <2>2, <2>3 DEF Installed, Parts
  <2>5. ~Installed(v)
    BY <2>2, InstallerAssumption DEF Installed, PluginIds
  <2>6. told'[v] # "installed"
    BY <2>1, <2>5 DEF Directory
  <2>7. Directory(v)'
    BY <2>2, <2>3, <2>4, <2>6 DEF Directory
  <2>8. phase'[w] = "reporting" /\ call' = call
    BY <1>2, <2>1 DEF Release, Go, InstallerType
  <2>9. Work(w, v)'
    BY <2>3, <2>4, <2>8 DEF Work, Locked
  <2> QED
    BY <2>1, <2>3, <2>4, <2>5, <2>7, <2>9, Changed DEF Locked
<1> QED
  BY <1>1, <1>2, OnePart DEF WriteId, Version

(* rmtree: of another version, or by the install that made the directory.  *)
LEMMA RemoveOneSound ==
    ASSUME InstallerInv, InstallerType', NEW v \in Versions \ touched, NEW w \in Workers,
           RemoveOne(w)
    PROVE  Sound(v)' /\ (Installed(v) => Installed(v)')
<1>1. /\ Others(w) /\ Sound(v) /\ Directory(v) /\ InstallerType /\ LocksApart
      /\ UNCHANGED <<told, uploaded, call, phase, opened>> /\ spoiled \subseteq spoiled'
      /\ CallFits(w)
  BY OthersStay DEF InstallerInv, Step, RemoveOne, Still, manager, Sound, InstallerType
<1>2. PICK f \in listed[w] :
          /\ f[2] = "root" => \A g \in listed[w] : g[1] = f[1] => g[2] \in {"root", "lock"}
          /\ listed'[w] = listed[w] \ {f}
          /\ \/ f[2] = "root" /\ InDirectory(f[1]) # {f} /\ files' = files
             \/ ~ (f[2] = "root" /\ InDirectory(f[1]) # {f}) /\ Remove({f})
             \/ files' = files /\ spoiled' = spoiled \cup {f[1]}
  BY DEF RemoveOne, InstallerInv, InstallerType
<1>3. f = <<f[1], f[2]>> /\ f[2] \in Parts \cup {"lock"}
  BY <1>1, <1>2 DEF CallFits, Files
<1>4. /\ DOMAIN files' \subseteq DOMAIN files
      /\ \A g \in DOMAIN files' : files'[g] = files[g]
      /\ \A g \in DOMAIN files : g # f => g \in DOMAIN files'
      /\ Remove({f}) => f \notin DOMAIN files'
  BY <1>2 DEF Remove, Restrict
<1>5. CASE f[1] # v
  <2>1. SameParts(v) /\ SameLock(v)
    <3>1. \A part : <<v, part>> # f
      BY <1>3, <1>5
    <3>2. \A part : /\ <<v, part>> \in DOMAIN files' <=> <<v, part>> \in DOMAIN files
                    /\ <<v, part>> \in DOMAIN files =>
                           files'[<<v, part>>] = files[<<v, part>>]
      BY <1>4, <3>1
    <3> QED
      BY <3>2 DEF SameParts, SameLock, Has
  <2>2. told'[v] = "installed" => Installed(v) /\ files[v, "plugin.id"] = uploaded'[v]
    BY <1>1 DEF Directory
  <2>3. Version(w)' = v => Work(w, v)'
    <3> SUFFICES ASSUME Version(w) = v PROVE Work(w, v)'
      BY <1>1 DEF Version
    <3>1. Work(w, v)
      BY <1>1 DEF Sound
    <3>2. phase[w] # "cleaning"
      <4> SUFFICES ASSUME phase[w] = "cleaning" PROVE FALSE
        OBVIOUS
      <4>1. call[w].do = "install"
        BY <1>1, WorkerAt DEF InThreadLock, Locked
      <4>2. f \in {v} \X Parts
        BY <1>1, <1>2, <4>1 DEF CallFits
      <4> QED
        BY <1>5, <4>2
    <3>3. /\ \A part \in Parts : Has(v, part)' <=> Has(v, part)
          /\ \A part \in Parts : Has(v, part) => files'[v, part] = files[v, part]
          /\ {"root", "venv", "packages", "plugin.id"} = Parts
          /\ Installed(v)' <=> Installed(v)
      BY <1>1, <2>1, SamePartsEffect
    <3>4. Installed(v) => Has(v, "plugin.id")
      BY <3>3 DEF Installed
    <3> QED
      BY <1>1, <2>1, <3>1, <3>2, <3>3, <3>4 DEF Work, SameLock, Has
  <2> QED
    BY <1>1, <2>1, <2>2, <2>3, Spared DEF Version
<1>6. CASE f[1] = v
  <2>1. phase[w] = "cleaning" /\ Version(w) = v /\ call[w].how = "error"
    BY <1>2, <1>6, NotUninstalled
  <2>2. Work(w, v) /\ call[w].do = "install"
    BY <1>1, <2>1, WorkerAt DEF Sound, InThreadLock, Locked
  <2>3. f \in {v} \X Parts
    BY <1>1, <1>2, <2>1, <2>2 DEF CallFits
  <2>4. "lock" \notin Parts
    BY DEF Parts
  <2>5. SameLock(v)
    <3>1. <<v, "lock">> # f
      BY <2>3, <2>4
    <3> QED
      BY <1>4, <3>1 DEF SameLock, Has
  <2>6. /\ InDirectory(v) \subseteq listed[w] \/ v \in spoiled
        /\ Has(v, "lock") /\ opened[w] = files[v, "lock"]
        /\ Has(v, "plugin.id") => files[v, "plugin.id"] = Empty
    BY <2>1, <2>2 DEF Work, Locked
  <2>7. \A part \in Parts : Has(v, part)' =>
            Has(v, part) /\ files'[v, part] = files[v, part]
    BY <1>4 DEF Has
  <2>8. InDirectory(v)' \subseteq InDirectory(v) /\ (f \in InDirectory(v)' => files' = files)
    <3> QED
      BY <1>2, <1>4 DEF InDirectory
  <2>9. InDirectory(v)' \subseteq listed'[w] \/ v \in spoiled'
    <3> SUFFICES ASSUME v \notin spoiled' PROVE InDirectory(v)' \subseteq listed'[w]
      OBVIOUS
    <3>0. InDirectory(v) \subseteq listed[w]
      BY <1>1, <2>6
    <3>1. CASE f[2] = "root" /\ InDirectory(v) # {f} /\ files' = files
      <4>1. \A g \in InDirectory(v) : g = f
        <5> SUFFICES ASSUME NEW g \in InDirectory(v) PROVE g = f
          OBVIOUS
        <5>1. g \in listed[w] /\ g[1] = v /\ g[2] # "lock"
          BY <3>0 DEF InDirectory
        <5>2. g[2] = "root"
          BY <1>2, <1>6, <3>1, <5>1
        <5>3. g = <<g[1], g[2]>>
          BY <1>1, <5>1 DEF CallFits, Files
        <5> QED
          BY <1>3, <1>6, <3>1, <5>1, <5>2, <5>3
      <4>2. InDirectory(v) = {}
        BY <3>1, <4>1
      <4> QED
        BY <2>8, <4>2
    <3>2. CASE Remove({f})
      <4>1. f \notin DOMAIN files'
        BY <1>4, <3>2
      <4> QED
        BY <1>2, <3>0, <2>8, <4>1 DEF InDirectory
    <3> QED
      BY <1>2, <1>6, <3>1, <3>2
  <2>10. Work(w, v)'
    BY <1>1, <2>1, <2>5, <2>6, <2>7, <2>9 DEF Work, SameLock, Has, Locked, Parts
  <2>11. Has(v, "venv")' \/ Has(v, "packages")' \/ Has(v, "plugin.id")' => Has(v, "root")'
    <3>1. CASE f[2] # "root"
      <4>1. Has(v, "root") => Has(v, "root")'
        BY <1>4, <3>1 DEF Has
      <4> QED
        BY <1>1, <2>7, <4>1 DEF Directory, Parts
    <3>2. CASE files' = files
      BY <1>1, <3>2 DEF Directory, Has
    <3>3. CASE f[2] = "root" /\ InDirectory(v) = {f}
      <4> SUFFICES ASSUME NEW part \in {"venv", "packages", "plugin.id"}, Has(v, part)'
                   PROVE  FALSE
        OBVIOUS
      <4>1. Has(v, part) /\ part \in Parts
        BY <2>7 DEF Parts
      <4>2. <<v, part>> \in InDirectory(v)
        BY <2>4, <4>1 DEF InDirectory, Has
      <4> QED
        BY <3>3, <4>2
    <3> QED
      BY <1>2, <1>6, <3>1, <3>2, <3>3
  <2>12. ~Installed(v)
    BY <1>1, <2>6, InstallerAssumption DEF Installed, Parts, Directory, PluginIds
  <2>13. /\ ~Has(v, "plugin.id")' \/ files'[v, "plugin.id"] = Empty
         /\ Has(v, "packages")' => files'[v, "packages"] \in PluginIds
    BY <1>1, <2>6, <2>7 DEF Directory, Parts
  <2> QED
    BY <1>1, <2>1, <2>5, <2>10, <2>11, <2>12, <2>13, UnfinishedSound
       DEF Locked, Modifying, Version
<1> QED
  BY <1>5, <1>6

-----------------------------------------------------------------------------
(* touched, and the step from one state to the next                        *)

(* A version is touched by an uninstall and until that is over. *)
LEMMA TouchedBy ==
    ASSUME [Next]_vars, NEW v \in Versions, v \notin touched', Uninstalled(v) => v \in touched
    PROVE  /\ ~Uninstalled(v)'
           /\ v \in touched => Over(v)'
<1>1. CASE UNCHANGED vars
  <2>1. touched' = touched /\ call' = call /\ listed' = listed
    BY <1>1 DEF vars
  <2> QED
    BY <2>1 DEF Uninstalled, Version
<1>2. CASE Touch
  BY <1>2 DEF Touch
<1>3. ASSUME NEW w \in Workers, Step(w) PROVE Touch
  BY <1>3 DEF Step, Acquire, Open, Lock, Check, MakeVirtualenv, InstallPackages, OpenId, WriteId,
              RemoveOne, Cleaned, RemoveLockFile, LookAbove, ListAbove, RemoveAbove, Report,
              Quietly, Still
<1> QED
  BY <1>1, <1>2, <1>3 DEF Next, Install, Uninstall, Upload, Crash

(* Once an uninstall is over there is nothing at all. *)
LEMMA OverSound ==
    ASSUME InstallerType', NEW v \in Versions, Over(v)'
    PROVE  Sound(v)'
<1>1. \A part \in Parts : ~Has(v, part)'
  <2> DEFINE D == DOMAIN files'
  <2>1. D \in SUBSET Files /\ {f \in D : f[1] = v /\ f[2] # "lock"} = {}
    BY DEF Over, InDirectory, InstallerType
  <2> HIDE DEF D
  <2>2. \A part \in Parts : <<v, part>> \notin D
    BY <2>1, DirectoryParts
  <2> QED
    BY <2>2 DEF D, Has
<1>2. ~Has(v, "root")' /\ ~Has(v, "venv")' /\ ~Has(v, "packages")' /\ ~Has(v, "plugin.id")'
  BY <1>1 DEF Parts
<1>3. told'[v] # "installed" /\ InDirectory(v)' = {} /\ \A w \in Workers : Version(w)' # v
  BY DEF Over, Alone
<1> QED
  BY <1>2, <1>3 DEF Sound, Directory

(* A step that is none. *)
LEMMA UnchangedSound ==
    ASSUME InstallerInv, InstallerType', NEW v \in Versions \ touched, UNCHANGED vars
    PROVE  Sound(v)' /\ (Installed(v) => Installed(v)')
<1>1. /\ UNCHANGED <<call, phase, opened, listed, told, uploaded, spoiled, files>>
      /\ InstallerType /\ Sound(v)
  BY DEF vars, manager, host, InstallerInv
<1>2. SameParts(v) /\ SameLock(v)
  BY <1>1, SameFiles
<1>3. \A w \in Workers : Version(w)' = v => Work(w, v)'
  BY <1>1, <1>2, WorkKept DEF Sound, Version
<1>4. Directory(v)' /\ (Installed(v) => Installed(v)')
  BY <1>1, <1>2, DirectoryKept DEF Sound, Directory, Version
<1> QED
  BY <1>3, <1>4 DEF Sound

(* One step per operation. *)
LEMMA SoundStep ==
    ASSUME InstallerInv, [Next]_vars, NEW v \in Versions \ touched, v \notin touched'
    PROVE  Sound(v)' /\ (Installed(v) => Installed(v)')
<1>1. InstallerType'
  BY InstallerTyped DEF InstallerInv
<1>2. CASE UNCHANGED vars
  BY <1>1, <1>2, UnchangedSound
<1>3. ASSUME NEW w \in Workers, NEW u \in Versions, Install(w, u) \/ Uninstall(w, u)
      PROVE  Sound(v)' /\ (Installed(v) => Installed(v)')
  BY <1>1, <1>3, CallSound
<1>4. ASSUME NEW w \in Workers, Step(w)
      PROVE  Sound(v)' /\ (Installed(v) => Installed(v)')
  <2>1. CASE \/ Acquire(w) \/ Lock(w) \/ Check(w) \/ Cleaned(w)
             \/ LookAbove(w) \/ ListAbove(w) \/ RemoveAbove(w)
    BY <1>1, <2>1, QuietSound
  <2>2. CASE Open(w) \/ RemoveLockFile(w)
    BY <1>1, <2>2, LockFileSound
  <2>3. CASE (MakeVirtualenv(w) \/ InstallPackages(w) \/ OpenId(w) \/ WriteId(w)) /\ Version(w) # v
    BY <1>1, <2>3, ElsewhereSound
  <2>4. CASE MakeVirtualenv(w) /\ Version(w) = v
    BY <1>1, <2>4, MakeVirtualenvSound
  <2>5. CASE InstallPackages(w) /\ Version(w) = v
    BY <1>1, <2>5, InstallPackagesSound
  <2>6. CASE OpenId(w) /\ Version(w) = v
    BY <1>1, <2>6, OpenIdSound
  <2>7. CASE WriteId(w) /\ Version(w) = v
    BY <1>1, <2>7, WriteIdSound
  <2>8. CASE RemoveOne(w)
    BY <1>1, <2>8, RemoveOneSound
  <2>9. CASE Report(w)
    BY <1>1, <2>9, ReportSound
  <2> QED
    BY <1>4, <2>1, <2>2, <2>3, <2>4, <2>5, <2>6, <2>7, <2>8, <2>9 DEF Step
<1>5. ASSUME NEW u \in Versions, Upload(u)
      PROVE  Sound(v)' /\ (Installed(v) => Installed(v)')
  BY <1>1, <1>5, UploadSound
<1>6. ASSUME NEW p \in Processes, Crash(p)
      PROVE  Sound(v)' /\ (Installed(v) => Installed(v)')
  BY <1>1, <1>6, CrashSound
<1> QED
  BY <1>2, <1>3, <1>4, <1>5, <1>6 DEF Next

-----------------------------------------------------------------------------
(* The invariant *)

(* A host starts with nothing, or with what was installed before. *)
LEMMA InstallerInvInit == Init => InstallerInv
<1> SUFFICES ASSUME Init PROVE InstallerInv
  OBVIOUS
<1>1. PICK present \in {{}} \cup {{v} : v \in Versions} :
          /\ told = [v \in Versions |-> IF v \in present /\ ~source THEN "installed"
                                        ELSE "pending-install"]
          /\ files = [f \in present \X (Parts \cup {"lock"}) |-> Whole(f[2], PluginId(f[1]))]
  BY DEF Init
<1>2. present \subseteq Versions
  BY <1>1
<1>3. \A w \in Workers : call[w] = NoCall /\ phase[w] = "idle" /\ opened[w] = 0 /\ listed[w] = {}
  BY DEF Init
<1>4. uploaded \in [Versions -> Ids]
  BY InstallerAssumption DEF Init
<1>5. InstallerType
  <2>1. DOMAIN files \subseteq Files
    BY <1>1, <1>2 DEF Files
  <2>2. \A w \in Workers : CallFits(w)
    BY <1>3 DEF CallFits, NoCall
  <2>3. NoCall \in Calls
    BY DEF NoCall, Calls
  <2>4. /\ call \in [Workers -> Calls] /\ DOMAIN opened = Workers /\ DOMAIN listed = Workers
        /\ phase \in [Workers -> {"idle"} \cup Installing \cup Uninstalling]
        /\ source \in BOOLEAN /\ process \in [Workers -> Processes]
    BY <2>3 DEF Init
  <2>5. told \in [Versions -> {"pending-install", "installing", "installed",
                               "uninstalled", "error"}]
    BY <1>1
  <2> QED
    BY <1>4, <2>1, <2>2, <2>4, <2>5 DEF InstallerType
<1>6. LocksApart
  BY <1>3 DEF LocksApart, InThreadLock, Locked
<1>7. \A v \in Versions : ~Uninstalled(v)
  BY <1>3 DEF Uninstalled, NoCall
<1>8. ASSUME NEW v \in Versions PROVE Sound(v)
  <2>1. \A w \in Workers : Work(w, v)
    BY <1>3 DEF Work, Locked
  <2>2. CASE v \in present
    <3>1. /\ \A part \in Parts \cup {"lock"} : Has(v, part)
          /\ \A part \in Parts : files[v, part] = Whole(part, PluginId(v))
      BY <1>1, <2>2 DEF Has
    <3>2. files[v, "packages"] = PluginId(v) /\ files[v, "plugin.id"] = PluginId(v)
      BY <3>1 DEF Whole, Parts
    <3>3. Installed(v)
      BY <3>1, <3>2 DEF Installed
    <3>4. PluginId(v) \in PluginIds
      BY <1>4 DEF PluginId, PluginIds
    <3>5. told[v] = "installed" => PluginId(v) = uploaded[v]
      BY <1>1 DEF PluginId
    <3>6. Has(v, "root")
      BY <3>1 DEF Parts
    <3> QED
      BY <2>1, <3>2, <3>3, <3>4, <3>5, <3>6 DEF Sound, Directory
  <2>3. CASE v \notin present
    <3>1. \A part : ~Has(v, part)
      BY <1>1, <2>3 DEF Has
    <3>2. InDirectory(v) = {}
      <4>1. \A f \in DOMAIN files : f[1] # v
        BY <1>1, <2>3
      <4> QED
        BY <4>1 DEF InDirectory
    <3>3. told[v] # "installed"
      BY <1>1, <2>3
    <3> QED
      BY <2>1, <3>1, <3>2, <3>3 DEF Sound, Directory
  <2> QED
    BY <2>2, <2>3
<1> QED
  BY <1>5, <1>6, <1>7, <1>8 DEF InstallerInv

LEMMA InstallerInvKept == InstallerInv /\ [Next]_vars => InstallerInv'
<1> SUFFICES ASSUME InstallerInv, [Next]_vars PROVE InstallerInv'
  OBVIOUS
<1>1. InstallerType' /\ LocksApart'
  BY InstallerTyped, LocksStayApart DEF InstallerInv
<1>2. ASSUME NEW v \in Versions, v \notin touched'
      PROVE  ~Uninstalled(v)' /\ Sound(v)'
  <2>1. ~Uninstalled(v)' /\ (v \in touched => Over(v)')
    BY <1>2, TouchedBy DEF InstallerInv
  <2>2. CASE v \in touched
    BY <1>1, <2>1, <2>2, OverSound
  <2>3. CASE v \notin touched
    BY <1>2, <2>1, <2>3, SoundStep
  <2> QED
    BY <2>2, <2>3
<1> QED
  BY <1>1, <1>2 DEF InstallerInv

LEMMA InstallerInvHolds == Spec => []InstallerInv
<1>1. Init => InstallerInv
  BY InstallerInvInit
<1>2. InstallerInv /\ [Next]_vars => InstallerInv'
  BY InstallerInvKept
<1> QED
  BY <1>1, <1>2, PTL DEF Spec

(* The two locks do what they are for: where nothing is uninstalled no two   *)
(* threads, of one process or of two, are ever inside of the lock of a version. *)
OneInstallAtATime ==
    \A w, x \in Workers :
        /\ Version(w) = Version(x) /\ Version(w) \in Versions \ touched
        /\ phase[w] \in Locked /\ phase[x] \in Locked
        => w = x

THEOREM InstallsExclude == Spec => []OneInstallAtATime
<1>1. ASSUME InstallerInv, NEW w \in Workers, NEW x \in Workers, Version(w) = Version(x),
             Version(w) \in Versions \ touched, phase[w] \in Locked, phase[x] \in Locked
      PROVE  w = x
  <2>1. LocksApart /\ Work(w, Version(w)) /\ Work(x, Version(w))
    BY <1>1 DEF InstallerInv, Sound
  <2> QED
    BY <1>1, <2>1, OneInside
<1>2. InstallerInv => OneInstallAtATime
  BY <1>1 DEF OneInstallAtATime
<1> QED
  BY <1>2, InstallerInvHolds, PTL

(* A plugin.id tells the truth, what the manager takes for installed is there *)
(* and whole, and a directory that nobody is at is whole or absent, unless a  *)
(* process died in it or a step failed that the code does not clean up after: *)
(* for any number of versions, uploads, threads and processes.                *)
THEOREM InstalledIsWholeOrAbsent == Spec => []WholeOrAbsent
<1>1. InstallerInv => WholeOrAbsent
  BY DEF InstallerInv, Sound, Directory, WholeOrAbsent, Alone
<1> QED
  BY <1>1, InstallerInvHolds, PTL

(* A step takes no more than one file away. *)
LEMMA OneFileGoes ==
    ASSUME [Next]_vars
    PROVE  \E f : \A g \in DOMAIN files : g = f \/ g \in DOMAIN files'
<1>1. CASE files' = files
  BY <1>1
<1>2. ASSUME NEW S, NEW c, Write(S, c) PROVE DOMAIN files \subseteq DOMAIN files'
  BY <1>2 DEF Write
<1>3. ASSUME NEW f, Remove({f}) PROVE \A g \in DOMAIN files : g = f \/ g \in DOMAIN files'
  BY <1>3 DEF Remove, Restrict
<1>4. ASSUME NEW w \in Workers, Step(w)
      PROVE  \E f : \A g \in DOMAIN files : g = f \/ g \in DOMAIN files'
  <2>1. CASE \/ Open(w) \/ MakeVirtualenv(w) \/ InstallPackages(w) \/ OpenId(w) \/ WriteId(w)
    <3>1. DOMAIN files \subseteq DOMAIN files'
      BY <2>1 DEF Open, MakeVirtualenv, InstallPackages, OpenId, WriteId, Write
    <3> QED
      BY <3>1
  <2>2. CASE RemoveOne(w)
    BY <1>1, <1>3, <2>2 DEF RemoveOne
  <2>3. CASE RemoveLockFile(w)
    BY <1>3, <2>3 DEF RemoveLockFile
  <2>4. CASE \/ Acquire(w) \/ Lock(w) \/ Check(w) \/ Cleaned(w)
             \/ LookAbove(w) \/ ListAbove(w) \/ RemoveAbove(w) \/ Report(w)
    BY <1>1, <2>4 DEF Acquire, Lock, Check, Cleaned, LookAbove, ListAbove, RemoveAbove, Report,
                      Quietly, host
  <2> QED
    BY <1>4, <2>1, <2>2, <2>3, <2>4 DEF Step
<1> QED
  BY <1>1, <1>4 DEF Next, Install, Uninstall, Upload, Crash, host, vars

(* No install takes away what is installed, be it its own version or another. *)
THEOREM InstalledKept == Spec => InstalledStays
<1>1. ASSUME InstallerInv, [Next]_vars, NEW v \in Versions, Installed(v), v \notin touched'
      PROVE  Installed(v)'
  <2>1. CASE v \notin touched
    BY <1>1, <2>1, SoundStep
  <2>2. CASE v \in touched
    <3>1. Over(v)'
      BY <1>1, <2>2, TouchedBy DEF InstallerInv
    <3>2. \A g \in DOMAIN files' : ~ (g[1] = v /\ g[2] # "lock")
      BY <3>1 DEF Over, InDirectory
    <3>3. <<v, "root">> \notin DOMAIN files' /\ <<v, "venv">> \notin DOMAIN files'
      BY <3>2
    <3>4. <<v, "root">> \in DOMAIN files /\ <<v, "venv">> \in DOMAIN files
      BY <1>1 DEF Installed, Has, Parts
    <3> QED
      BY <1>1, <3>3, <3>4, OneFileGoes
  <2> QED
    BY <2>1, <2>2
<1>2. InstallerInv /\ [Next]_vars =>
          [\A v \in Versions : Installed(v) => Installed(v)' \/ v \in touched']_vars
  BY <1>1
<1> QED
  BY <1>2, InstallerInvHolds, PTL DEF Spec, InstalledStays
=============================================================================
