--------------------------- MODULE WindowsInstaller ---------------------------
(***************************************************************************)
(* The durable lifecycle of the Windows probe service: install, rollback,  *)
(* the profile operations and uninstall (windows/p6installer/manager.py),  *)
(* over the service control manager (scm.py) and the profile vault         *)
(* (remote_probe/profiles.py).                                             *)
(*                                                                         *)
(* installer.lock admits one operation.  It may end after any step: the    *)
(* step raises, the process is killed, the power fails.  What survives is  *)
(* on disk, and the next operation starts by finishing what the two intent *)
(* files, upgrade.json and uninstall.json, say was under way (_recover).   *)
(***************************************************************************)
EXTENDS Naturals, FiniteSets

CONSTANTS
    Releases,           \* signed releases
    Profiles,           \* probe profiles
    None,               \* no release
    MaxReleases,        \* entries install admits in releases/ (4)
    MaxProfiles         \* live and retired profiles (8)

ASSUME InstallerAssumption ==
    /\ None \notin Releases
    /\ MaxReleases \in Nat \ {0} /\ MaxProfiles \in Nat \ {0}

VARIABLES
    installed,  \* whole releases in releases/
    stages,     \* abandoned .stage- directories in releases/
    state,      \* active.json, previous.json, uninstalled.json
    upgrade,    \* upgrade.json: old and new release, or None
    uninstall,  \* uninstall.json: the release, or None
    service,    \* the managed service: its command, running, start mode
    profiles,   \* where each profile is, and whether it is enabled
    op          \* the operation under way and its next step

installerVars == <<installed, stages, state, upgrade, uninstall, service, profiles, op>>

-----------------------------------------------------------------------------
NoIntent == [old |-> None, new |-> None]
NoOperation == [pc |-> "idle", kind |-> "status", arg |-> None, fresh |-> TRUE]
AdminOperations == {"install", "rollback", "status", "import", "pause", "resume", "remove",
          "purge", "uninstall"}

InstallerInit ==
    /\ installed = {} /\ stages = 0
    /\ state = [active |-> None, previous |-> None, gone |-> FALSE]
    /\ upgrade = NoIntent /\ uninstall = None
    /\ service = [command |-> None, running |-> FALSE, auto |-> TRUE]
    /\ profiles = [p \in Profiles |-> "absent"]
    /\ op = NoOperation

To(pc) == op' = [op EXCEPT !.pc = pc]
Done == op' = NoOperation

(* Service.stop, configure, start: refused for a command that is not the   *)
(* expected one; configure keeps the start mode of an existing service.    *)
Owned(expected) == service.command \in expected \cup {None}
Stopped == [service EXCEPT !.running = FALSE]
Configured(release) ==
    [command |-> release, running |-> FALSE,
     auto |-> IF service.command = None THEN TRUE ELSE service.auto]

-----------------------------------------------------------------------------
(* An operation takes the lock.  All but rollback recover first.           *)
StartOp(kind, arg) ==
    /\ op.pc = "idle"
    /\ op' = [pc |-> IF kind = "rollback" THEN "rollback" ELSE "recover",
              kind |-> kind, arg |-> arg, fresh |-> TRUE]
    /\ UNCHANGED <<installed, stages, state, upgrade, uninstall, service, profiles>>

(* set_autostart refuses to recover anything implicitly.                   *)
SetAutostart(enabled) ==
    /\ op.pc = "idle"
    /\ upgrade = NoIntent /\ uninstall = None
    /\ state.active \in installed /\ service.command = state.active
    /\ service' = [service EXCEPT !.auto = enabled]
    /\ UNCHANGED <<installed, stages, state, upgrade, uninstall, profiles, op>>

(* The live profiles.                                                      *)
VaultKeys == {p \in Profiles : profiles[p] \in {"on", "off"}}

-----------------------------------------------------------------------------
(* _recover_uninstall.                                                     *)
Recover ==
    /\ op.pc = "recover"
    /\ IF uninstall # None
       THEN /\ VaultKeys = {} /\ state.active \in {None, uninstall}
            /\ Owned({uninstall})
            /\ To("udelete")
       ELSE To("upgrade")
    /\ service' = IF uninstall # None THEN Stopped ELSE service
    /\ UNCHANGED <<installed, stages, state, upgrade, uninstall, profiles>>

DeleteService ==
    /\ op.pc = "udelete"
    /\ service' = [service EXCEPT !.command = None]
    /\ To("utree")
    /\ UNCHANGED <<installed, stages, state, upgrade, uninstall, profiles>>

(* rmtree of releases/, which may end half-way.                            *)
DropRelease(r) ==
    /\ op.pc = "utree" /\ r \in installed
    /\ installed' = installed \ {r}
    /\ UNCHANGED <<stages, state, upgrade, uninstall, service, profiles, op>>

DropReleases ==
    /\ op.pc = "utree" /\ installed = {}
    /\ stages' = 0
    /\ op' = [op EXCEPT !.pc = "umark", !.fresh = FALSE]
    /\ UNCHANGED <<installed, state, upgrade, uninstall, service, profiles>>

MarkUninstalled ==
    /\ op.pc = "umark"
    /\ state' = [state EXCEPT !.gone = TRUE]
    /\ To("uactive")
    /\ UNCHANGED <<installed, stages, upgrade, uninstall, service, profiles>>

DropActive ==
    /\ op.pc = "uactive"
    /\ state' = [state EXCEPT !.active = None]
    /\ To("uprevious")
    /\ UNCHANGED <<installed, stages, upgrade, uninstall, service, profiles>>

DropPrevious ==
    /\ op.pc = "uprevious"
    /\ state' = [state EXCEPT !.previous = None]
    /\ To("uclear")
    /\ UNCHANGED <<installed, stages, upgrade, uninstall, service, profiles>>

ClearUninstall ==
    /\ op.pc = "uclear"
    /\ uninstall' = None
    /\ IF op.kind = "uninstall" /\ op.arg # None THEN Done ELSE To("upgrade")
    /\ UNCHANGED <<installed, stages, state, upgrade, service, profiles>>

-----------------------------------------------------------------------------
(* _recover: an upgrade intent is carried out, from the start if need be.  *)
Resolvable ==
    /\ {upgrade.old, upgrade.new} \ {None} \subseteq installed
    /\ state.active \in {upgrade.old, upgrade.new}

Upgrade ==
    /\ op.pc = "upgrade"
    /\ IF upgrade = NoIntent
       THEN To(IF op.kind = "install" THEN "copy" ELSE "operate") /\ UNCHANGED service
       ELSE /\ Resolvable /\ Owned({upgrade.new, upgrade.old})
            /\ service' = Stopped
            /\ To("configure")
    /\ UNCHANGED <<installed, stages, state, upgrade, uninstall, profiles>>

Configure ==
    /\ op.pc = "configure"
    /\ service' = Configured(upgrade.new)
    /\ To("previous")
    /\ UNCHANGED <<installed, stages, state, upgrade, uninstall, profiles>>

SavePrevious ==
    /\ op.pc = "previous"
    /\ state' = IF upgrade.old \notin {None, upgrade.new}
                THEN [state EXCEPT !.previous = upgrade.old] ELSE state
    /\ To("active")
    /\ UNCHANGED <<installed, stages, upgrade, uninstall, service, profiles>>

SaveActive ==
    /\ op.pc = "active"
    /\ state' = [state EXCEPT !.active = upgrade.new]
    /\ To("start")
    /\ UNCHANGED <<installed, stages, upgrade, uninstall, service, profiles>>

StartNew ==
    /\ op.pc = "start"
    /\ service' = [service EXCEPT !.running = TRUE]
    /\ To("clear")
    /\ UNCHANGED <<installed, stages, state, upgrade, uninstall, profiles>>

ClearUpgrade ==
    /\ op.pc = "clear"
    /\ upgrade' = NoIntent
    /\ To("collect")
    /\ UNCHANGED <<installed, stages, state, uninstall, service, profiles>>

(* Mutant: only the release rollback would return to is kept.              *)
KeptPrevious == {state.previous}

(* _collect_releases: what is active and what rollback would return to.    *)
Kept == {state.active, state.previous}

(* rmtree, release by release; then the operation goes on.                 *)
CollectRelease(r) ==
    /\ op.pc = "collect" /\ r \in installed \ Kept
    /\ installed' = installed \ {r}
    /\ UNCHANGED <<stages, state, upgrade, uninstall, service, profiles, op>>

Collected ==
    /\ op.pc = "collect" /\ installed \subseteq Kept
    /\ stages' = 0
    /\ IF op.kind \in {"install", "rollback"} /\ op.arg = None THEN Done
       ELSE To(IF op.kind = "install" THEN "copy" ELSE "operate")
    /\ UNCHANGED <<installed, state, upgrade, uninstall, service, profiles>>

-----------------------------------------------------------------------------
(* install: copy into a stage, publish it with one rename, and let         *)
(* _recover carry out the intent.  The releases directory a recovered      *)
(* uninstall removed is only made again by the next operation.             *)
Stage ==
    /\ op.pc = "copy" /\ op.fresh
    /\ state.active # None => state.active \in installed /\ Owned({state.active})
    /\ op.arg \notin installed
    /\ Cardinality(installed) + stages < MaxReleases
    /\ stages' = stages + 1
    /\ To("publish")
    /\ UNCHANGED <<installed, state, upgrade, uninstall, service, profiles>>

PublishTree ==
    /\ op.pc = "publish"
    /\ installed' = installed \cup {op.arg} /\ stages' = stages - 1
    /\ To("intent")
    /\ UNCHANGED <<state, upgrade, uninstall, service, profiles>>

Reuse ==
    /\ op.pc = "copy" /\ op.fresh
    /\ state.active # None => state.active \in installed /\ Owned({state.active})
    /\ op.arg \in installed
    /\ To("intent")
    /\ UNCHANGED <<installed, stages, state, upgrade, uninstall, service, profiles>>

WriteUpgrade ==
    /\ op.pc = "intent"
    /\ upgrade' = [old |-> state.active, new |-> op.arg]
    /\ op' = [op EXCEPT !.pc = "upgrade", !.arg = None]
    /\ UNCHANGED <<installed, stages, state, uninstall, service, profiles>>

-----------------------------------------------------------------------------
(* rollback without an intent swaps active and previous through _recover;  *)
(* with one it undoes the interrupted upgrade itself.                      *)
RollbackSwap ==
    /\ op.pc = "rollback" /\ upgrade = NoIntent
    /\ state.previous \in installed /\ state.active \in installed
    /\ upgrade' = [old |-> state.active, new |-> state.previous]
    /\ To("recover")
    /\ UNCHANGED <<installed, stages, state, uninstall, service, profiles>>

RollbackUndo ==
    /\ op.pc = "rollback" /\ upgrade.old \in installed
    /\ state.active \in {upgrade.old, upgrade.new}
    /\ Owned({upgrade.old, upgrade.new})
    /\ service' = Stopped
    /\ To("rconfigure")
    /\ UNCHANGED <<installed, stages, state, upgrade, uninstall, profiles>>

RollbackConfigure ==
    /\ op.pc = "rconfigure"
    /\ service' = Configured(upgrade.old)
    /\ To("ractive")
    /\ UNCHANGED <<installed, stages, state, upgrade, uninstall, profiles>>

RollbackActive ==
    /\ op.pc = "ractive"
    /\ state' = [state EXCEPT !.active = upgrade.old]
    /\ To("rstart")
    /\ UNCHANGED <<installed, stages, upgrade, uninstall, service, profiles>>

RollbackStart ==
    /\ op.pc = "rstart"
    /\ service' = [service EXCEPT !.running = TRUE]
    /\ To("rclear")
    /\ UNCHANGED <<installed, stages, state, upgrade, uninstall, profiles>>

RollbackClear ==
    /\ op.pc = "rclear"
    /\ upgrade' = NoIntent
    /\ op' = [op EXCEPT !.pc = "rprevious", !.arg = upgrade.new]
    /\ UNCHANGED <<installed, stages, state, uninstall, service, profiles>>

RollbackPrevious ==
    /\ op.pc = "rprevious"
    /\ state' = [state EXCEPT !.previous = op.arg]
    /\ op' = [op EXCEPT !.pc = "collect", !.arg = None]
    /\ UNCHANGED <<installed, stages, upgrade, uninstall, service, profiles>>

-----------------------------------------------------------------------------
(* operate.  Without a release only status and, after an uninstall, purge. *)
Retired(p) == profiles[p] = "retired"

OperateBare ==
    /\ op.pc = "operate" /\ state.active = None
    /\ op.kind \notin {"install", "rollback"}
    /\ \/ op.kind = "status" /\ UNCHANGED profiles
       \/ /\ op.kind = "purge" /\ state.gone /\ service.command = None
          /\ profiles' = IF Retired(op.arg) THEN [profiles EXCEPT ![op.arg] = "absent"]
                         ELSE profiles
    /\ Done
    /\ UNCHANGED <<installed, stages, state, upgrade, uninstall, service>>

Admitted ==
    CASE op.kind = "import" -> /\ ~Retired(op.arg)
                               /\ \/ op.arg \in VaultKeys
                                  \/ Cardinality({p \in Profiles : profiles[p] # "absent"})
                                       < MaxProfiles
      [] op.kind \in {"pause", "resume", "remove"} -> op.arg \in VaultKeys
      [] op.kind = "purge" -> Retired(op.arg)
      [] op.kind = "uninstall" -> VaultKeys = {}
      [] OTHER -> FALSE

Operate ==
    /\ op.pc = "operate" /\ state.active \in installed /\ Owned({state.active})
    /\ IF op.kind = "status"
       THEN Done /\ UNCHANGED <<service, uninstall>>
       ELSE /\ Admitted
            /\ IF op.kind = "uninstall"
               THEN /\ uninstall' = state.active
                    /\ op' = [op EXCEPT !.pc = "recover", !.arg = state.active]
                    /\ UNCHANGED service
               ELSE /\ service' = Stopped /\ To("apply") /\ UNCHANGED uninstall
    /\ UNCHANGED <<installed, stages, state, upgrade, profiles>>

(* Under the lease of the drained service.  remove disables first.         *)
Apply ==
    /\ op.pc = "apply"
    /\ profiles' = [profiles EXCEPT ![op.arg] =
         CASE op.kind = "import" -> IF @ = "absent" THEN "on" ELSE @
           [] op.kind = "resume" -> "on"
           [] op.kind = "pause" -> "off"
           [] op.kind = "remove" -> IF @ = "on" THEN "off" ELSE "retired"
           [] OTHER -> "absent"]
    /\ IF op.kind = "remove" /\ profiles[op.arg] = "on" THEN UNCHANGED op ELSE To("restart")
    /\ UNCHANGED <<installed, stages, state, upgrade, uninstall, service>>

RestartService ==
    /\ op.pc = "restart" /\ service.command # None
    /\ service' = [service EXCEPT !.running = TRUE]
    /\ Done
    /\ UNCHANGED <<installed, stages, state, upgrade, uninstall, profiles>>

(* The operation raises (a release that does not start, a refusal), or is  *)
(* killed; its lock goes.                                                  *)
EndOp ==
    /\ op.pc # "idle"
    /\ Done
    /\ UNCHANGED <<installed, stages, state, upgrade, uninstall, service, profiles>>

InstallerNext ==
    \/ \E r \in Releases : StartOp("install", r) \/ DropRelease(r) \/ CollectRelease(r)
    \/ \E kind \in {"rollback", "status", "uninstall"} : StartOp(kind, None)
    \/ \E kind \in AdminOperations \ {"install", "rollback", "status", "uninstall"}, p \in Profiles :
         StartOp(kind, p)
    \/ \E enabled \in BOOLEAN : SetAutostart(enabled)
    \/ Recover \/ DeleteService \/ DropReleases \/ MarkUninstalled \/ DropActive
    \/ DropPrevious \/ ClearUninstall
    \/ Upgrade \/ Configure \/ SavePrevious \/ SaveActive \/ StartNew \/ ClearUpgrade
    \/ Collected \/ Stage \/ PublishTree \/ Reuse \/ WriteUpgrade
    \/ RollbackSwap \/ RollbackUndo \/ RollbackConfigure \/ RollbackActive
    \/ RollbackStart \/ RollbackClear \/ RollbackPrevious
    \/ OperateBare \/ Operate \/ Apply \/ RestartService \/ EndOp

InstallerSpec == InstallerInit /\ [][InstallerNext]_installerVars

-----------------------------------------------------------------------------
InstallerTypeOK ==
    /\ installed \subseteq Releases /\ stages \in 0 .. MaxReleases
    /\ state \in [active : Releases \cup {None}, previous : Releases \cup {None},
                  gone : BOOLEAN]
    /\ upgrade \in [old : Releases \cup {None}, new : Releases \cup {None}]
    /\ uninstall \in Releases \cup {None}
    /\ service \in [command : Releases \cup {None}, running : BOOLEAN, auto : BOOLEAN]
    /\ profiles \in [Profiles -> {"absent", "on", "off", "retired"}]
    /\ op.kind \in AdminOperations /\ op.fresh \in BOOLEAN

(* No crash, failed start, rollback or collection ever takes away the      *)
(* files of the release the service runs, of the active one, or of the one *)
(* rollback would return to, unless an uninstall is under way.             *)
RetainedWhole ==
    uninstall = None =>
        {service.command, state.active, state.previous} \ {None} \subseteq installed

(* "Durable old/new release intent permits recovery"                       *)
(* (docs/p6b2-production-agent.md): when no operation runs, the releases a *)
(* pending upgrade names are there to finish it with.                      *)
IntentRecoverable ==
    op.pc = "idle" /\ uninstall = None /\ upgrade # NoIntent => Resolvable
=============================================================================
