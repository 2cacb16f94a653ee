------------------------- MODULE DurableIntentProofs -------------------------
(***************************************************************************)
(* What survives a crash is enough to go on from: the invariants of the    *)
(* ingress, of the Windows installer, of enrolment and revocation, of the  *)
(* quality receiver and of the receiver bundle hold for every number of    *)
(* releases, devices, keys, ingest threads, machines and receivers.        *)
(***************************************************************************)
EXTENDS Provision, Ingress, WindowsInstaller, QualityReceiver, ReceiverBundle, TLAPS

-----------------------------------------------------------------------------
(* The ingress.                                                            *)

AnyJournal == [phase : {"none", "starting", "active", "stopping"}, print : {"unknown", "ours"}]

IngressShape ==
    /\ journal \in AnyJournal /\ table \in {"absent", "ours", "edited"}
    /\ unit \in [active : BOOLEAN, enabled : BOOLEAN]
    /\ call \in [pc : {"idle", "files", "intent", "table", "print", "enable", "await",
                       "disable", "drop", "forget"},
                 op : {"prepare", "activate", "deactivate"}, journal : AnyJournal]
    /\ starting \in [pc : {"no", "ensure", "save", "serve"}, journal : AnyJournal]

\* An operation that has opened something, or may have, left its journal;
\* past the disable nothing is open or on its way; and a pre-start runs only
\* for an enabled unit, with the journal of an activation.
IngressInv ==
    /\ IngressShape
    /\ OpenIsJournaled /\ (unit # Closed => unit.enabled)
    /\ setting \in {"nft", "none"} /\ (setting = "none" => table = "absent")
    /\ call.pc \in {"table", "print", "enable", "await", "disable", "drop", "forget"} =>
         journal # NoJournal
    /\ call.pc \in {"table", "print"} => setting = "nft"
    /\ call.pc \in {"table", "print", "enable", "await"} => call.journal.phase = "starting"
    /\ call.pc \in {"drop", "forget"} => unit = Closed /\ starting.pc = "no"
    /\ call.pc = "forget" => table = "absent"
    /\ starting.pc # "no" => unit # Closed
    /\ starting.pc = "ensure" => setting = "nft"
    /\ starting.pc \in {"ensure", "save"} => starting.journal.phase \in {"starting", "active"}

LEMMA IngressInitially ==
    ASSUME IngressInit
    PROVE  IngressInv
<1>1. IngressShape
  BY DEF IngressInit, IngressShape, AnyJournal, NoCall, NotStarting, NoJournal, Closed
<1> QED
  BY <1>1, IngressAssumption
     DEF IngressInit, IngressInv, OpenIsJournaled, NoCall, NotStarting

LEMMA IngressShapeKept ==
    ASSUME IngressShape, [IngressNext]_ingressVars
    PROVE  IngressShape'
<1> USE DEF IngressShape
<1>0. NoJournal \in AnyJournal /\ [phase |-> "starting", print |-> "unknown"] \in AnyJournal
  BY DEF NoJournal, AnyJournal
<1>a. /\ \A j \in AnyJournal : /\ [j EXCEPT !.phase = "active"] \in AnyJournal
                               /\ [j EXCEPT !.phase = "stopping"] \in AnyJournal
                               /\ [j EXCEPT !.print = "ours"] \in AnyJournal
  BY DEF AnyJournal
<1>b. call.journal \in AnyJournal /\ starting.journal \in AnyJournal
  OBVIOUS
<1>1. journal' \in AnyJournal
  BY <1>0, <1>a, <1>b DEF IngressNext, ingressVars, Prepare, WritePart, Activate, WriteIntent,
     AddTable, SavePrint, Enable, MarkActive, ActivateFails, Deactivate, Disable, DropTable,
     DropJournal, PreStart, Ensure, EnsureSaves, ServiceStarts, StartFails, ServiceDies,
     CertExpires, Killed, Reboot, TableEdited
<1>2. table' \in {"absent", "ours", "edited"}
  BY DEF IngressNext, ingressVars, Prepare, WritePart, Activate, WriteIntent,
     AddTable, SavePrint, Enable, MarkActive, ActivateFails, Deactivate, Disable, DropTable,
     DropJournal, PreStart, Ensure, EnsureSaves, ServiceStarts, StartFails, ServiceDies,
     CertExpires, Killed, Reboot, TableEdited
<1>3. unit' \in [active : BOOLEAN, enabled : BOOLEAN]
  <2>1. \/ UNCHANGED unit \/ unit' = Closed
        \/ \E b \in BOOLEAN : unit' = [unit EXCEPT !.active = b]
        \/ unit' = [unit EXCEPT !.enabled = TRUE]
    BY DEF IngressNext, ingressVars, Prepare, WritePart, Activate, WriteIntent,
       AddTable, SavePrint, Enable, MarkActive, ActivateFails, Deactivate, Disable,
       DropTable, DropJournal, PreStart, Ensure, EnsureSaves, ServiceStarts, StartFails,
       ServiceDies, CertExpires, Killed, Reboot, TableEdited
  <2>2. Closed \in [active : BOOLEAN, enabled : BOOLEAN]
    BY DEF Closed
  <2>3. ASSUME NEW b \in BOOLEAN, unit' = [unit EXCEPT !.active = b]
        PROVE  unit' \in [active : BOOLEAN, enabled : BOOLEAN]
    BY <2>3
  <2>4. CASE unit' = [unit EXCEPT !.enabled = TRUE]
    BY <2>4
  <2> QED
    BY <2>1, <2>2, <2>3, <2>4
<1>4. starting' \in [pc : {"no", "ensure", "save", "serve"}, journal : AnyJournal]
  <2> DEFINE Starts == [pc : {"no", "ensure", "save", "serve"}, journal : AnyJournal]
  <2>1. NotStarting \in Starts
    BY <1>0 DEF NotStarting
  <2>2. CASE PreStart
    BY <1>0, <2>2 DEF PreStart
  <2>3. CASE Ensure
    BY <1>a, <1>b, <2>3 DEF Ensure
  <2>4. CASE EnsureSaves
    BY <2>4 DEF EnsureSaves
  <2>5. \/ PreStart \/ Ensure \/ EnsureSaves \/ UNCHANGED starting
        \/ starting' = NotStarting
    BY DEF IngressNext, ingressVars, Prepare, WritePart, Activate, WriteIntent, AddTable,
       SavePrint, Enable, MarkActive, ActivateFails, Deactivate, Disable, DropTable,
       DropJournal, ServiceStarts, StartFails, ServiceDies, CertExpires, Killed, Reboot,
       TableEdited
  <2> QED
    BY <2>1, <2>2, <2>3, <2>4, <2>5
<1>5. call' \in [pc : {"idle", "files", "intent", "table", "print", "enable", "await",
                      "disable", "drop", "forget"},
                op : {"prepare", "activate", "deactivate"}, journal : AnyJournal]
  <2> DEFINE Calls == [pc : {"idle", "files", "intent", "table", "print", "enable", "await",
                             "disable", "drop", "forget"},
                       op : {"prepare", "activate", "deactivate"}, journal : AnyJournal]
  <2>1. NoCall \in Calls
    BY <1>0 DEF NoCall
  <2>2. CASE Prepare \/ WritePart \/ Activate \/ Deactivate
    <3>1. journal \in AnyJournal /\ journal' \in AnyJournal
      BY <1>1
    <3>2. CASE Prepare
      BY <1>0, <3>2 DEF Prepare, NoCall
    <3>3. CASE Activate
      BY <1>0, <3>1, <3>3 DEF Activate
    <3>4. CASE Deactivate
      BY <3>1, <3>4 DEF Deactivate
    <3> QED
      BY <2>1, <2>2, <3>2, <3>3, <3>4 DEF WritePart
  <2>3. CASE WriteIntent
    BY <1>1, <2>3 DEF WriteIntent
  <2>4. CASE AddTable
    BY <1>a, <1>b, <2>4 DEF AddTable
  <2>5. CASE SavePrint \/ Enable \/ ActivateFails \/ Disable \/ DropTable \/ DropJournal
    BY <2>1, <2>5 DEF SavePrint, Enable, ActivateFails, Disable, DropTable, DropJournal
  <2> QED
    BY <2>1, <2>2, <2>3, <2>4, <2>5 DEF IngressNext, ingressVars, MarkActive,
       PreStart, Ensure, EnsureSaves, ServiceStarts, StartFails, ServiceDies,
       CertExpires, Killed, Reboot, TableEdited
<1> QED
  BY <1>1, <1>2, <1>3, <1>4, <1>5

LEMMA IngressStep ==
    ASSUME IngressInv, [IngressNext]_ingressVars
    PROVE  IngressInv'
<1> USE DEF IngressInv, OpenIsJournaled
<1>0. IngressShape /\ IngressShape'
  BY IngressShapeKept
<1>a. \A r \in AnyJournal : /\ r # NoJournal <=> r.phase # "none" \/ r.print # "unknown"
                            /\ [r EXCEPT !.phase = "active"] # NoJournal
                            /\ [r EXCEPT !.phase = "stopping"] # NoJournal
                            /\ [r EXCEPT !.print = "ours"].phase = r.phase
  BY DEF AnyJournal, NoJournal
<1>b. call.journal \in AnyJournal /\ starting.journal \in AnyJournal /\ journal \in AnyJournal
  BY <1>0 DEF IngressShape
<1>1. CASE Prepare \/ WritePart
  <2>1. /\ call'.pc \in {"files", "idle"}
        /\ UNCHANGED <<setting, journal, table, unit, starting>>
    <3>1. CASE Prepare
      BY <3>1 DEF Prepare, NoCall
    <3>2. CASE WritePart
      BY <3>2 DEF WritePart, NoCall
    <3> QED
      BY <1>1, <3>1, <3>2
  <2> QED
    BY <1>0, <2>1
<1>2. CASE Activate
  BY <1>0, <1>2 DEF Activate, NoJournal, IngressShape
<1>3. CASE WriteIntent
  <2>1. journal' = [phase |-> "starting", print |-> "unknown"] /\ journal'.phase = "starting"
    BY <1>0, <1>3 DEF WriteIntent, IngressShape
  <2>2. journal' # NoJournal
    BY <2>1 DEF NoJournal
  <2>3. call'.pc = IF setting = "nft" THEN "table" ELSE "enable"
    BY <1>0, <1>3 DEF WriteIntent, IngressShape
  <2>4. call'.journal = journal'
    BY <1>0, <1>3 DEF WriteIntent, IngressShape
  <2>5. UNCHANGED <<setting, table, unit, starting>>
    BY <1>0, <1>3 DEF WriteIntent, IngressShape
  <2> QED
    BY <1>0, <2>1, <2>2, <2>3, <2>4, <2>5
<1>4. CASE AddTable
  <2>1. call'.pc = "print" /\ call'.journal.phase = call.journal.phase
    <3>1. /\ call'.pc = "print"
          /\ call'.journal = [call.journal EXCEPT !.print = "ours"]
      BY <1>0, <1>4 DEF AddTable, IngressShape
    <3> QED
      BY <1>a, <1>b, <3>1
  <2>2. UNCHANGED <<setting, journal, unit, starting>> /\ call.pc = "table"
    BY <1>4 DEF AddTable
  <2> QED
    BY <1>0, <2>1, <2>2
<1>5. CASE SavePrint
  <2>1. call'.pc = "enable" /\ call'.journal = call.journal
    BY <1>0, <1>5 DEF SavePrint, IngressShape
  <2>2. /\ journal' = call.journal /\ UNCHANGED <<setting, table, unit, starting>>
        /\ call.pc = "print"
    BY <1>0, <1>5 DEF SavePrint, IngressShape
  <2>3. journal' # NoJournal
    BY <2>2 DEF NoJournal
  <2> QED
    BY <1>0, <2>1, <2>2, <2>3
<1>6. CASE Enable
  <2>1. call'.pc = "await" /\ call'.journal = call.journal
    BY <1>0, <1>6 DEF Enable, IngressShape
  <2>2. /\ UNCHANGED <<setting, journal, table, starting>>
        /\ call.pc = "enable" /\ unit'.enabled = TRUE
    BY <1>0, <1>6 DEF Enable, IngressShape
  <2>3. unit' # Closed
    BY <2>2 DEF Closed
  <2> QED
    BY <1>0, <2>1, <2>2, <2>3
<1>7. CASE MarkActive
  <2>1. /\ call' = NoCall /\ UNCHANGED <<setting, table, unit, starting>>
        /\ journal' = [call.journal EXCEPT !.phase = "active"]
    BY <1>7 DEF MarkActive
  <2>2. journal' # NoJournal
    BY <1>a, <1>b, <2>1
  <2> QED
    BY <1>0, <2>1, <2>2 DEF NoCall
<1>8. CASE ActivateFails
  <2>1. call'.pc = "disable" /\ UNCHANGED <<setting, journal, table, unit, starting>>
    BY <1>0, <1>8 DEF ActivateFails, IngressShape
  <2> QED
    BY <1>0, <1>8, <2>1 DEF ActivateFails
<1>9. CASE Deactivate
  <2>1. /\ call'.pc = "disable" /\ UNCHANGED <<setting, table, unit, starting>>
        /\ journal' = [journal EXCEPT !.phase = "stopping"]
    BY <1>0, <1>9 DEF Deactivate, IngressShape
  <2>2. journal' # NoJournal
    BY <1>a, <1>b, <2>1
  <2> QED
    BY <1>0, <2>1, <2>2
<1>10. CASE Disable
  <2>1. /\ call'.pc = "drop" /\ UNCHANGED <<setting, journal, table>>
        /\ unit' = Closed /\ starting'.pc = "no" /\ call.pc = "disable"
    BY <1>0, <1>10 DEF Disable, NotStarting, IngressShape
  <2> QED
    BY <1>0, <2>1
<1>11. CASE DropTable
  <2>1. /\ call'.pc = "forget" /\ UNCHANGED <<setting, journal, unit, starting>>
        /\ call.pc = "drop" /\ table' = "absent"
    BY <1>0, <1>11 DEF DropTable, IngressShape
  <2> QED
    BY <1>0, <2>1
<1>12. CASE DropJournal
  <2>1. /\ call'.pc \in {"intent", "idle"} /\ UNCHANGED <<setting, table, unit, starting>>
        /\ call.pc = "forget"
    BY <1>0, <1>12 DEF DropJournal, NoCall, IngressShape
  <2> QED
    BY <1>0, <2>1
<1>13. CASE PreStart
  <2>1. /\ UNCHANGED <<setting, journal, table, unit, call>> /\ unit.enabled
    BY <1>13 DEF PreStart
  <2>2. unit # Closed
    BY <2>1 DEF Closed
  <2>3. \/ /\ starting'.pc = "ensure" /\ setting = "nft"
           /\ starting'.journal.phase \in {"starting", "active"}
        \/ starting'.pc = "serve"
    BY <1>13 DEF PreStart
  <2> QED
    BY <1>0, <2>1, <2>2, <2>3
<1>14. CASE Ensure
  <2>1. /\ starting.pc = "ensure" /\ starting'.pc = "save"
        /\ UNCHANGED <<setting, journal, unit, call>>
    BY <1>14 DEF Ensure
  <2>2. starting'.journal.phase = starting.journal.phase
    BY <1>14, <1>a, <1>b DEF Ensure
  <2> QED
    BY <1>0, <2>1, <2>2
<1>15. CASE EnsureSaves
  <2>1. /\ starting.pc = "save" /\ starting'.pc = "serve"
        /\ journal' = starting.journal /\ UNCHANGED <<setting, table, unit, call>>
    BY <1>0, <1>15 DEF EnsureSaves, IngressShape
  <2>2. journal' # NoJournal
    BY <2>1 DEF NoJournal
  <2> QED
    BY <1>0, <2>1, <2>2
<1>16. CASE ServiceStarts
  <2>1. /\ starting.pc = "serve" /\ starting'.pc = "no"
        /\ UNCHANGED <<setting, journal, table, call>> /\ unit'.active = TRUE
    BY <1>0, <1>16 DEF ServiceStarts, NotStarting, IngressShape
  <2>2. unit # Closed /\ unit'.enabled /\ unit' # Closed
    <3>1. unit'.enabled = unit.enabled
      BY <1>0, <1>16 DEF ServiceStarts, IngressShape
    <3> QED
      BY <2>1, <3>1 DEF Closed
  <2> QED
    BY <1>0, <2>1, <2>2
<1>17. CASE StartFails
  BY <1>0, <1>17 DEF StartFails, NotStarting
<1>18. CASE ServiceDies
  <2>1. /\ unit.active /\ unit' = [unit EXCEPT !.active = FALSE]
        /\ UNCHANGED <<setting, journal, table, call, starting>>
    BY <1>18 DEF ServiceDies
  <2>2. unit # Closed
    BY <2>1 DEF Closed
  <2>3. unit'.enabled /\ unit' # Closed
    <3>1. unit'.enabled = unit.enabled
      BY <1>0, <2>1 DEF IngressShape
    <3> QED
      BY <2>2, <3>1 DEF Closed
  <2> QED
    BY <1>0, <2>1, <2>2, <2>3
<1>19. CASE CertExpires \/ TableEdited
  BY <1>0, <1>19 DEF CertExpires, TableEdited
<1>20. CASE Killed
  BY <1>0, <1>20 DEF Killed, NoCall
<1>21. CASE Reboot
  <2>1. /\ unit' = [unit EXCEPT !.active = FALSE] /\ table' = "absent"
        /\ call'.pc = "idle" /\ starting'.pc = "no" /\ UNCHANGED <<setting, journal>>
    BY <1>21 DEF Reboot, NoCall, NotStarting
  <2>2. (unit = Closed => unit' = Closed) /\ (unit # Closed => unit'.enabled)
    <3>1. unit'.enabled = unit.enabled
      BY <1>0, <2>1 DEF IngressShape
    <3>2. ASSUME unit = Closed
          PROVE  unit' = Closed
      <4>1. unit'.active = FALSE /\ unit'.enabled = FALSE
        BY <1>0, <2>1, <3>1, <3>2 DEF IngressShape, Closed
      <4>2. unit' = [active |-> unit'.active, enabled |-> unit'.enabled]
        BY <1>0 DEF IngressShape
      <4> QED
        BY <4>1, <4>2 DEF Closed
    <3>3. unit # Closed => unit'.enabled
      BY <3>1
    <3> QED
      BY <3>2, <3>3
  <2>3. /\ IngressShape' /\ setting' \in {"nft", "none"} /\ OpenIsJournaled'
        /\ unit' # Closed => unit'.enabled
    BY <1>0, <2>1, <2>2
  <2> QED
    BY <2>1, <2>3
<1>22. CASE UNCHANGED ingressVars
  BY <1>0, <1>22 DEF ingressVars
<1> QED
  BY <1>1, <1>2, <1>3, <1>4, <1>5, <1>6, <1>7, <1>8, <1>9, <1>10, <1>11, <1>12, <1>13,
     <1>14, <1>15, <1>16, <1>17, <1>18, <1>19, <1>20, <1>21, <1>22 DEF IngressNext

\* Whatever is open has a durable journal that names it, after any crash,
\* reboot or overlapping pre-start (p6_ingress.py).
THEOREM OpenAlwaysJournaled == IngressSpec => []OpenIsJournaled
<1>1. IngressInit => IngressInv
  BY IngressInitially
<1>2. IngressInv /\ [IngressNext]_ingressVars => IngressInv'
  BY IngressStep
<1>3. IngressInv => OpenIsJournaled
  BY DEF IngressInv
<1> QED
  BY <1>1, <1>2, <1>3, PTL DEF IngressSpec

-----------------------------------------------------------------------------
(* The Windows installer.                                                  *)

Clearing == {"udelete", "utree", "umark", "uactive", "uprevious", "uclear"}
Undoing == {"rconfigure", "ractive", "rstart", "rclear"}
Carrying == {"configure", "previous", "active"}

InstallerShape ==
    /\ installed \subseteq Releases
    /\ state = [active |-> state.active, previous |-> state.previous, gone |-> state.gone]
    /\ upgrade = [old |-> upgrade.old, new |-> upgrade.new]
    /\ service = [command |-> service.command, running |-> service.running,
                  auto |-> service.auto]
    /\ op = [pc |-> op.pc, kind |-> op.kind, arg |-> op.arg, fresh |-> op.fresh]

\* What an operation has to rely on at each of its steps.
OperationOK ==
    /\ op.pc \in Clearing => uninstall # None
    /\ op.pc \in {"utree", "umark", "uactive", "uprevious", "uclear"} =>
         service.command = None
    /\ op.pc \in {"umark", "uactive", "uprevious", "uclear"} => installed = {}
    /\ op.pc \in {"uprevious", "uclear"} => state.active = None
    /\ op.pc = "uclear" => state.previous = None
    /\ op.pc \in Carrying => {upgrade.old, upgrade.new} \ {None} \subseteq installed
    /\ op.pc \in {"previous", "active"} => service.command = upgrade.new
    /\ op.pc \in {"start", "clear", "collect", "rstart", "rclear", "rprevious"} =>
         service.command = state.active
    /\ op.pc \in {"collect", "copy", "publish", "intent", "operate", "rprevious"} =>
         upgrade = NoIntent
    /\ op.pc = "intent" => op.arg \in installed
    /\ op.pc \in Undoing => upgrade.old \in installed
    /\ op.pc = "ractive" => service.command = upgrade.old
    /\ op.pc = "rprevious" /\ uninstall = None => {op.arg} \ {None} \subseteq installed
    /\ op.pc = "publish" => op.arg \in Releases
    /\ op.kind = "install" => op.arg \in Releases \cup {None}
    /\ op.kind = "install" /\ op.arg = None =>
         /\ op.pc \notin Clearing \cup {"recover", "copy", "publish", "intent"}
         /\ op.pc = "upgrade" => upgrade # NoIntent
    /\ op.pc \in {"copy", "publish", "intent"} => op.kind = "install"
    /\ op.pc \in Undoing \cup {"rollback", "rprevious"} => op.kind # "install"

\* An upgrade intent can be carried out, unless an uninstall took everything.
IntentOK ==
    uninstall = None /\ upgrade # NoIntent =>
        installed = {} \/ {upgrade.old, upgrade.new} \ {None} \subseteq installed

InstallerInv == InstallerShape /\ OperationOK /\ IntentOK /\ RetainedWhole

\* What the step of an operation does to its record.
LEMMA OperationMoves ==
    ASSUME InstallerShape
    PROVE  /\ \A pc : To(pc) => op' = [pc |-> pc, kind |-> op.kind, arg |-> op.arg,
                                      fresh |-> op.fresh]
           /\ Done => op'.pc = "idle" /\ op'.kind = "status" /\ op' = NoOperation
           /\ Stopped = [command |-> service.command, running |-> FALSE, auto |-> service.auto]
<1>1. ASSUME NEW pc, To(pc)
      PROVE  op' = [pc |-> pc, kind |-> op.kind, arg |-> op.arg, fresh |-> op.fresh]
  BY <1>1 DEF InstallerShape, To
<1>2. Done => op'.pc = "idle" /\ op'.kind = "status" /\ op' = NoOperation
  BY DEF Done, NoOperation
<1>3. Stopped = [command |-> service.command, running |-> FALSE, auto |-> service.auto]
  <2> DEFINE c == service.command
             r == service.running
             a == service.auto
  <2>1. service = [command |-> c, running |-> r, auto |-> a]
    BY DEF InstallerShape
  <2> HIDE DEF c, r, a
  <2>2. \A f : [service EXCEPT !.running = f] = [command |-> c, running |-> f, auto |-> a]
    BY <2>1
  <2>3. Stopped = [command |-> c, running |-> FALSE, auto |-> a]
    BY <2>2, Zenon DEF Stopped
  <2> QED
    BY <2>3 DEF c, a
<1> QED
  BY <1>1, <1>2, <1>3

LEMMA InstallerInitially ==
    ASSUME InstallerInit
    PROVE  InstallerInv
BY InstallerAssumption DEF InstallerInit, InstallerInv, InstallerShape, OperationOK, IntentOK,
   RetainedWhole, NoOperation, NoIntent, Clearing, Carrying, Undoing

LEMMA InstallerStep ==
    ASSUME InstallerInv, [InstallerNext]_installerVars
    PROVE  InstallerInv'
<1> USE DEF InstallerInv, OperationOK, IntentOK, RetainedWhole, Clearing, Carrying, Undoing
<1>0. InstallerShape /\ None \notin Releases
  BY InstallerAssumption
<1>1. CASE Recover
  <2>1. /\ op.pc = "recover"
        /\ op' = [pc |-> IF uninstall # None THEN "udelete" ELSE "upgrade", kind |-> op.kind,
                  arg |-> op.arg, fresh |-> op.fresh]
        /\ service' = service \/ service' = [command |-> service.command, running |-> FALSE,
                                         auto |-> service.auto]
        /\ UNCHANGED <<installed, state, upgrade, uninstall>>
    BY <1>0, <1>1, OperationMoves DEF Recover, InstallerShape
  <2> QED
    BY <1>0, <2>1 DEF InstallerShape, NoOperation, NoIntent
<1>2. CASE DeleteService
  <2>1. /\ op.pc = "udelete" /\ op' = [pc |-> "utree", kind |-> op.kind, arg |-> op.arg, fresh |-> op.fresh]
        /\ service' = [command |-> None, running |-> service.running, auto |-> service.auto]
        /\ UNCHANGED <<installed, state, upgrade, uninstall>>
    BY <1>0, <1>2, OperationMoves DEF DeleteService, InstallerShape
  <2> QED
    BY <1>0, <2>1 DEF InstallerShape, NoOperation, NoIntent
<1>3. CASE DropReleases
  <2>1. /\ op.pc = "utree" /\ installed = {}
        /\ op' = [pc |-> "umark", kind |-> op.kind, arg |-> op.arg, fresh |-> FALSE]
        /\ UNCHANGED <<installed, state, upgrade, uninstall, service>>
    BY <1>0, <1>3, OperationMoves DEF DropReleases, InstallerShape
  <2> QED
    BY <1>0, <2>1 DEF InstallerShape, NoOperation, NoIntent
<1>4. CASE MarkUninstalled
  <2>1. /\ op.pc = "umark" /\ op' = [pc |-> "uactive", kind |-> op.kind, arg |-> op.arg, fresh |-> op.fresh]
        /\ state' = [active |-> state.active, previous |-> state.previous, gone |-> TRUE]
        /\ UNCHANGED <<installed, upgrade, uninstall, service>>
    BY <1>0, <1>4, OperationMoves DEF MarkUninstalled, InstallerShape
  <2> QED
    BY <1>0, <2>1 DEF InstallerShape, NoOperation, NoIntent
<1>5. CASE DropActive
  <2>1. /\ op.pc = "uactive" /\ op' = [pc |-> "uprevious", kind |-> op.kind, arg |-> op.arg, fresh |-> op.fresh]
        /\ state' = [active |-> None, previous |-> state.previous, gone |-> state.gone]
        /\ UNCHANGED <<installed, upgrade, uninstall, service>>
    BY <1>0, <1>5, OperationMoves DEF DropActive, InstallerShape
  <2> QED
    BY <1>0, <2>1 DEF InstallerShape, NoOperation, NoIntent
<1>6. CASE DropPrevious
  <2>1. /\ op.pc = "uprevious" /\ op' = [pc |-> "uclear", kind |-> op.kind, arg |-> op.arg, fresh |-> op.fresh]
        /\ state' = [active |-> state.active, previous |-> None, gone |-> state.gone]
        /\ UNCHANGED <<installed, upgrade, uninstall, service>>
    BY <1>0, <1>6, OperationMoves DEF DropPrevious, InstallerShape
  <2> QED
    BY <1>0, <2>1 DEF InstallerShape, NoOperation, NoIntent
<1>7. CASE ClearUninstall
  <2>1. /\ op.pc = "uclear" /\ uninstall' = None
        /\ \/ op' = NoOperation
           \/ op' = [pc |-> "upgrade", kind |-> op.kind, arg |-> op.arg, fresh |-> op.fresh]
        /\ UNCHANGED <<installed, state, upgrade, service>>
    BY <1>0, <1>7, OperationMoves DEF ClearUninstall, InstallerShape
  <2> QED
    BY <1>0, <2>1 DEF InstallerShape, NoOperation, NoIntent
<1>8. CASE Upgrade
  <2>1. /\ op.pc = "upgrade"
        /\ \/ /\ upgrade = NoIntent /\ UNCHANGED service
              /\ op' = [pc |-> IF op.kind = "install" THEN "copy" ELSE "operate",
                       kind |-> op.kind, arg |-> op.arg, fresh |-> op.fresh]
           \/ /\ {upgrade.old, upgrade.new} \ {None} \subseteq installed
              /\ service' = [command |-> service.command, running |-> FALSE, auto |-> service.auto]
              /\ op' = [pc |-> "configure", kind |-> op.kind, arg |-> op.arg, fresh |-> op.fresh]
        /\ UNCHANGED <<installed, state, upgrade, uninstall>>
    BY <1>0, <1>8, OperationMoves DEF Upgrade, Resolvable, InstallerShape
  <2> QED
    BY <1>0, <2>1 DEF InstallerShape, NoOperation, NoIntent
<1>9. CASE Configure
  <2>1. /\ op.pc = "configure" /\ op' = [pc |-> "previous", kind |-> op.kind, arg |-> op.arg, fresh |-> op.fresh]
        /\ service' = [command |-> upgrade.new, running |-> FALSE, auto |-> service'.auto]
        /\ UNCHANGED <<installed, state, upgrade, uninstall>>
    BY <1>0, <1>9, OperationMoves DEF Configure, Configured, InstallerShape
  <2> QED
    BY <1>0, <2>1 DEF InstallerShape, NoOperation, NoIntent
<1>10. CASE SavePrevious
  <2>1. /\ op.pc = "previous" /\ op' = [pc |-> "active", kind |-> op.kind, arg |-> op.arg, fresh |-> op.fresh]
        /\ \/ UNCHANGED state
           \/ /\ upgrade.old # None
              /\ state' = [active |-> state.active, previous |-> upgrade.old, gone |-> state.gone]
        /\ UNCHANGED <<installed, upgrade, uninstall, service>>
    BY <1>0, <1>10, OperationMoves DEF SavePrevious, InstallerShape
  <2> QED
    BY <1>0, <2>1 DEF InstallerShape, NoOperation, NoIntent
<1>11. CASE SaveActive
  <2>1. /\ op.pc = "active" /\ op' = [pc |-> "start", kind |-> op.kind, arg |-> op.arg, fresh |-> op.fresh]
        /\ state' = [active |-> upgrade.new, previous |-> state.previous, gone |-> state.gone]
        /\ UNCHANGED <<installed, upgrade, uninstall, service>>
    BY <1>0, <1>11, OperationMoves DEF SaveActive, InstallerShape
  <2> QED
    BY <1>0, <2>1 DEF InstallerShape, NoOperation, NoIntent
<1>12. CASE StartNew
  <2>1. /\ op.pc = "start" /\ op' = [pc |-> "clear", kind |-> op.kind, arg |-> op.arg, fresh |-> op.fresh]
        /\ service' = [command |-> service.command, running |-> TRUE, auto |-> service.auto]
        /\ UNCHANGED <<installed, state, upgrade, uninstall>>
    BY <1>0, <1>12, OperationMoves DEF StartNew, InstallerShape
  <2> QED
    BY <1>0, <2>1 DEF InstallerShape, NoOperation, NoIntent
<1>13. CASE ClearUpgrade
  <2>1. /\ op.pc = "clear" /\ op' = [pc |-> "collect", kind |-> op.kind, arg |-> op.arg, fresh |-> op.fresh]
        /\ upgrade' = NoIntent
        /\ UNCHANGED <<installed, state, uninstall, service>>
    BY <1>0, <1>13, OperationMoves DEF ClearUpgrade, InstallerShape
  <2> QED
    BY <1>0, <2>1 DEF InstallerShape, NoOperation, NoIntent
<1>14. CASE Collected
  <2>1. /\ op.pc = "collect"
        /\ \/ op' = NoOperation
           \/ /\ op.kind = "install" => op.arg # None
              /\ op' = [pc |-> IF op.kind = "install" THEN "copy" ELSE "operate", kind |-> op.kind,
                        arg |-> op.arg, fresh |-> op.fresh]
        /\ UNCHANGED <<installed, state, upgrade, uninstall, service>>
    BY <1>0, <1>14, OperationMoves DEF Collected, InstallerShape
  <2> QED
    BY <1>0, <2>1 DEF InstallerShape, NoOperation, NoIntent
<1>15. CASE Stage
  <2>1. /\ op.pc = "copy" /\ op' = [pc |-> "publish", kind |-> op.kind, arg |-> op.arg, fresh |-> op.fresh]
        /\ UNCHANGED <<installed, state, upgrade, uninstall, service>>
    BY <1>0, <1>15, OperationMoves DEF Stage, InstallerShape
  <2> QED
    BY <1>0, <2>1 DEF InstallerShape, NoOperation, NoIntent
<1>16. CASE PublishTree
  <2>1. /\ op.pc = "publish" /\ op' = [pc |-> "intent", kind |-> op.kind, arg |-> op.arg, fresh |-> op.fresh]
        /\ installed' = installed \cup {op.arg}
        /\ UNCHANGED <<state, upgrade, uninstall, service>>
    BY <1>0, <1>16, OperationMoves DEF PublishTree, InstallerShape
  <2> QED
    BY <1>0, <2>1 DEF InstallerShape, NoOperation, NoIntent
<1>17. CASE Reuse
  <2>1. /\ op.pc = "copy" /\ op' = [pc |-> "intent", kind |-> op.kind, arg |-> op.arg, fresh |-> op.fresh]
        /\ op.arg \in installed
        /\ UNCHANGED <<installed, state, upgrade, uninstall, service>>
    BY <1>0, <1>17, OperationMoves DEF Reuse, InstallerShape
  <2> QED
    BY <1>0, <2>1 DEF InstallerShape, NoOperation, NoIntent
<1>18. CASE WriteUpgrade
  <2>1. /\ op.pc = "intent"
        /\ upgrade' = [old |-> state.active, new |-> op.arg]
        /\ op' = [pc |-> "upgrade", kind |-> op.kind, arg |-> None, fresh |-> op.fresh]
        /\ UNCHANGED <<installed, state, uninstall, service>>
    BY <1>0, <1>18, OperationMoves DEF WriteUpgrade, InstallerShape
  <2> QED
    BY <1>0, <2>1 DEF InstallerShape, NoOperation, NoIntent
<1>19. CASE RollbackSwap
  <2>1. /\ op.pc = "rollback" /\ op' = [pc |-> "recover", kind |-> op.kind, arg |-> op.arg, fresh |-> op.fresh]
        /\ state.previous \in installed /\ state.active \in installed
        /\ upgrade' = [old |-> state.active, new |-> state.previous]
        /\ UNCHANGED <<installed, state, uninstall, service>>
    BY <1>0, <1>19, OperationMoves DEF RollbackSwap, InstallerShape
  <2> QED
    BY <1>0, <2>1 DEF InstallerShape, NoOperation, NoIntent
<1>20. CASE RollbackUndo
  <2>1. /\ op.pc = "rollback" /\ op' = [pc |-> "rconfigure", kind |-> op.kind, arg |-> op.arg, fresh |-> op.fresh]
        /\ upgrade.old \in installed
        /\ service' = [command |-> service.command, running |-> FALSE, auto |-> service.auto]
        /\ UNCHANGED <<installed, state, upgrade, uninstall>>
    BY <1>0, <1>20, OperationMoves DEF RollbackUndo, InstallerShape
  <2> QED
    BY <1>0, <2>1 DEF InstallerShape, NoOperation, NoIntent
<1>21. CASE RollbackConfigure
  <2>1. /\ op.pc = "rconfigure" /\ op' = [pc |-> "ractive", kind |-> op.kind, arg |-> op.arg, fresh |-> op.fresh]
        /\ service' = [command |-> upgrade.old, running |-> FALSE, auto |-> service'.auto]
        /\ UNCHANGED <<installed, state, upgrade, uninstall>>
    BY <1>0, <1>21, OperationMoves DEF RollbackConfigure, Configured, InstallerShape
  <2> QED
    BY <1>0, <2>1 DEF InstallerShape, NoOperation, NoIntent
<1>22. CASE RollbackActive
  <2>1. /\ op.pc = "ractive" /\ op' = [pc |-> "rstart", kind |-> op.kind, arg |-> op.arg, fresh |-> op.fresh]
        /\ state' = [active |-> upgrade.old, previous |-> state.previous, gone |-> state.gone]
        /\ UNCHANGED <<installed, upgrade, uninstall, service>>
    BY <1>0, <1>22, OperationMoves DEF RollbackActive, InstallerShape
  <2> QED
    BY <1>0, <2>1 DEF InstallerShape, NoOperation, NoIntent
<1>23. CASE RollbackStart
  <2>1. /\ op.pc = "rstart" /\ op' = [pc |-> "rclear", kind |-> op.kind, arg |-> op.arg, fresh |-> op.fresh]
        /\ service' = [command |-> service.command, running |-> TRUE, auto |-> service.auto]
        /\ UNCHANGED <<installed, state, upgrade, uninstall>>
    BY <1>0, <1>23, OperationMoves DEF RollbackStart, InstallerShape
  <2> QED
    BY <1>0, <2>1 DEF InstallerShape, NoOperation, NoIntent
<1>24. CASE RollbackClear
  <2>1. /\ op.pc = "rclear" /\ upgrade' = NoIntent
        /\ op' = [pc |-> "rprevious", kind |-> op.kind, arg |-> upgrade.new, fresh |-> op.fresh]
        /\ UNCHANGED <<installed, state, uninstall, service>>
    BY <1>0, <1>24, OperationMoves DEF RollbackClear, InstallerShape
  <2>2. uninstall = None => {upgrade.new} \ {None} \subseteq installed
    <3>1. upgrade.old # None /\ installed # {}
      BY <1>0, <2>1 DEF InstallerShape
    <3>2. upgrade # NoIntent
      BY <3>1 DEF NoIntent
    <3> QED
      BY <3>1, <3>2
  <2>3. InstallerShape' /\ op'.pc = "rprevious" /\ op'.kind = op.kind /\ op'.arg = upgrade.new
    BY <1>0, <2>1 DEF InstallerShape, NoIntent
  <2>4. OperationOK'
    BY <2>1, <2>2, <2>3
  <2>5. IntentOK' /\ RetainedWhole'
    BY <2>1
  <2> QED
    BY <2>3, <2>4, <2>5
<1>25. CASE RollbackPrevious
  <2>1. /\ op.pc = "rprevious"
        /\ state' = [active |-> state.active, previous |-> op.arg, gone |-> state.gone]
        /\ op' = [pc |-> "collect", kind |-> op.kind, arg |-> None, fresh |-> op.fresh]
        /\ UNCHANGED <<installed, upgrade, uninstall, service>>
    BY <1>0, <1>25, OperationMoves DEF RollbackPrevious, InstallerShape
  <2> QED
    BY <1>0, <2>1 DEF InstallerShape, NoOperation, NoIntent
<1>26. CASE OperateBare \/ EndOp
  <2>1. /\ op' = NoOperation
        /\ UNCHANGED <<installed, state, upgrade, uninstall, service>>
    BY <1>0, <1>26, OperationMoves DEF OperateBare, EndOp, InstallerShape
  <2> QED
    BY <1>0, <2>1 DEF InstallerShape, NoOperation, NoIntent
<1>27. CASE Operate
  <2>1. /\ op.pc = "operate" /\ state.active \in installed /\ UNCHANGED <<installed, state, upgrade>>
        /\ \/ op' = NoOperation /\ UNCHANGED <<service, uninstall>>
           \/ /\ uninstall' = state.active /\ UNCHANGED service
              /\ op.kind = "uninstall"
              /\ op' = [pc |-> "recover", kind |-> op.kind, arg |-> state.active, fresh |-> op.fresh]
           \/ /\ UNCHANGED uninstall
              /\ service' = [command |-> service.command, running |-> FALSE, auto |-> service.auto]
              /\ op' = [pc |-> "apply", kind |-> op.kind, arg |-> op.arg, fresh |-> op.fresh]
    BY <1>0, <1>27, OperationMoves DEF Operate, InstallerShape
  <2> QED
    BY <1>0, <2>1 DEF InstallerShape, NoOperation, NoIntent
<1>28. CASE Apply
  <2>1. /\ op.pc = "apply"
        /\ \/ UNCHANGED op
           \/ op' = [pc |-> "restart", kind |-> op.kind, arg |-> op.arg, fresh |-> op.fresh]
        /\ UNCHANGED <<installed, state, upgrade, uninstall, service>>
    BY <1>0, <1>28, OperationMoves DEF Apply, InstallerShape
  <2> QED
    BY <1>0, <2>1 DEF InstallerShape, NoOperation, NoIntent
<1>29. CASE RestartService
  <2>1. /\ op' = NoOperation
        /\ service' = [command |-> service.command, running |-> TRUE, auto |-> service.auto]
        /\ UNCHANGED <<installed, state, upgrade, uninstall>>
    BY <1>0, <1>29, OperationMoves DEF RestartService, InstallerShape
  <2> QED
    BY <1>0, <2>1 DEF InstallerShape, NoOperation, NoIntent
<1>30. ASSUME NEW r \in Releases, StartOp("install", r) \/ DropRelease(r) \/ CollectRelease(r)
      PROVE  InstallerInv'
  <2>1. CASE StartOp("install", r)
    BY <1>0, <1>30, <2>1 DEF StartOp, InstallerShape
  <2>2. CASE DropRelease(r)
    BY <1>0, <2>2 DEF DropRelease, InstallerShape
  <2>3. CASE CollectRelease(r)
    BY <1>0, <2>3 DEF CollectRelease, Kept, InstallerShape
  <2> QED
    BY <1>30, <2>1, <2>2, <2>3
<1>31. ASSUME NEW kind \in AdminOperations \ {"install"}, NEW arg, StartOp(kind, arg)
      PROVE  InstallerInv'
  BY <1>0, <1>31 DEF StartOp, InstallerShape
<1>32. ASSUME NEW enabled \in BOOLEAN, SetAutostart(enabled)
      PROVE  InstallerInv'
  <2>1. /\ service' = [command |-> service.command, running |-> service.running, auto |-> enabled]
        /\ UNCHANGED <<installed, state, upgrade, uninstall, op>>
    BY <1>0, <1>32 DEF SetAutostart, InstallerShape
  <2> QED
    BY <1>0, <2>1 DEF InstallerShape
<1>33. CASE UNCHANGED installerVars
  BY <1>0, <1>33 DEF installerVars, InstallerShape
<1> HIDE DEF InstallerInv, OperationOK, IntentOK, RetainedWhole
<1> QED
  BY <1>1, <1>2, <1>3, <1>4, <1>5, <1>6, <1>7, <1>8, <1>9, <1>10, <1>11, <1>12, <1>13, <1>14, <1>15, <1>16, <1>17, <1>18, <1>19, <1>20, <1>21, <1>22, <1>23, <1>24, <1>25, <1>26, <1>27, <1>28, <1>29, <1>30, <1>31, <1>32, <1>33
     DEF InstallerNext, AdminOperations

\* No crash, failed start, rollback or collection takes away the files of the
\* release the service runs, of the active one or of the one rollback would
\* return to (windows/p6installer/manager.py).
THEOREM ReleasesRetained == InstallerSpec => []RetainedWhole
<1>1. InstallerInit => InstallerInv
  BY InstallerInitially
<1>2. InstallerInv /\ [InstallerNext]_installerVars => InstallerInv'
  BY InstallerStep
<1>3. InstallerInv => RetainedWhole
  BY DEF InstallerInv
<1> QED
  BY <1>1, <1>2, <1>3, PTL DEF InstallerSpec

-----------------------------------------------------------------------------
(* Enrolment and revocation.                                               *)

\* An identity is the position of its record, a key has one record, and a
\* tombstone stays one.
LedgerOK(records) ==
    /\ records \in Seq(Record) /\ Len(records) <= MaxRecords
    /\ \A i \in 1 .. Len(records) :
         /\ records[i].id = i
         /\ records[i].verified = "revoked" => records[i].desired = "revoked"
         /\ \A j \in 1 .. Len(records) : records[i].key = records[j].key => i = j

LockedOut(records, published, committing) ==
    \A i \in 1 .. Len(records) :
        records[i].verified = "revoked" =>
            i \notin published /\ \A t \in Ingests : committing[t] # i

\* The worker works on the ledger as it is; past the gate no ingest of a
\* device that is not active is under way, and past the registry none can begin.
WorkerOK(w, records, published, committing) ==
    /\ w = [pc |-> w.pc, op |-> w.op, records |-> w.records, chosen |-> w.chosen]
    /\ w.pc # "idle" => w.records = records
    /\ w.pc = "keys" => \A t \in Ingests : committing[t] = NoIdentity
    /\ w.pc \in {"confirm", "drop"} =>
         /\ published \subseteq Active(records)
         /\ \A t \in Ingests : committing[t] # NoIdentity => committing[t] \in Active(records)

\* Every answer names the record of its key.
AnswersOK(records, answers) ==
    \A a \in answers : \E i \in 1 .. Len(records) : a = <<records[i].key, i>>

ProvisionInv ==
    /\ LedgerOK(ledger) /\ issued = Len(ledger)
    /\ keyFiles \cup rows \subseteq 1 .. Len(ledger)
    /\ ingest = [t \in Ingests |-> ingest[t]]
    /\ WorkerOK(worker, ledger, rows, ingest)
    /\ AnswersOK(ledger, replied)
    /\ LockedOut(ledger, rows, ingest)

\* A function over 1 .. n is a sequence of length n.
LEMMA FunctionIsSequence ==
    ASSUME NEW S, NEW n \in Nat, NEW f \in [1 .. n -> S]
    PROVE  f \in Seq(S) /\ Len(f) = n /\ DOMAIN f = 1 .. n
OBVIOUS

\* The ledger read by position.
LEMMA LedgerFacts ==
    ASSUME NEW records, LedgerOK(records)
    PROVE  /\ Len(records) \in Nat /\ DOMAIN records = 1 .. Len(records)
           /\ \A i \in 1 .. Len(records) : records[i] \in Record
           /\ IdsOf(records) = 1 .. Len(records)
           /\ Active(records) = {i \in 1 .. Len(records) : records[i].desired = "active"}
<1>1. /\ Len(records) \in Nat /\ DOMAIN records = 1 .. Len(records)
      /\ \A i \in 1 .. Len(records) : records[i] \in Record /\ records[i].id = i
  BY DEF LedgerOK
<1>2. IdsOf(records) = 1 .. Len(records)
  BY <1>1 DEF IdsOf
<1>3. ASSUME NEW i
      PROVE  i \in Active(records) <=> i \in 1 .. Len(records) /\ records[i].desired = "active"
  <2>1. i \in 1 .. Len(records) => i \in Identities
    BY <1>1, ProvisionAssumption DEF Identities, LedgerOK
  <2>2. Range(records) = {records[k] : k \in 1 .. Len(records)}
    BY <1>1 DEF Range
  <2> QED
    BY <1>1, <2>1, <2>2 DEF Active, IsActive
<1> QED
  BY <1>1, <1>2, <1>3

\* Records may be marked; who they are and which key they have stays.
LEMMA MarkingKeepsLedger ==
    ASSUME NEW old, LedgerOK(old), NEW new \in [DOMAIN old -> Record],
           \A i \in DOMAIN old : /\ new[i].id = old[i].id /\ new[i].key = old[i].key
                                 /\ new[i].verified = "revoked" => new[i].desired = "revoked"
    PROVE  LedgerOK(new) /\ Len(new) = Len(old)
<1>1. Len(old) \in Nat /\ DOMAIN old = 1 .. Len(old)
  BY LedgerFacts
<1>2. new \in Seq(Record) /\ Len(new) = Len(old)
  BY <1>1, FunctionIsSequence
<1> QED
  BY <1>1, <1>2 DEF LedgerOK

LEMMA ProvisionInitially ==
    ASSUME ProvisionInit
    PROVE  ProvisionInv
<1>1. ledger = <<>> /\ Len(ledger) = 0 /\ ledger \in Seq(Record)
  BY DEF ProvisionInit
<1>2. LedgerOK(ledger) /\ LockedOut(ledger, rows, ingest)
  BY <1>1, ProvisionAssumption DEF LedgerOK, LockedOut
<1>3. WorkerOK(worker, ledger, rows, ingest)
  BY DEF ProvisionInit, WorkerOK, NoWorker
<1> QED
  BY <1>1, <1>2, <1>3 DEF ProvisionInit, ProvisionInv, AnswersOK

\* What the invariant gives to every step.
LEMMA ProvisionFacts ==
    ASSUME ProvisionInv
    PROVE  /\ LedgerOK(ledger) /\ issued = Len(ledger) /\ Len(ledger) \in Nat
           /\ DOMAIN ledger = 1 .. Len(ledger)
           /\ Active(ledger) = {i \in 1 .. Len(ledger) : ledger[i].desired = "active"}
           /\ \A i \in 1 .. Len(ledger) : ledger[i] \in Record /\ ledger[i].id = i
           /\ 0 \notin 1 .. Len(ledger)
BY LedgerFacts DEF ProvisionInv, LedgerOK

\* A step of the worker that leaves the ledger alone.
LEMMA LedgerStands ==
    ASSUME ProvisionInv, UNCHANGED <<ledger, issued>>,
           keyFiles' \cup rows' \subseteq 1 .. Len(ledger),
           ingest' = [t \in Ingests |-> ingest'[t]],
           WorkerOK(worker', ledger, rows', ingest'),
           AnswersOK(ledger, replied'),
           LockedOut(ledger, rows', ingest')
    PROVE  ProvisionInv'
BY DEF ProvisionInv

LEMMA EnrolKeeps ==
    ASSUME ProvisionInv, NEW k \in IdempotencyKeys, NEW s \in Slots, Enroll(k, s)
    PROVE  ProvisionInv'
<1> USE ProvisionFacts
<1>1. CASE Replayed(k, s)
  <2>1. /\ worker'.pc = "publish" /\ worker'.records = ledger
        /\ worker' = [pc |-> worker'.pc, op |-> worker'.op, records |-> worker'.records,
                      chosen |-> worker'.chosen]
    BY <1>1 DEF Replayed
  <2>2. UNCHANGED <<ledger, issued, keyFiles, rows, ingest, replied>>
    BY <1>1 DEF Replayed, Enroll
  <2>3. WorkerOK(worker', ledger, rows', ingest')
    BY <2>1 DEF WorkerOK
  <2> QED
    BY <2>2, <2>3, LedgerStands DEF ProvisionInv
<1>2. CASE Intent(k, s)
  <2> DEFINE new == [id |-> issued + 1, key |-> k, slot |-> s,
                     desired |-> "active", verified |-> "pending"]
             n == Len(ledger)
  <2>1. /\ \A i \in 1 .. n : ledger[i].key # k
        /\ n < MaxRecords /\ issued' = n + 1 /\ ledger' = Append(ledger, new)
        /\ worker'.pc = "publish" /\ worker'.records = ledger'
        /\ worker' = [pc |-> worker'.pc, op |-> worker'.op, records |-> worker'.records,
                      chosen |-> worker'.chosen]
        /\ UNCHANGED <<keyFiles, rows, ingest, replied>>
    BY <1>2 DEF Intent, Enroll, HasRoom
  <2>2. new \in Record /\ new.id = n + 1 /\ new.key = k /\ new.verified = "pending"
    BY <2>1, ProvisionAssumption DEF Record, Identities
  <2> HIDE DEF new
  <2>3. /\ ledger' \in Seq(Record) /\ Len(ledger') = n + 1 /\ ledger'[n + 1] = new
        /\ \A i \in 1 .. n : ledger'[i] = ledger[i]
    BY <2>1, <2>2 DEF LedgerOK
  <2>4. LedgerOK(ledger')
    <3>1. \A i \in 1 .. Len(ledger') : i \in 1 .. n \/ i = n + 1
      BY <2>3
    <3>2. ASSUME NEW i \in 1 .. Len(ledger')
          PROVE  /\ ledger'[i].id = i
                 /\ ledger'[i].verified = "revoked" => ledger'[i].desired = "revoked"
      BY <2>2, <2>3, <3>1 DEF LedgerOK
    <3>3. ASSUME NEW i \in 1 .. Len(ledger'), NEW j \in 1 .. Len(ledger'),
                 ledger'[i].key = ledger'[j].key
          PROVE  i = j
      BY <2>1, <2>2, <2>3, <3>1, <3>3 DEF LedgerOK
    <3> QED
      BY <2>1, <2>3, <3>2, <3>3, ProvisionAssumption DEF LedgerOK
  <2>5. WorkerOK(worker', ledger', rows', ingest')
    BY <2>1 DEF WorkerOK
  <2>6. AnswersOK(ledger', replied')
    BY <2>1, <2>3 DEF AnswersOK, ProvisionInv
  <2>7. LockedOut(ledger', rows', ingest')
    <3>1. \A i \in 1 .. Len(ledger') : ledger'[i].verified = "revoked" =>
             i \in 1 .. n /\ ledger'[i] = ledger[i]
      BY <2>2, <2>3
    <3> QED
      BY <2>1, <3>1 DEF LockedOut, ProvisionInv
  <2>8. keyFiles' \cup rows' \subseteq 1 .. Len(ledger')
    BY <2>1, <2>3 DEF ProvisionInv
  <2> QED
    BY <2>1, <2>3, <2>4, <2>5, <2>6, <2>7, <2>8 DEF ProvisionInv
<1> QED
  BY <1>1, <1>2 DEF Enroll

LEMMA RevokeKeeps ==
    ASSUME ProvisionInv, NEW slots, Revoke(slots)
    PROVE  ProvisionInv'
<1> USE ProvisionFacts
<1>1. PICK chosen : ledger' = [i \in DOMAIN ledger |->
            IF ledger[i].id \in chosen /\ ledger[i].desired # "revoked"
            THEN [ledger[i] EXCEPT !.desired = "revoked", !.verified = "pending"]
            ELSE ledger[i]]
  BY DEF Revoke
<1>2. /\ worker'.pc = "publish" /\ worker'.records = ledger'
      /\ worker' = [pc |-> worker'.pc, op |-> worker'.op, records |-> worker'.records,
                    chosen |-> worker'.chosen]
      /\ UNCHANGED <<issued, keyFiles, rows, ingest, replied>>
  BY DEF Revoke
<1>3. ASSUME NEW i \in 1 .. Len(ledger)
      PROVE  /\ ledger'[i] \in Record /\ ledger'[i].id = ledger[i].id
             /\ ledger'[i].key = ledger[i].key
             /\ ledger'[i].verified = "revoked" =>
                  ledger'[i].desired = "revoked" /\ ledger[i].verified = "revoked"
  <2>1. CASE ledger'[i] = ledger[i]
    BY <2>1 DEF LedgerOK
  <2>2. CASE ledger'[i] = [ledger[i] EXCEPT !.desired = "revoked", !.verified = "pending"]
    <3> DEFINE r == ledger[i]
    <3>1. r \in Record
      OBVIOUS
    <3> HIDE DEF r
    <3> DEFINE q == [r EXCEPT !.desired = "revoked", !.verified = "pending"]
    <3>2. q \in Record /\ q.id = r.id /\ q.key = r.key /\ q.verified = "pending"
      BY <3>1 DEF Record
    <3>3. ledger'[i] = q
      BY <2>2 DEF r
    <3> HIDE DEF q
    <3> QED
      BY <3>2, <3>3 DEF r
  <2> QED
    BY <1>1, <2>1, <2>2
<1>4. ledger' \in [DOMAIN ledger -> Record]
  BY <1>1, <1>3
<1>5. LedgerOK(ledger') /\ Len(ledger') = Len(ledger)
  BY <1>3, <1>4, MarkingKeepsLedger
<1>6. LockedOut(ledger', rows', ingest')
  BY <1>2, <1>3, <1>5 DEF LockedOut, ProvisionInv
<1>7. AnswersOK(ledger', replied')
  BY <1>2, <1>3, <1>5 DEF AnswersOK, ProvisionInv
<1>8. WorkerOK(worker', ledger', rows', ingest')
  BY <1>2 DEF WorkerOK
<1> QED
  BY <1>2, <1>5, <1>6, <1>7, <1>8 DEF ProvisionInv

LEMMA ConfirmKeeps ==
    ASSUME ProvisionInv, NEW batch, ConfirmDevices(batch)
    PROVE  ProvisionInv'
<1> USE ProvisionFacts
<1>0. worker.pc = "confirm" /\ worker.records = ledger
  BY DEF ConfirmDevices, ProvisionInv, WorkerOK
<1>1. ledger' = [i \in DOMAIN ledger |->
            IF ledger[i].id \in batch
            THEN [ledger[i] EXCEPT !.verified = ledger[i].desired]
            ELSE ledger[i]]
  BY <1>0 DEF ConfirmDevices
<1>2. /\ worker'.pc = "drop" /\ worker'.records = ledger'
      /\ worker' = [pc |-> worker'.pc, op |-> worker'.op, records |-> worker'.records,
                    chosen |-> worker'.chosen]
      /\ UNCHANGED <<issued, keyFiles, rows, ingest, replied>>
  <2>1. worker' = [worker EXCEPT !.pc = "drop", !.records = ledger', !.chosen = batch]
    BY <1>0 DEF ConfirmDevices
  <2>2. worker = [pc |-> worker.pc, op |-> worker.op, records |-> worker.records,
                  chosen |-> worker.chosen]
    BY DEF ProvisionInv, WorkerOK
  <2>3. worker' = [pc |-> "drop", op |-> worker.op, records |-> ledger', chosen |-> batch]
    BY <2>1, <2>2
  <2> QED
    BY <2>3 DEF ConfirmDevices
<1>3. ASSUME NEW i \in 1 .. Len(ledger)
      PROVE  /\ ledger'[i] \in Record /\ ledger'[i].id = ledger[i].id
             /\ ledger'[i].key = ledger[i].key /\ ledger'[i].desired = ledger[i].desired
             /\ ledger'[i].verified = "revoked" => ledger'[i].desired = "revoked"
  <2>1. CASE ledger'[i] = ledger[i]
    BY <2>1 DEF LedgerOK
  <2>2. CASE ledger'[i] = [ledger[i] EXCEPT !.verified = ledger[i].desired]
    BY <2>2 DEF Record
  <2> QED
    BY <1>1, <2>1, <2>2
<1>4. ledger' \in [DOMAIN ledger -> Record]
  BY <1>1, <1>3
<1>5. LedgerOK(ledger') /\ Len(ledger') = Len(ledger)
  BY <1>3, <1>4, MarkingKeepsLedger
<1>6. Active(ledger') = Active(ledger)
  <2>1. Active(ledger') = {i \in 1 .. Len(ledger') : ledger'[i].desired = "active"}
    BY <1>5, LedgerFacts
  <2> QED
    BY <1>3, <1>5, <2>1
<1>7. LockedOut(ledger', rows', ingest')
  <2>1. /\ rows \subseteq Active(ledger)
        /\ \A t \in Ingests : ingest[t] # NoIdentity => ingest[t] \in Active(ledger)
    BY <1>0 DEF ProvisionInv, WorkerOK
  <2>2. \A i \in 1 .. Len(ledger) : ledger'[i].verified = "revoked" => i \notin Active(ledger)
    BY <1>3
  <2> QED
    BY <1>2, <1>5, <2>1, <2>2 DEF LockedOut, NoIdentity
<1>8. AnswersOK(ledger', replied')
  BY <1>2, <1>3, <1>5 DEF AnswersOK, ProvisionInv
<1>9. WorkerOK(worker', ledger', rows', ingest')
  BY <1>0, <1>2, <1>6 DEF WorkerOK, ProvisionInv
<1> QED
  BY <1>2, <1>5, <1>7, <1>8, <1>9 DEF ProvisionInv

LEMMA ProvisionStep ==
    ASSUME ProvisionInv, [ProvisionNext]_provisionVars
    PROVE  ProvisionInv'
<1> USE ProvisionFacts
<1>0. /\ LockedOut(ledger, rows, ingest) /\ AnswersOK(ledger, replied)
      /\ WorkerOK(worker, ledger, rows, ingest)
      /\ keyFiles \cup rows \subseteq 1 .. Len(ledger)
      /\ ingest = [t \in Ingests |-> ingest[t]]
  BY DEF ProvisionInv
<1>1. ASSUME NEW s \in Slots, Resume(s)
      PROVE  ProvisionInv'
  <2>1. /\ worker'.pc = "publish" /\ worker'.records = ledger
        /\ worker' = [pc |-> worker'.pc, op |-> worker'.op, records |-> worker'.records,
                      chosen |-> worker'.chosen]
    BY <1>1 DEF Resume
  <2>2. UNCHANGED <<ledger, issued, keyFiles, rows, ingest, replied>>
    BY <1>1 DEF Resume
  <2>3. WorkerOK(worker', ledger, rows', ingest')
    BY <2>1 DEF WorkerOK
  <2> QED
    BY <1>0, <2>2, <2>3, LedgerStands
<1>2. CASE Gate
  <2>1. worker' = [pc |-> "keys", op |-> worker.op, records |-> worker.records,
                   chosen |-> worker.chosen]
    BY <1>0, <1>2 DEF Gate, WorkerOK
  <2>2. /\ UNCHANGED <<ledger, issued, keyFiles, rows, ingest, replied>>
        /\ worker.pc = "publish" /\ \A t \in Ingests : ingest[t] = NoIdentity
    BY <1>2 DEF Gate
  <2>3. WorkerOK(worker', ledger, rows', ingest')
    BY <1>0, <2>1, <2>2 DEF WorkerOK
  <2> QED
    BY <1>0, <2>2, <2>3, LedgerStands
<1>3. CASE WriteRegistry
  <2>1. worker' = [pc |-> "confirm", op |-> worker.op, records |-> worker.records,
                   chosen |-> worker.chosen]
    BY <1>0, <1>3 DEF WriteRegistry, WorkerOK
  <2>2. /\ UNCHANGED <<ledger, issued, keyFiles, ingest, replied>>
        /\ worker.pc = "keys" /\ rows' = Active(ledger)
        /\ \A t \in Ingests : ingest[t] = NoIdentity
    BY <1>0, <1>3 DEF WriteRegistry, WorkerOK
  <2>3. WorkerOK(worker', ledger, rows', ingest')
    BY <1>0, <2>1, <2>2 DEF WorkerOK
  <2>4. LockedOut(ledger, rows', ingest')
    BY <2>2 DEF LockedOut, LedgerOK, NoIdentity
  <2> QED
    BY <1>0, <2>2, <2>3, <2>4, LedgerStands
<1>4. CASE AnswerDevice
  <2>1. /\ UNCHANGED <<ledger, issued, keyFiles, rows, ingest>>
        /\ worker.pc = "drop" /\ worker' = NoWorker /\ worker.records = ledger
    BY <1>0, <1>4 DEF AnswerDevice, WorkerOK
  <2>2. WorkerOK(worker', ledger, rows', ingest')
    BY <2>1 DEF WorkerOK, NoWorker
  <2>3. ASSUME NEW a \in replied'
        PROVE  a \in replied \/ \E i \in 1 .. Len(ledger) : a = <<ledger[i].key, ledger[i].id>>
    BY <1>4, <2>1 DEF AnswerDevice
  <2>4. AnswersOK(ledger, replied')
    BY <1>0, <2>3 DEF AnswersOK
  <2> QED
    BY <1>0, <2>1, <2>2, <2>4, LedgerStands
<1>5. CASE Abandon
  <2>1. /\ UNCHANGED <<ledger, issued, keyFiles, rows, ingest, replied>>
        /\ worker' = NoWorker
    BY <1>5 DEF Abandon
  <2>2. WorkerOK(worker', ledger, rows', ingest')
    BY <2>1 DEF WorkerOK, NoWorker
  <2> QED
    BY <1>0, <2>1, <2>2, LedgerStands
<1>6. CASE OperatorRow
  BY <1>0, <1>6, LedgerStands DEF OperatorRow
<1>7. ASSUME NEW id \in Identities, WriteKey(id)
      PROVE  ProvisionInv'
  <2>1. /\ UNCHANGED <<ledger, issued, rows, worker, ingest, replied>>
        /\ keyFiles' = keyFiles \cup {id} /\ id \in Active(ledger)
    BY <1>0, <1>7 DEF WriteKey, WorkerOK
  <2> QED
    BY <1>0, <2>1, LedgerStands
<1>8. ASSUME NEW id \in Identities, DropKey(id)
      PROVE  ProvisionInv'
  BY <1>0, <1>8, LedgerStands DEF DropKey
<1>9. ASSUME NEW id \in Identities, OperatorDrops(id)
      PROVE  ProvisionInv'
  <2>1. /\ UNCHANGED <<ledger, issued, keyFiles, worker, ingest, replied>>
        /\ rows' \subseteq rows
    BY <1>9 DEF OperatorDrops
  <2>2. WorkerOK(worker', ledger, rows', ingest') /\ LockedOut(ledger, rows', ingest')
    BY <1>0, <2>1 DEF WorkerOK, LockedOut
  <2> QED
    BY <1>0, <2>1, <2>2, LedgerStands
<1>10. ASSUME NEW t \in Ingests, IngestCommit(t)
       PROVE  ProvisionInv'
  <2>1. /\ UNCHANGED <<ledger, issued, keyFiles, rows, worker, replied>>
        /\ ingest' = [ingest EXCEPT ![t] = NoIdentity]
    BY <1>10 DEF IngestCommit
  <2>2. \A u \in Ingests : ingest'[u] = ingest[u] \/ ingest'[u] = NoIdentity
    BY <1>0, <2>1
  <2>3. WorkerOK(worker', ledger, rows', ingest')
    BY <1>0, <2>1, <2>2 DEF WorkerOK
  <2>4. LockedOut(ledger, rows', ingest')
    BY <1>0, <2>1, <2>2 DEF LockedOut, NoIdentity
  <2> QED
    BY <1>0, <2>1, <2>3, <2>4, LedgerStands
<1>11. ASSUME NEW t \in Ingests, NEW id \in Identities, IngestBegin(t, id)
       PROVE  ProvisionInv'
  <2>1. /\ UNCHANGED <<ledger, issued, keyFiles, rows, worker, replied>>
        /\ ingest' = [ingest EXCEPT ![t] = id] /\ id \in rows /\ worker.pc # "keys"
    BY <1>11 DEF IngestBegin, Live
  <2>2. \A u \in Ingests : ingest'[u] = ingest[u] \/ ingest'[u] = id
    BY <1>0, <2>1
  <2>3. WorkerOK(worker', ledger, rows', ingest')
    BY <1>0, <2>1, <2>2 DEF WorkerOK
  <2>4. LockedOut(ledger, rows', ingest')
    BY <1>0, <2>1, <2>2 DEF LockedOut
  <2> QED
    BY <1>0, <2>1, <2>3, <2>4, LedgerStands
<1>12. CASE UNCHANGED provisionVars
  BY <1>0, <1>12, LedgerStands DEF provisionVars
<1> QED
  BY <1>1, <1>2, <1>3, <1>4, <1>5, <1>6, <1>7, <1>8, <1>9, <1>10, <1>11, <1>12,
     EnrolKeeps, RevokeKeeps, ConfirmKeeps DEF ProvisionNext

LEMMA ProvisionAlways == ProvisionSpec => []ProvisionInv
<1>1. ProvisionInit => ProvisionInv
  BY ProvisionInitially
<1>2. ProvisionInv /\ [ProvisionNext]_provisionVars => ProvisionInv'
  BY ProvisionStep
<1> QED
  BY <1>1, <1>2, PTL DEF ProvisionSpec

\* Once a revocation is confirmed no later enrolment, retry or resume brings
\* the device back into the registry, and none of its ingests is still under
\* way (p6_provision.py, _publish and _confirm).
THEOREM RevokedStayOut == ProvisionSpec => []RevokedLockedOut
<1>1. ProvisionInv => RevokedLockedOut
  BY ProvisionFacts DEF ProvisionInv, LockedOut, RevokedLockedOut
<1> QED
  BY <1>1, ProvisionAlways, PTL

\* Every key file and registry row has its record in the ledger, and a retry
\* with the same idempotency key is answered with the identity of the first
\* attempt, wherever the worker died (p6_provision.py, enroll).
THEOREM EnrolmentSurvives == ProvisionSpec => []EnrolmentDurable
<1>1. ASSUME ProvisionInv
      PROVE  EnrolmentDurable
  <2>1. keyFiles \cup rows \subseteq IdsOf(ledger)
    BY <1>1, LedgerFacts DEF ProvisionInv
  <2>2. ASSUME NEW a \in replied, NEW b \in replied, a[1] = b[1]
        PROVE  a[2] = b[2]
    <3>1. PICK i \in 1 .. Len(ledger) : a = <<ledger[i].key, i>>
      BY <1>1 DEF ProvisionInv, AnswersOK
    <3>2. PICK j \in 1 .. Len(ledger) : b = <<ledger[j].key, j>>
      BY <1>1 DEF ProvisionInv, AnswersOK
    <3>3. i = j
      BY <1>1, <2>2, <3>1, <3>2 DEF ProvisionInv, LedgerOK
    <3> QED
      BY <3>1, <3>2, <3>3
  <2> QED
    BY <2>1, <2>2 DEF EnrolmentDurable
<1>2. ProvisionInv => EnrolmentDurable
  BY <1>1
<1> QED
  BY <1>2, ProvisionAlways, PTL

-----------------------------------------------------------------------------
(* The quality receiver.                                                   *)

\* The marker is there before the leaf is replaced, and taken away only when
\* the service, if it runs, has loaded the leaf on disk.
LeafInv ==
    /\ renewal = [pc |-> renewal.pc, leaf |-> renewal.leaf, restart |-> renewal.restart]
    /\ receiver = [up |-> receiver.up, leaf |-> receiver.leaf, accounts |-> receiver.accounts]
    /\ marker \in BOOLEAN /\ receiver.up \in BOOLEAN
    /\ OldLeafIsMarked
    /\ renewal.pc \in {"publish", "restart"} => marker
    /\ renewal.pc = "unmark" => (receiver.up => receiver.leaf = leaf)

Agrees(token, other) == token # 0 /\ other # 0 => token = other

\* Everything a publication may write, forwards or back, agrees with what was
\* delivered.
PairsInv ==
    /\ DeliveredAccepted
    /\ publication = [pc |-> publication.pc, accounts |-> publication.accounts,
                      oldAccounts |-> publication.oldAccounts, oldPairs |-> publication.oldPairs]
    /\ \A m \in Machines :
         /\ delivered[m] # 0 => pairs[m] = delivered[m]
         /\ publication.pc # "idle" =>
              /\ Agrees(delivered[m], publication.accounts[m])
              /\ Agrees(delivered[m], publication.oldAccounts[m])
              /\ delivered[m] # 0 => publication.oldPairs[m] = delivered[m]
    /\ publication.pc \in {"restart", "point", "verify"} => accounts = publication.accounts
    /\ publication.pc = "verify" => pairs = publication.accounts

LEMMA LeafInitially ==
    ASSUME ReceiverInit
    PROVE  LeafInv
BY DEF ReceiverInit, LeafInv, OldLeafIsMarked, NoRenewal

LEMMA LeafStep ==
    ASSUME LeafInv, [ReceiverNext]_receiverVars
    PROVE  LeafInv'
<1> USE DEF LeafInv, OldLeafIsMarked
<1>l. /\ Loaded.up = TRUE /\ Loaded.leaf = leaf
      /\ Loaded = [up |-> Loaded.up, leaf |-> Loaded.leaf, accounts |-> Loaded.accounts]
  BY DEF Loaded
<1>n. /\ NoRenewal.pc = "idle"
      /\ NoRenewal = [pc |-> NoRenewal.pc, leaf |-> NoRenewal.leaf,
                      restart |-> NoRenewal.restart]
  BY DEF NoRenewal
<1>1. ASSUME UNCHANGED <<leaf, marker, renewal>>,
             \/ receiver' = Loaded \/ UNCHANGED receiver
             \/ receiver' = [receiver EXCEPT !.up = FALSE]
      PROVE  LeafInv'
  <2>1. CASE receiver' = Loaded
    BY <1>1, <1>l, <2>1
  <2>2. CASE UNCHANGED receiver
    BY <1>1, <2>2
  <2>3. CASE receiver' = [receiver EXCEPT !.up = FALSE]
    <3>1. receiver' = [up |-> FALSE, leaf |-> receiver.leaf, accounts |-> receiver.accounts]
      BY <2>3
    <3> QED
      BY <1>1, <3>1
  <2> QED
    BY <1>1, <2>1, <2>2, <2>3
<1>2. CASE \/ ReceiverStarts \/ ServiceStops \/ ActivateAccounts \/ PublishRestart
           \/ PointPairs \/ PairsVerified \/ PublishFailed \/ PointerBack \/ RestartBack
           \/ PublicationKilled \/ \E bound \in Bindings : PublishBegin(bound)
           \/ UNCHANGED receiverVars
  <2>1. /\ UNCHANGED <<leaf, marker, renewal>>
        /\ \/ receiver' = Loaded \/ UNCHANGED receiver
           \/ receiver' = [receiver EXCEPT !.up = FALSE]
    BY <1>2 DEF ReceiverStarts, ServiceStops, ActivateAccounts, PublishRestart, PointPairs,
                PairsVerified, PublishFailed, PointerBack, RestartBack, PublicationKilled,
                PublishBegin, receiverVars
  <2> QED
    BY <1>1, <2>1
<1>3. ASSUME NEW restart \in BOOLEAN, RenewNothing(restart)
      PROVE  LeafInv'
  BY <1>3 DEF RenewNothing
<1>4. ASSUME NEW restart \in BOOLEAN, RenewIssue(restart)
      PROVE  LeafInv'
  BY <1>4 DEF RenewIssue
<1>5. CASE RenewMark
  <2>1. /\ renewal' = [pc |-> "publish", leaf |-> renewal.leaf, restart |-> renewal.restart]
        /\ marker' = TRUE /\ UNCHANGED <<leaf, receiver>>
    BY <1>5 DEF RenewMark
  <2> QED
    BY <2>1
<1>6. CASE RenewPublish
  <2>1. /\ renewal.pc = "publish" /\ UNCHANGED <<marker, receiver>>
        /\ \/ renewal' = NoRenewal
           \/ renewal' = [pc |-> "restart", leaf |-> renewal.leaf, restart |-> renewal.restart]
    BY <1>6 DEF RenewPublish
  <2> QED
    BY <1>n, <2>1
<1>7. ASSUME NEW ok \in BOOLEAN, RenewRestart(ok)
      PROVE  LeafInv'
  <2>0. renewal.pc = "restart" /\ UNCHANGED <<leaf, marker>>
    BY <1>7 DEF RenewRestart
  <2>1. CASE ok
    <3>1. renewal' = [pc |-> "unmark", leaf |-> renewal.leaf, restart |-> renewal.restart]
      BY <1>7, <2>1 DEF RenewRestart
    <3>2. receiver.up => receiver' = Loaded
      BY <1>7, <2>1 DEF RenewRestart
    <3>3. ~receiver.up => receiver' = receiver
      BY <1>7 DEF RenewRestart
    <3> QED
      BY <1>l, <2>0, <3>1, <3>2, <3>3
  <2>2. CASE ~ok
    <3>1. renewal' = NoRenewal /\ UNCHANGED receiver
      BY <1>7, <2>2 DEF RenewRestart
    <3> QED
      BY <1>n, <2>0, <3>1
  <2> QED
    BY <2>1, <2>2
<1>8. CASE RenewUnmark
  <2>1. /\ renewal.pc = "unmark" /\ renewal' = NoRenewal /\ marker' = FALSE
        /\ UNCHANGED <<leaf, receiver>>
    BY <1>8 DEF RenewUnmark
  <2> QED
    BY <1>n, <2>1
<1>9. CASE RenewKilled
  BY <1>9, <1>n DEF RenewKilled
<1> HIDE DEF LeafInv, OldLeafIsMarked
<1> QED
  BY <1>2, <1>3, <1>4, <1>5, <1>6, <1>7, <1>8, <1>9 DEF ReceiverNext

\* A service that runs with an older certificate than the one on disk has a
\* durable restart owed to it, whatever was killed or failed in between
\* (persistent.py, renew).
THEOREM OldLeavesMarked == ReceiverSpec => []OldLeafIsMarked
<1>1. ReceiverInit => LeafInv
  BY LeafInitially
<1>2. LeafInv /\ [ReceiverNext]_receiverVars => LeafInv'
  BY LeafStep
<1>3. LeafInv => OldLeafIsMarked
  BY DEF LeafInv
<1> QED
  BY <1>1, <1>2, <1>3, PTL DEF ReceiverSpec

LEMMA PairsInitially ==
    ASSUME ReceiverInit
    PROVE  PairsInv
BY DEF ReceiverInit, PairsInv, DeliveredAccepted, NoTokens, NoPublication

LEMMA PairsStep ==
    ASSUME PairsInv, [ReceiverNext]_receiverVars
    PROVE  PairsInv'
<1> USE DEF PairsInv, DeliveredAccepted, Agrees
<1>1. ASSUME UNCHANGED <<accounts, pairs, publication, delivered>>
      PROVE  PairsInv'
  BY <1>1
<1>2. ASSUME NEW bound, PublishBegin(bound)
      PROVE  PairsInv'
  <2>1. PICK t \in Prepared(bound) :
          publication' = [pc |-> "activate", accounts |-> t, oldAccounts |-> accounts,
                          oldPairs |-> pairs]
    BY <1>2 DEF PublishBegin
  <2>2. UNCHANGED <<accounts, pairs, delivered>>
    BY <1>2 DEF PublishBegin
  <2>3. \A m \in Machines : delivered[m] # 0 => t[m] \in {0, delivered[m]}
    BY DEF Prepared, Unpaired
  <2> QED
    BY <2>1, <2>2, <2>3
<1>3. CASE ActivateAccounts
  <2>1. /\ publication' = [pc |-> "restart", accounts |-> publication.accounts,
                           oldAccounts |-> publication.oldAccounts,
                           oldPairs |-> publication.oldPairs]
        /\ accounts' = publication.accounts /\ UNCHANGED <<pairs, delivered>>
        /\ publication.pc = "activate"
    BY <1>3 DEF ActivateAccounts
  <2> QED
    BY <2>1
<1>4. CASE PublishRestart
  <2>1. /\ publication' = [pc |-> "point", accounts |-> publication.accounts,
                           oldAccounts |-> publication.oldAccounts,
                           oldPairs |-> publication.oldPairs]
        /\ UNCHANGED <<accounts, pairs, delivered>> /\ publication.pc = "restart"
    BY <1>4 DEF PublishRestart
  <2> QED
    BY <2>1
<1>5. CASE PointPairs
  <2>1. /\ publication' = [pc |-> "verify", accounts |-> publication.accounts,
                           oldAccounts |-> publication.oldAccounts,
                           oldPairs |-> publication.oldPairs]
        /\ UNCHANGED accounts /\ publication.pc = "point"
    BY <1>5 DEF PointPairs
  <2>2. /\ pairs' = publication.accounts
        /\ delivered' = [m \in Machines |->
             IF publication.accounts[m] = 0 THEN 0 ELSE delivered[m]]
    BY <1>5 DEF PointPairs
  <2> QED
    BY <2>1, <2>2
<1>6. CASE PairsVerified
  <2>1. /\ publication.pc = "verify" /\ publication' = NoPublication
        /\ delivered' = publication.accounts /\ UNCHANGED <<accounts, pairs>>
    BY <1>6 DEF PairsVerified
  <2> QED
    BY <2>1 DEF NoPublication
<1>7. CASE PublishFailed
  <2>1. /\ publication' = [pc |-> "unpoint", accounts |-> publication.accounts,
                           oldAccounts |-> publication.oldAccounts,
                           oldPairs |-> publication.oldPairs]
        /\ accounts' = publication.oldAccounts /\ UNCHANGED <<pairs, delivered>>
        /\ publication.pc \in {"activate", "restart", "point", "verify"}
    BY <1>7 DEF PublishFailed
  <2> QED
    BY <2>1
<1>8. CASE PointerBack
  <2>1. /\ publication' = [pc |-> "rerestart", accounts |-> publication.accounts,
                           oldAccounts |-> publication.oldAccounts,
                           oldPairs |-> publication.oldPairs]
        /\ pairs' = publication.oldPairs /\ UNCHANGED <<accounts, delivered>>
        /\ publication.pc = "unpoint"
    BY <1>8 DEF PointerBack
  <2> QED
    BY <2>1
<1>9. CASE RestartBack \/ PublicationKilled
  <2>1. publication' = NoPublication /\ UNCHANGED <<accounts, pairs, delivered>>
    BY <1>9 DEF RestartBack, PublicationKilled
  <2> QED
    BY <2>1 DEF NoPublication
<1>10. CASE \/ ReceiverStarts \/ ServiceStops \/ RenewMark \/ RenewPublish \/ RenewUnmark
            \/ RenewKilled \/ \E ok \in BOOLEAN : RenewRestart(ok)
            \/ \E restart \in BOOLEAN : RenewNothing(restart) \/ RenewIssue(restart)
            \/ UNCHANGED receiverVars
  <2>1. UNCHANGED <<accounts, pairs, publication, delivered>>
    BY <1>10 DEF ReceiverStarts, ServiceStops, RenewMark, RenewPublish, RenewUnmark,
                 RenewKilled, RenewRestart, RenewNothing, RenewIssue, receiverVars
  <2> QED
    BY <1>1, <2>1
<1> HIDE DEF PairsInv, DeliveredAccepted
<1> QED
  BY <1>2, <1>3, <1>4, <1>5, <1>6, <1>7, <1>8, <1>9, <1>10 DEF ReceiverNext

\* The token of a delivered pair stays the token of its machine until a
\* publication removes the machine, through retries, rollbacks and kills
\* (fleet.py, prepare; publish-quality-windows.py).
THEOREM DeliveredStaysAccepted == ReceiverSpec => []DeliveredAccepted
<1>1. ReceiverInit => PairsInv
  BY PairsInitially
<1>2. PairsInv /\ [ReceiverNext]_receiverVars => PairsInv'
  BY PairsStep
<1>3. PairsInv => DeliveredAccepted
  BY DEF PairsInv
<1> QED
  BY <1>1, <1>2, <1>3, PTL DEF ReceiverSpec

-----------------------------------------------------------------------------
(* The receiver bundle.                                                    *)

Matched(files) == files["ca"] = files["digest"] => CaOf(files["client"]) = files["ca"]

Names == {"ca", "client", "digest"}

\* While a migration writes, the files are the first ones of the new pair and
\* the others of the old, which was whole.
MigrationOK ==
    /\ migration.written \in 0 .. 3
    /\ migration.pc = "confirm" => migration.written = 0
    /\ CaOf(migration.from["client"]) = migration.from["ca"]
    /\ migration.from["digest"] = migration.from["ca"]
    /\ bundle["ca"] = IF migration.written >= 1 THEN CaOf(migration.to)
                      ELSE migration.from["ca"]
    /\ bundle["client"] = IF migration.written >= 2 THEN migration.to
                          ELSE migration.from["client"]
    /\ bundle["digest"] = IF migration.written >= 3 THEN CaOf(migration.to)
                          ELSE migration.from["digest"]

BundleInv ==
    /\ Matched(bundle) /\ NeverMixed
    /\ bundle = [name \in Names |-> bundle[name]]
    /\ migration = [pc |-> migration.pc, to |-> migration.to, from |-> migration.from,
                    written |-> migration.written]
    /\ migration.pc # "idle" => MigrationOK

LEMMA WriteOrderIs ==
    /\ Len(WriteOrder) = 3
    /\ WriteOrder[1] = "ca" /\ WriteOrder[2] = "client" /\ WriteOrder[3] = "digest"
BY DEF WriteOrder

LEMMA BundleInitially ==
    ASSUME BundleInit
    PROVE  BundleInv
<1>1. PICK pair \in ReceiverPairs : bundle = [name \in Names |-> Content(name, pair)]
  BY DEF BundleInit, Names
<1>2. Matched(bundle) /\ bundle = [name \in Names |-> bundle[name]]
  BY <1>1 DEF Matched, Content, Names
<1> QED
  BY <1>2 DEF BundleInit, BundleInv, NeverMixed, NoMigration

LEMMA BundleStep ==
    ASSUME BundleInv, [BundleNext]_bundleVars
    PROVE  BundleInv'
<1> USE DEF BundleInv
<1>1. CASE StartWorker
  BY <1>1 DEF StartWorker, NeverMixed, Loads, Matched, MigrationOK
<1>2. CASE StopWorker
  BY <1>2 DEF StopWorker, NeverMixed, MigrationOK
<1>3. ASSUME NEW pair \in ReceiverPairs, StartMigration(pair)
      PROVE  BundleInv'
  <2>1. /\ migration' = [pc |-> "confirm", to |-> pair, from |-> bundle, written |-> 0]
        /\ UNCHANGED <<bundle, running>> /\ bundle["ca"] = bundle["digest"]
    BY <1>3 DEF StartMigration, NoMigration, Loads
  <2>2. MigrationOK'
    BY <2>1 DEF MigrationOK, Matched
  <2> QED
    BY <2>1, <2>2 DEF NeverMixed
<1>n. migration' = NoMigration /\ UNCHANGED <<bundle, running>> => BundleInv'
  BY DEF NoMigration, NeverMixed
<1>p. ASSUME NEW pc, UNCHANGED <<bundle, running>>, migration.pc # "idle", pc # "confirm",
             migration' = [migration EXCEPT !.pc = pc]
      PROVE  BundleInv'
  <2>1. migration' = [pc |-> pc, to |-> migration.to, from |-> migration.from,
                      written |-> migration.written]
    BY <1>p
  <2>2. MigrationOK'
    BY <1>p, <2>1 DEF MigrationOK
  <2> QED
    BY <1>p, <2>1, <2>2 DEF NeverMixed
<1>4. ASSUME NEW ready, NEW upload, ConfirmPaths(ready, upload)
      PROVE  BundleInv'
  <2>1. /\ UNCHANGED <<bundle, running>> /\ migration.pc = "confirm"
        /\ migration' = NoMigration \/ migration' = [migration EXCEPT !.pc = "write"]
    BY <1>4 DEF ConfirmPaths
  <2> QED
    BY <1>n, <1>p, <2>1
<1>5. CASE WriteFile
  <2> DEFINE name == WriteOrder[migration.written + 1]
  <2>1. /\ migration.pc = "write" /\ migration.written \in 0 .. 2 /\ UNCHANGED running
        /\ MigrationOK
        /\ migration' = [pc |-> migration.pc, to |-> migration.to, from |-> migration.from,
                         written |-> migration.written + 1]
    BY <1>5, WriteOrderIs DEF WriteFile, MigrationOK
  <2>2. bundle' = [bundle EXCEPT ![name] = Content(name, migration.to)]
    BY <1>5 DEF WriteFile
  <2>3. name = IF migration.written = 0 THEN "ca"
               ELSE IF migration.written = 1 THEN "client" ELSE "digest"
    BY <2>1, WriteOrderIs
  <2> HIDE DEF name
  <2>4. \A x \in Names : bundle'[x] = IF x = name THEN Content(name, migration.to) ELSE bundle[x]
    BY <2>2
  <2>5. MigrationOK'
    BY <2>1, <2>3, <2>4 DEF MigrationOK, Content, Names
  <2>6. Matched(bundle')
    BY <2>1, <2>5 DEF MigrationOK, Matched
  <2> QED
    BY <2>1, <2>2, <2>5, <2>6 DEF NeverMixed
<1>6. CASE WriteBack
  <2> DEFINE name == WriteOrder[migration.written]
  <2>1. /\ migration.pc = "back" /\ migration.written \in 1 .. 3 /\ UNCHANGED running
        /\ MigrationOK
        /\ migration' = [pc |-> migration.pc, to |-> migration.to, from |-> migration.from,
                         written |-> migration.written - 1]
    BY <1>6 DEF WriteBack, MigrationOK
  <2>2. bundle' = [bundle EXCEPT ![name] = migration.from[name]]
    BY <1>6 DEF WriteBack
  <2>3. name = IF migration.written = 1 THEN "ca"
               ELSE IF migration.written = 2 THEN "client" ELSE "digest"
    BY <2>1, WriteOrderIs
  <2> HIDE DEF name
  <2>4. \A x \in Names : bundle'[x] = IF x = name THEN migration.from[name] ELSE bundle[x]
    BY <2>2
  <2>5. MigrationOK'
    BY <2>1, <2>3, <2>4 DEF MigrationOK, Names
  <2>6. Matched(bundle')
    BY <2>1, <2>5 DEF MigrationOK, Matched
  <2> QED
    BY <2>1, <2>2, <2>5, <2>6 DEF NeverMixed
<1>7. CASE MigrationFails
  BY <1>7, <1>p DEF MigrationFails
<1>8. CASE MigrationDone \/ RolledBack \/ MigrationKilled
  BY <1>8, <1>n DEF MigrationDone, RolledBack, MigrationKilled
<1>9. CASE UNCHANGED bundleVars
  BY <1>9 DEF bundleVars, NeverMixed, MigrationOK
<1> HIDE DEF BundleInv
<1> QED
  BY <1>1, <1>2, <1>3, <1>4, <1>5, <1>6, <1>7, <1>8, <1>9 DEF BundleNext

\* No worker runs with the endpoint and token of one receiver and the CA of
\* another, wherever a migration or its rollback was cut off, for every
\* assignment of CAs to receivers (receiver_update.py, update_receiver).
THEOREM BundlesNeverMixed == BundleSpec => []NeverMixed
<1>1. BundleInit => BundleInv
  BY BundleInitially
<1>2. BundleInv /\ [BundleNext]_bundleVars => BundleInv'
  BY BundleStep
<1>3. BundleInv => NeverMixed
  BY DEF BundleInv
<1> QED
  BY <1>1, <1>2, <1>3, PTL DEF BundleSpec

=============================================================================
