------------------------------- MODULE Ingress -------------------------------
(***************************************************************************)
(* The dedicated TLS ingress of the remote probes (sbox-cm/p6_ingress.py): *)
(* prepare, activate, deactivate, and the firewall pre-start that systemd  *)
(* runs, with a crash or a reboot between any two of their steps.          *)
(*                                                                         *)
(* prepare leaves files in a fixed order.  activate keeps a durable        *)
(* journal of what it opened - the nft table and the service - and every   *)
(* later call closes or confirms what the journal names.  The operations   *)
(* exclude each other with provision.lock; the pre-start does not take it. *)
(***************************************************************************)
EXTENDS Naturals, Sequences

CONSTANTS
    Firewalls           \* settings an operator may prepare: "nft", "none"

ASSUME IngressAssumption == Firewalls \subseteq {"nft", "none"} /\ Firewalls # {}

VARIABLES
    parts,      \* files of prepare that are durable, in order
    setting,    \* metadata.json: the firewall setting
    journal,    \* activation.json
    table,      \* the owned nft table: absent, ours, or edited by hand
    unit,       \* the service: active, enabled
    certOK,     \* the certificate is valid and the pair matches
    call,       \* the operation that holds provision.lock
    starting    \* systemd runs ExecStartPre: the journal it read

ingressVars == <<parts, setting, journal, table, unit, certOK, call, starting>>

-----------------------------------------------------------------------------
(* identity directory, p6-server.pem, p6-server.json, nginx.conf, unit     *)
PartOrder == <<"identity", "pem", "binding", "config", "unit">>
Has(part) == \E i \in 1 .. parts : PartOrder[i] = part

NoJournal == [phase |-> "none", print |-> "unknown"]
Journals == [phase : {"starting", "active", "stopping"}, print : {"unknown", "ours"}]
Closed == [active |-> FALSE, enabled |-> FALSE]
Opened == [active |-> TRUE, enabled |-> TRUE]
NoCall == [pc |-> "idle", op |-> "prepare", journal |-> NoJournal]
NotStarting == [pc |-> "no", journal |-> NoJournal]

IngressInit ==
    /\ parts = 0 /\ setting \in Firewalls
    /\ journal = NoJournal /\ table = "absent" /\ unit = Closed
    /\ certOK = TRUE
    /\ call = NoCall /\ starting = NotStarting

-----------------------------------------------------------------------------
(* prepare: one durable file per step, in order, each only if absent; the  *)
(* setting is fixed with the identity.  A crash leaves a prefix, and the   *)
(* next prepare goes on from it.                                           *)
Prepare ==
    /\ call.pc = "idle" /\ parts < Len(PartOrder)
    /\ Has("identity") => certOK
    /\ call' = [NoCall EXCEPT !.pc = "files", !.op = "prepare"]
    /\ UNCHANGED <<parts, setting, journal, table, unit, certOK, starting>>

WritePart ==
    /\ call.pc = "files"
    /\ parts' = parts + 1
    /\ call' = IF parts' = Len(PartOrder) THEN NoCall ELSE call
    /\ UNCHANGED <<setting, journal, table, unit, certOK, starting>>

-----------------------------------------------------------------------------
(* activate: a proven active ingress is confirmed as it is, an interrupted *)
(* attempt is closed first, and anything open without a journal refused.   *)
Activate ==
    /\ call.pc = "idle" /\ parts = Len(PartOrder) /\ certOK
    /\ \/ /\ journal.phase # "none"
          /\ ~(journal.phase = "active" /\ unit = Opened)
          /\ call' = [pc |-> "disable", op |-> "activate", journal |-> journal]
       \/ /\ journal = NoJournal /\ unit = Closed
          /\ call' = [pc |-> "intent", op |-> "activate", journal |-> NoJournal]
    /\ UNCHANGED <<parts, setting, journal, table, unit, certOK, starting>>

(* Mutant: the journal is written once the service runs.                   *)
WriteIntentLate ==
    /\ call.pc = "intent"
    /\ setting = "nft" => table = "absent"
    /\ call' = [call EXCEPT !.pc = IF setting = "nft" THEN "table" ELSE "enable",
                            !.journal = [phase |-> "starting", print |-> "unknown"]]
    /\ UNCHANGED <<parts, setting, journal, table, unit, certOK, starting>>

(* The intent is durable before anything is opened.                        *)
WriteIntent ==
    /\ call.pc = "intent"
    /\ setting = "nft" => table = "absent"
    /\ journal' = [phase |-> "starting", print |-> "unknown"]
    /\ call' = [call EXCEPT !.pc = IF setting = "nft" THEN "table" ELSE "enable",
                            !.journal = journal']
    /\ UNCHANGED <<parts, setting, table, unit, certOK, starting>>

AddTable ==
    /\ call.pc = "table"
    /\ table' = "ours"
    /\ call' = [call EXCEPT !.pc = "print", !.journal.print = "ours"]
    /\ UNCHANGED <<parts, setting, journal, unit, certOK, starting>>

SavePrint ==
    /\ call.pc = "print"
    /\ journal' = call.journal
    /\ call' = [call EXCEPT !.pc = "enable"]
    /\ UNCHANGED <<parts, setting, table, unit, certOK, starting>>

(* systemctl enable --now: enabled at once, active when the pre-start ends.*)
Enable ==
    /\ call.pc = "enable"
    /\ unit' = [unit EXCEPT !.enabled = TRUE]
    /\ call' = [call EXCEPT !.pc = "await"]
    /\ UNCHANGED <<parts, setting, journal, table, certOK, starting>>

(* service_state and _tls_probe, then the last save of the journal.        *)
MarkActive ==
    /\ call.pc = "await" /\ unit = Opened
    /\ starting.pc = "no"
    /\ journal' = [call.journal EXCEPT !.phase = "active"]
    /\ call' = NoCall
    /\ UNCHANGED <<parts, setting, table, unit, certOK, starting>>

(* Any step of activate may raise: the attempt is rolled back.             *)
ActivateFails ==
    /\ call.op = "activate" /\ call.pc \in {"table", "print", "enable", "await"}
    /\ call' = [call EXCEPT !.pc = "disable", !.op = "deactivate"]
    /\ UNCHANGED <<parts, setting, journal, table, unit, certOK, starting>>

-----------------------------------------------------------------------------
(* deactivate needs no working certificate.                                *)
Deactivate ==
    /\ call.pc = "idle" /\ parts = Len(PartOrder) /\ journal # NoJournal
    /\ journal' = [journal EXCEPT !.phase = "stopping"]
    /\ call' = [pc |-> "disable", op |-> "deactivate", journal |-> journal']
    /\ UNCHANGED <<parts, setting, table, unit, certOK, starting>>

(* _rollback: service, then table, then journal.  disable --now also ends  *)
(* a pre-start under way.                                                  *)
Disable ==
    /\ call.pc = "disable"
    /\ unit' = Closed /\ starting' = NotStarting
    /\ call' = [call EXCEPT !.pc = "drop"]
    /\ UNCHANGED <<parts, setting, journal, table, certOK>>

(* Mutant: the journal goes before the table.                              *)
DropTableLast ==
    /\ call.pc = "drop"
    /\ setting = "nft" => table \in {"absent", "ours"}
    /\ journal' = NoJournal
    /\ call' = [call EXCEPT !.pc = "forget"]
    /\ UNCHANGED <<parts, setting, table, unit, certOK, starting>>

DropTable ==
    /\ call.pc = "drop"
    /\ setting = "nft" => table \in {"absent", "ours"}
    /\ table' = IF setting = "nft" THEN "absent" ELSE table
    /\ call' = [call EXCEPT !.pc = "forget"]
    /\ UNCHANGED <<parts, setting, journal, unit, certOK, starting>>

DropJournal ==
    /\ call.pc = "forget"
    /\ journal' = NoJournal
    /\ call' = IF call.op = "activate" THEN [call EXCEPT !.pc = "intent"] ELSE NoCall
    /\ UNCHANGED <<parts, setting, table, unit, certOK, starting>>

-----------------------------------------------------------------------------
(* firewall_ensure, the pre-start of an enabled unit: on enable, at boot   *)
(* and on a restart after failure.  It reads the journal, restores a       *)
(* missing table and saves the journal it read.                            *)
PreStart ==
    /\ unit.enabled /\ ~unit.active /\ starting.pc = "no"
    /\ IF setting = "nft"
       THEN /\ certOK /\ journal.phase \in {"starting", "active"}
            /\ starting' = [pc |-> "ensure", journal |-> journal]
       ELSE starting' = [pc |-> "serve", journal |-> NoJournal]
    /\ UNCHANGED <<parts, setting, journal, table, unit, certOK, call>>

Ensure ==
    /\ starting.pc = "ensure"
    /\ table \in {"absent", "ours"}
    /\ table = "absent" => journal.phase \in {"starting", "active"}
    /\ table' = "ours"
    /\ starting' = [pc |-> "save", journal |-> [starting.journal EXCEPT !.print = "ours"]]
    /\ UNCHANGED <<parts, setting, journal, unit, certOK, call>>

EnsureSaves ==
    /\ starting.pc = "save"
    /\ journal' = starting.journal
    /\ starting' = [starting EXCEPT !.pc = "serve"]
    /\ UNCHANGED <<parts, setting, table, unit, certOK, call>>

ServiceStarts ==
    /\ starting.pc = "serve"
    /\ unit' = [unit EXCEPT !.active = TRUE]
    /\ starting' = NotStarting
    /\ UNCHANGED <<parts, setting, journal, table, certOK, call>>

StartFails ==
    /\ starting.pc # "no"
    /\ starting' = NotStarting
    /\ UNCHANGED <<parts, setting, journal, table, unit, certOK, call>>

-----------------------------------------------------------------------------
(* The environment: the service dies, the certificate expires, the         *)
(* operation is killed or refused on its way (an edited table stops a      *)
(* rollback), the machine reboots (the ruleset is volatile), an            *)
(* administrator edits the table.                                          *)
ServiceDies ==
    /\ unit.active
    /\ unit' = [unit EXCEPT !.active = FALSE]
    /\ UNCHANGED <<parts, setting, journal, table, certOK, call, starting>>

CertExpires ==
    /\ certOK /\ certOK' = FALSE
    /\ UNCHANGED <<parts, setting, journal, table, unit, call, starting>>

Killed ==
    /\ call.pc # "idle"
    /\ call' = NoCall
    /\ UNCHANGED <<parts, setting, journal, table, unit, certOK, starting>>

Reboot ==
    /\ table' = "absent" /\ unit' = [unit EXCEPT !.active = FALSE]
    /\ call' = NoCall /\ starting' = NotStarting
    /\ UNCHANGED <<parts, setting, journal, certOK>>

TableEdited ==
    /\ table = "ours" /\ table' = "edited"
    /\ UNCHANGED <<parts, setting, journal, unit, certOK, call, starting>>

IngressNext ==
    \/ Prepare \/ WritePart
    \/ Activate \/ WriteIntent \/ AddTable \/ SavePrint \/ Enable \/ MarkActive
    \/ ActivateFails \/ Deactivate \/ Disable \/ DropTable \/ DropJournal
    \/ PreStart \/ Ensure \/ EnsureSaves \/ ServiceStarts \/ StartFails
    \/ ServiceDies \/ CertExpires \/ Killed \/ Reboot \/ TableEdited

IngressSpec == IngressInit /\ [][IngressNext]_ingressVars

-----------------------------------------------------------------------------
IngressTypeOK ==
    /\ parts \in 0 .. Len(PartOrder) /\ setting \in Firewalls
    /\ journal \in Journals \cup {NoJournal}
    /\ table \in {"absent", "ours", "edited"}
    /\ unit \in [active : BOOLEAN, enabled : BOOLEAN] /\ certOK \in BOOLEAN
    /\ call.pc \in {"idle", "files", "intent", "table", "print", "enable", "await",
                    "disable", "drop", "forget"}
    /\ starting.pc \in {"no", "ensure", "save", "serve"}

(* Whatever the ingress has open - the port in the firewall, the service   *)
(* running or enabled for the next boot - a durable journal names it, so a *)
(* later deactivate finds and closes it: after a crash in the middle of    *)
(* activate or of a rollback, a reboot, or a pre-start that saves an old   *)
(* journal while a deactivation runs.                                      *)
OpenIsJournaled ==
    (unit # Closed \/ table # "absent") => journal # NoJournal
=============================================================================
