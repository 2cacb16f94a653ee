--------------------------- MODULE QualityReceiver ---------------------------
(***************************************************************************)
(* The quality receiver on its host: the service that loads certificate    *)
(* and accounts when it starts (tools/quality_failover/persistent.py,      *)
(* serve), the renewal by timer or by hand (renew), and the publication of *)
(* device pairs (tools/publish-quality-windows.py with fleet.py), which    *)
(* writes the accounts, restarts the service, proves it ready and only     *)
(* then points the distribution at the new pairs.                          *)
(*                                                                         *)
(* Renewal and publication hold different locks and restart the same       *)
(* service.  Either may be killed at any point.                            *)
(***************************************************************************)
EXTENDS Naturals, FiniteSets

CONSTANTS
    Machines,       \* devices that may be prepared, MAX_DEVICES at a time
    MaxMachines,    \* MAX_DEVICES
    Operator,       \* the machine that owns the legacy token
    MaxLeaves,      \* bound: certificates issued
    MaxTokens       \* bound: tokens generated

ASSUME ReceiverAssumption ==
    /\ Operator \in Machines /\ MaxMachines \in Nat \ {0}
    /\ MaxLeaves \in Nat \ {0} /\ MaxTokens \in Nat

VARIABLES
    leaf,       \* server-cert.pem: number of the certificate
    leaves,     \* certificates issued so far
    marker,     \* restart-needed exists
    renewal,    \* the renewal under the renewal lock
    accounts,   \* receiver.json: the token each machine uses, 0 for none
    tokens,     \* tokens generated so far
    pairs,      \* the published pairs: token of each machine, 0 for none
    receiver,   \* the service: whether it runs and what it loaded
    publication,\* the publication under the publisher's lock
    delivered   \* history: the pairs of publications that succeeded

receiverVars == <<leaf, leaves, marker, renewal, accounts, tokens, pairs, receiver,
                  publication, delivered>>

-----------------------------------------------------------------------------
NoTokens == [m \in Machines |-> 0]
NoRenewal == [pc |-> "idle", leaf |-> 0, restart |-> FALSE]
NoPublication == [pc |-> "idle", accounts |-> NoTokens, oldAccounts |-> NoTokens,
                  oldPairs |-> NoTokens]

(* init: a certificate and the legacy token; the service is not started.   *)
ReceiverInit ==
    /\ leaf = 1 /\ leaves = 1 /\ marker = FALSE /\ renewal = NoRenewal
    /\ accounts = NoTokens /\ tokens = 0 /\ pairs = NoTokens
    /\ receiver = [up |-> FALSE, leaf |-> 0, accounts |-> NoTokens]
    /\ publication = NoPublication /\ delivered = NoTokens

(* serve: what the files hold when the service starts.                     *)
Loaded == [up |-> TRUE, leaf |-> leaf, accounts |-> accounts]

ReceiverStarts ==
    /\ ~receiver.up /\ receiver' = Loaded
    /\ UNCHANGED <<leaf, leaves, marker, renewal, accounts, tokens, pairs, publication, delivered>>

ServiceStops ==
    /\ receiver.up /\ receiver' = [receiver EXCEPT !.up = FALSE]
    /\ UNCHANGED <<leaf, leaves, marker, renewal, accounts, tokens, pairs, publication, delivered>>

-----------------------------------------------------------------------------
(* renew: nothing is due, and only a restart that is owed is made up for;  *)
(* or a new certificate is issued and validated.                           *)
RenewNothing(restart) ==
    /\ renewal = NoRenewal
    /\ restart /\ marker
    /\ renewal' = [pc |-> "restart", leaf |-> 0, restart |-> TRUE]
    /\ UNCHANGED <<leaf, leaves, marker, accounts, tokens, pairs, receiver, publication,
                   delivered>>

RenewIssue(restart) ==
    /\ renewal = NoRenewal /\ leaves < MaxLeaves
    /\ leaves' = leaves + 1
    /\ renewal' = [pc |-> "mark", leaf |-> leaves + 1, restart |-> restart]
    /\ UNCHANGED <<leaf, marker, accounts, tokens, pairs, receiver, publication, delivered>>

(* Mutant: the marker is left to the end.                                  *)
RenewMarkLate ==
    /\ renewal.pc = "mark"
    /\ renewal' = [renewal EXCEPT !.pc = "publish"]
    /\ UNCHANGED <<leaf, leaves, marker, accounts, tokens, pairs, receiver, publication,
                   delivered>>

(* The marker is durable before the certificate is replaced.               *)
RenewMark ==
    /\ renewal.pc = "mark"
    /\ marker' = TRUE
    /\ renewal' = [renewal EXCEPT !.pc = "publish"]
    /\ UNCHANGED <<leaf, leaves, accounts, tokens, pairs, receiver, publication, delivered>>

RenewPublish ==
    /\ renewal.pc = "publish"
    /\ leaf' = renewal.leaf
    /\ renewal' = IF renewal.restart THEN [renewal EXCEPT !.pc = "restart"] ELSE NoRenewal
    /\ UNCHANGED <<leaves, marker, accounts, tokens, pairs, receiver, publication, delivered>>

(* try-restart leaves a stopped service alone; when it fails, the marker   *)
(* stays for the next timer.                                               *)
RenewRestart(ok) ==
    /\ renewal.pc = "restart"
    /\ receiver' = IF ok /\ receiver.up THEN Loaded ELSE receiver
    /\ renewal' = IF ok THEN [renewal EXCEPT !.pc = "unmark"] ELSE NoRenewal
    /\ UNCHANGED <<leaf, leaves, marker, accounts, tokens, pairs, publication, delivered>>

RenewUnmark ==
    /\ renewal.pc = "unmark"
    /\ marker' = FALSE /\ renewal' = NoRenewal
    /\ UNCHANGED <<leaf, leaves, accounts, tokens, pairs, receiver, publication, delivered>>

RenewKilled ==
    /\ renewal # NoRenewal /\ renewal' = NoRenewal
    /\ UNCHANGED <<leaf, leaves, marker, accounts, tokens, pairs, receiver, publication,
                   delivered>>

-----------------------------------------------------------------------------
(* prepare: a machine keeps the token of the published pair, a new one     *)
(* gets a fresh token.  The owner of the legacy token cannot be removed.   *)
Bindings == {b \in SUBSET Machines : Operator \in b /\ Cardinality(b) <= MaxMachines}
Unpaired(bound) == {m \in bound : pairs[m] = 0}

(* Mutant: every publication generates new tokens.                         *)
PreparedAnew(bound) ==
    {t \in [Machines -> 0 .. tokens + Cardinality(bound)] :
        /\ \A m \in Machines : IF m \in bound THEN t[m] > tokens ELSE t[m] = 0
        /\ \A m, n \in bound : m # n => t[m] # t[n]}

Prepared(bound) ==
    {t \in [Machines -> 0 .. tokens + Cardinality(Unpaired(bound))] :
        /\ \A m \in Machines : IF m \notin bound THEN t[m] = 0
                               ELSE IF m \in Unpaired(bound) THEN t[m] > tokens
                               ELSE t[m] = pairs[m]
        /\ \A m, n \in Unpaired(bound) : m # n => t[m] # t[n]}

(* publish: the release directory is complete before anything refers to    *)
(* it; the old accounts and the old pointer are kept for the way back.     *)
PublishBegin(bound) ==
    /\ publication = NoPublication /\ tokens + Cardinality(Unpaired(bound)) <= MaxTokens
    /\ \E t \in Prepared(bound) :
         publication' = [pc |-> "activate", accounts |-> t, oldAccounts |-> accounts,
                         oldPairs |-> pairs]
    /\ tokens' = tokens + Cardinality(Unpaired(bound))
    /\ UNCHANGED <<leaf, leaves, marker, renewal, accounts, pairs, receiver, delivered>>

ActivateAccounts ==
    /\ publication.pc = "activate"
    /\ accounts' = publication.accounts
    /\ publication' = [publication EXCEPT !.pc = "restart"]
    /\ UNCHANGED <<leaf, leaves, marker, renewal, tokens, pairs, receiver, delivered>>

(* The restart, and the TLS and token check of the service.                *)
PublishRestart ==
    /\ publication.pc = "restart"
    /\ receiver' = Loaded
    /\ publication' = [publication EXCEPT !.pc = "point"]
    /\ UNCHANGED <<leaf, leaves, marker, renewal, accounts, tokens, pairs, delivered>>

(* The pointer, then every pair is read back as a download would.          *)
PointPairs ==
    /\ publication.pc = "point" /\ receiver.up
    /\ pairs' = publication.accounts
    /\ delivered' = [m \in Machines |-> IF pairs'[m] = 0 THEN 0 ELSE delivered[m]]
    /\ publication' = [publication EXCEPT !.pc = "verify"]
    /\ UNCHANGED <<leaf, leaves, marker, renewal, accounts, tokens, receiver>>

PairsVerified ==
    /\ publication.pc = "verify" /\ publication' = NoPublication
    /\ delivered' = publication.accounts
    /\ UNCHANGED <<leaf, leaves, marker, renewal, accounts, tokens, pairs, receiver>>

(* Any step after the preparation fails: accounts, pointer and service go  *)
(* back, in this order.                                                    *)
PublishFailed ==
    /\ publication.pc \in {"activate", "restart", "point", "verify"}
    /\ accounts' = publication.oldAccounts
    /\ publication' = [publication EXCEPT !.pc = "unpoint"]
    /\ UNCHANGED <<leaf, leaves, marker, renewal, tokens, pairs, receiver, delivered>>

PointerBack ==
    /\ publication.pc = "unpoint"
    /\ pairs' = publication.oldPairs
    /\ publication' = [publication EXCEPT !.pc = "rerestart"]
    /\ UNCHANGED <<leaf, leaves, marker, renewal, accounts, tokens, receiver, delivered>>

RestartBack ==
    /\ publication.pc = "rerestart"
    /\ receiver' \in {Loaded, [receiver EXCEPT !.up = FALSE]}
    /\ publication' = NoPublication
    /\ UNCHANGED <<leaf, leaves, marker, renewal, accounts, tokens, pairs, delivered>>

PublicationKilled ==
    /\ publication # NoPublication /\ publication' = NoPublication
    /\ UNCHANGED <<leaf, leaves, marker, renewal, accounts, tokens, pairs, receiver, delivered>>

ReceiverNext ==
    \/ ReceiverStarts \/ ServiceStops
    \/ \E restart \in BOOLEAN : RenewNothing(restart) \/ RenewIssue(restart)
    \/ RenewMark \/ RenewPublish \/ RenewUnmark \/ RenewKilled
    \/ \E ok \in BOOLEAN : RenewRestart(ok)
    \/ \E bound \in Bindings : PublishBegin(bound)
    \/ ActivateAccounts \/ PublishRestart \/ PointPairs \/ PairsVerified
    \/ PublishFailed \/ PointerBack \/ RestartBack \/ PublicationKilled

ReceiverSpec == ReceiverInit /\ [][ReceiverNext]_receiverVars

-----------------------------------------------------------------------------
ReceiverTypeOK ==
    /\ leaf \in 1 .. leaves /\ leaves \in 1 .. MaxLeaves /\ marker \in BOOLEAN
    /\ accounts \in [Machines -> 0 .. MaxTokens] /\ pairs \in [Machines -> 0 .. MaxTokens]
    /\ receiver.up \in BOOLEAN

(* A service that runs with an older certificate than the one on disk has  *)
(* a durable restart owed to it, whatever renewal, restart or publication  *)
(* was killed or failed in between (persistent.py, renew: "Mark before     *)
(* publication so a crash or failed restart cannot strand an old in-memory *)
(* certificate").                                                          *)
OldLeafIsMarked == receiver.up /\ receiver.leaf # leaf => marker

(* The token of a delivered pair stays the token of its machine until a    *)
(* publication removes the machine: no retry, rollback or kill makes the   *)
(* accounts replace it by another one (fleet.py, prepare;                  *)
(* docs/mihomo-quality-rollout.md: "Retry preserves the exact per-device   *)
(* tokens").                                                               *)
DeliveredAccepted ==
    \A m \in Machines : delivered[m] # 0 /\ accounts[m] # 0 => delivered[m] = accounts[m]
=============================================================================
