----------------------------- MODULE UploadGate -----------------------------
(***************************************************************************)
(* One process of the quality receiver (tools/quality_failover/            *)
(* receiver.py): connections are admitted by a global gate, uploads by a   *)
(* gate per account and by a sliding byte budget.  The client's side of an *)
(* upload (transport.py) is a connection that authenticates, announces a   *)
(* size and then completes, stalls or goes away.                           *)
(*                                                                         *)
(* A connection is handled by its own thread; between its steps the other  *)
(* threads run.  Gates are semaphores: a slot is lost for good when a      *)
(* thread ends without giving it back.  The receiver is in the mode with   *)
(* accounts; the older one has a single token and no account gates.        *)
(***************************************************************************)
EXTENDS Integers, Sequences, FiniteSets, SequencesExt, Thinning

CONSTANTS
    Peers,          \* connections that clients may make at a time
    Accounts,       \* accounts of the receiver, two at most
    Stranger,       \* no account: the token is unknown
    GlobalSlots,    \* the global gate (2)
    Window,         \* the budget's window (60 s), in ticks
    MinuteBytes,    \* bytes per window over all accounts
    AccountBytes,   \* bytes per window of one account (2 MiB)
    UploadSizes,    \* sizes a client may announce, up to MAX_BODY
    MaxUptime       \* bound: the monotonic clock

ASSUME UploadAssumption ==
    /\ Stranger \notin Accounts /\ GlobalSlots \in Nat \ {0} /\ Window \in Nat \ {0}
    /\ MinuteBytes \in Nat /\ AccountBytes \in Nat /\ UploadSizes \subseteq Nat \ {0}

VARIABLES
    uptime,     \* monotonic clock of the process
    gate,       \* free slots of the global gate
    accountGate,\* free slots of each account's gate
    handler,    \* per connection: its thread
    records,    \* admitted uploads the budget still counts
    admitted    \* history: every admitted upload of the last window

uploadVars == <<uptime, gate, accountGate, handler, records, admitted>>

-----------------------------------------------------------------------------
NoHandler == [pc |-> "none", account |-> Stranger, holds |-> FALSE]

UploadInit ==
    /\ uptime = 0 /\ gate = GlobalSlots
    /\ accountGate = [a \in Accounts |-> 1]
    /\ handler = [p \in Peers |-> NoHandler]
    /\ records = <<>> /\ admitted = <<>>

(* process_request: without a slot the connection is shut, with one it     *)
(* gets a thread, or the slot is given back when no thread can start.      *)
AcceptPeer(p) ==
    /\ handler[p] = NoHandler /\ gate > 0
    /\ gate' = gate - 1
    /\ handler' = [handler EXCEPT ![p].pc = "handshake"]
    /\ UNCHANGED <<uptime, accountGate, records, admitted>>

(* The TLS handshake and the headers.  A peer that fails, stalls, has an   *)
(* unknown token or finds its account busy ends here, and so does a        *)
(* readiness check, which takes no account slot and no bytes.              *)
NoUpload(p) ==
    /\ handler[p].pc = "handshake"
    /\ handler' = [handler EXCEPT ![p].pc = "finish"]
    /\ UNCHANGED <<uptime, gate, accountGate, records, admitted>>

(* checked: an account has one upload at a time.                           *)
TakeAccount(p, a) ==
    /\ handler[p].pc = "handshake"
    /\ accountGate[a] > 0
    /\ accountGate' = [accountGate EXCEPT ![a] = @ - 1]
    /\ handler' = [handler EXCEPT ![p] = [pc |-> "reserve", account |-> a, holds |-> TRUE]]
    /\ UNCHANGED <<uptime, gate, records, admitted>>

-----------------------------------------------------------------------------
(* reserve, under its lock: records of the window are kept, older ones     *)
(* leave from the front.                                                   *)
Stale(r) == uptime - r.at >= Window

(* Mutant: a new window begins when the oldest record leaves it.           *)
CountedFixed == IF records # <<>> /\ Stale(Head(records)) THEN <<>> ELSE records

Counted ==
    LET fresh == {i \in DOMAIN records : ~Stale(records[i])}
    IN  IF fresh = {} THEN <<>> ELSE SubSeq(records, Min(fresh), Len(records))

(* The sum of the sizes of the rows at some places, counted byte by byte.  *)
BytesOf(rows, places) == Cardinality(UNION {{i} \X (1 .. rows[i].size) : i \in places})
OfAccount(rows, a) == {i \in DOMAIN rows : rows[i].account = a}

Fits(a, size) ==
    /\ BytesOf(Counted, DOMAIN Counted) + size <= MinuteBytes
    /\ BytesOf(Counted, OfAccount(Counted, a)) + size <= AccountBytes

Reserve(p, size) ==
    /\ handler[p].pc = "reserve"
    /\ LET a == handler[p].account
           row == [at |-> uptime, size |-> size, account |-> a]
       IN  IF Fits(a, size)
           THEN /\ records' = Append(Counted, row) /\ admitted' = Append(admitted, row)
                /\ handler' = [handler EXCEPT ![p].pc = "body"]
           ELSE /\ records' = Counted /\ UNCHANGED admitted
                /\ handler' = [handler EXCEPT ![p].pc = "finish"]
    /\ UNCHANGED <<uptime, gate, accountGate>>

(* The body arrives and is answered, or the deadline, the abort timer or   *)
(* the peer ends it.                                                       *)
BodyEnds(p) ==
    /\ handler[p].pc = "body"
    /\ handler' = [handler EXCEPT ![p].pc = "finish"]
    /\ UNCHANGED <<uptime, gate, accountGate, records, admitted>>

-----------------------------------------------------------------------------

(* finish returns the account's slot, the thread's end the global one.     *)
EndUpload(p) ==
    /\ handler[p].pc = "finish"
    /\ accountGate' = IF handler[p].holds
                      THEN [accountGate EXCEPT ![handler[p].account] = @ + 1] ELSE accountGate
    /\ handler' = [handler EXCEPT ![p] = [@ EXCEPT !.pc = "release", !.holds = FALSE]]
    /\ UNCHANGED <<uptime, gate, records, admitted>>

ReleasePeer(p) ==
    /\ handler[p].pc = "release"
    /\ gate' = gate + 1
    /\ handler' = [handler EXCEPT ![p] = NoHandler]
    /\ UNCHANGED <<uptime, accountGate, records, admitted>>

Elapse ==
    /\ uptime < MaxUptime /\ uptime' = uptime + 1
    /\ admitted' = Thinned(admitted, {i \in DOMAIN admitted : uptime' - admitted[i].at < Window})
    /\ UNCHANGED <<gate, accountGate, handler, records>>

UploadNext ==
    \/ Elapse
    \/ \E p \in Peers :
         \/ AcceptPeer(p) \/ NoUpload(p) \/ BodyEnds(p) \/ EndUpload(p) \/ ReleasePeer(p)
         \/ \E a \in Accounts : TakeAccount(p, a)
         \/ \E size \in UploadSizes : Reserve(p, size)

UploadSpec == UploadInit /\ [][UploadNext]_uploadVars

-----------------------------------------------------------------------------
UploadTypeOK ==
    /\ gate \in 0 .. GlobalSlots /\ accountGate \in [Accounts -> 0 .. 1]
    /\ uptime \in 0 .. MaxUptime /\ Len(records) <= MinuteBytes

(* In every stretch of one window, whenever it begins, the receiver admits *)
(* at most MinuteBytes and at most AccountBytes of one account ("2 MiB/min *)
(* of admitted test payload ... 4 MiB/min aggregate",                      *)
(* docs/mihomo-quality-rollout.md; receiver.py, reserve).                  *)
BudgetSliding ==
    /\ BytesOf(admitted, DOMAIN admitted) <= MinuteBytes
    /\ \A a \in Accounts : BytesOf(admitted, OfAccount(admitted, a)) <= AccountBytes

=============================================================================
