------------------------------- MODULE Spool -------------------------------
(***************************************************************************)
(* The office-side spool of the remote probe (monitor-v2/remote_probe/     *)
(* spool.py): a chain of record files, a state file that is saved with a   *)
(* rename, and the state in the memory of the one process that holds the   *)
(* lock.  Samples are abstract numbers and every record line has size 1.   *)
(*                                                                         *)
(* A process can die, and a write can fail, between any two storage steps. *)
(* Dying between the fsync of a record and the save of the state is the    *)
(* same as a save that fails before the process dies; rotation and         *)
(* compaction that stop half-way are actions (AppendCut, BoundsCut).       *)
(***************************************************************************)
EXTENDS Naturals, Sequences, FiniteSets, SequencesExt, Thinning

CONSTANTS
    MaxSamples,        \* bound: samples taken
    MaxSends,          \* bound: delivery attempts per record
    MaxTime,           \* bound: the clock
    MaxCorrupt,        \* bound: lines damaged by the storage
    MaxFiles,          \* max_files: members of the chain
    FileLines,         \* file_bytes, in lines
    MaxLines,          \* max_bytes, in lines
    MaxAge,            \* max_age
    SavesMayFail,      \* may _save_state fail?
    AppendMayFail,     \* may a process go on after a failed append?
    ClockMayStepBack   \* may the wall clock be set back?

ASSUME SpoolAssumption ==
    /\ MaxSamples \in Nat /\ MaxSends \in Nat /\ MaxTime \in Nat
    /\ MaxCorrupt \in Nat /\ MaxLines \in Nat /\ MaxAge \in Nat
    /\ MaxFiles \in Nat \ {0, 1}
    /\ FileLines \in Nat \ {0}
    /\ SavesMayFail \in BOOLEAN /\ AppendMayFail \in BOOLEAN
    /\ ClockMayStepBack \in BOOLEAN

VARIABLES
    files,     \* files[0] is spool.jsonl, files[i] is spool.jsonl.<i>
    disk,      \* the saved state
    mem,       \* the state of the running process
    opened,    \* does a process hold the spool?
    now,       \* the wall clock
    damage,    \* lines damaged so far
    taken,     \* history: samples passed to append
    issued,    \* history: [id, sample] of every record append returned
    ended,     \* history: [sample, how] of every counted terminal state
    sends      \* history: sends[n], posts of sample n

spoolVars == <<files, disk, mem, opened, now, damage, taken, issued, ended,
               sends>>

Samples == 1..MaxSamples
Members == 0..MaxFiles
Fates == {"acked", "quarantined", "expired", "dropped"}

\* "corrupt": a complete line whose id can be recovered; "torn": an incomplete
\* trailing fragment; "merged": a line glued to such a fragment.
Line == [id: Nat, sample: Nat, born: Nat, kind: {"ok", "corrupt", "torn", "merged"}]
Garbage(kind) == [id |-> 0, sample |-> 0, born |-> 0, kind |-> kind]

State == [next: Nat, resolved: Nat, attempts: [Samples -> Nat]]
FreshState == [next |-> 1, resolved |-> 0, attempts |-> [i \in Samples |-> 0]]

-----------------------------------------------------------------------------
(* Reading the chain.                                                      *)

Places(f) == UNION {{<<i, n>> : n \in DOMAIN f[i]} : i \in Members}

LinesOf(f) == {f[p[1]][p[2]] : p \in Places(f)}

Size(f) == Cardinality(Places(f))

\* _record_paths: rotated files descending, then the current one.
Older(p, q) == p[1] > q[1] \/ (p[1] = q[1] /\ p[2] < q[2])

\* _scan_records: ids strictly increase and every line names its id.
Scannable(f) ==
    /\ \A l \in LinesOf(f) : l.kind \in {"ok", "corrupt"}
    /\ \A p, q \in Places(f) :
          Older(p, q) => f[p[1]][p[2]].id < f[q[1]][q[2]].id

\* The records before the oldest unresolved corrupt one.
Deliverable(f, resolved) ==
    {l \in LinesOf(f) :
        /\ l.kind = "ok" /\ l.id > resolved
        /\ \A c \in LinesOf(f) :
              c.kind = "corrupt" /\ c.id > resolved => l.id < c.id}

\* Mutant: a pass posts any deliverable record.
IsHeadAny(l) ==
    /\ Scannable(files)
    /\ l \in Deliverable(files, mem.resolved)

\* The record a delivery pass posts next.
IsHead(l) ==
    /\ Scannable(files)
    /\ l \in Deliverable(files, mem.resolved)
    /\ \A k \in Deliverable(files, mem.resolved) : l.id <= k.id

MaxOf(S) == CHOOSE x \in S : \A y \in S : y <= x
MinOf(S) == CHOOSE x \in S : \A y \in S : x <= y

-----------------------------------------------------------------------------
(* The state file.                                                         *)

\* _save_state_soft: a failure is counted, never fatal.
SaveSoft(s) ==
    \/ disk' = s
    \/ SavesMayFail /\ UNCHANGED disk

-----------------------------------------------------------------------------
(* open                                                                    *)

\* _repair_tail: the one incomplete trailing fragment of the current file.
Repaired(f) ==
    IF f[0] # <<>> /\ Last(f[0]).kind = "torn"
    THEN [f EXCEPT ![0] = Front(f[0])]
    ELSE f

\* _reconcile_ids: the next id is above every id on disk, and only live
\* records keep their retry count.
Reconciled(f, s) ==
    LET ids == {l.id : l \in LinesOf(f)}
        live == {l.id : l \in {k \in LinesOf(f) :
                                 k.kind = "ok" /\ k.id > s.resolved}}
    IN  [s EXCEPT !.next = MaxOf({s.next} \cup {i + 1 : i \in ids}),
                  !.attempts = [i \in Samples |->
                                  IF i \in live THEN s.attempts[i] ELSE 0]]

Open ==
    /\ ~opened
    /\ Scannable(Repaired(files))
    /\ files' = Repaired(files)
    /\ mem' = Reconciled(Repaired(files), disk)
    /\ IF \/ mem'.next # disk.next
          \/ \E l \in LinesOf(files') : l.kind = "corrupt" /\ l.id > mem'.resolved
       THEN SaveSoft(mem')
       ELSE UNCHANGED disk
    /\ opened' = TRUE
    /\ UNCHANGED <<now, damage, taken, issued, ended, sends>>

\* The process ends, by close() or by a crash: only the files survive.
Close ==
    /\ opened
    /\ opened' = FALSE
    /\ mem' = disk
    /\ UNCHANGED <<files, disk, now, damage, taken, issued, ended, sends>>

-----------------------------------------------------------------------------
(* append                                                                  *)

\* _rotate after the renames of the members j..MaxFiles-1: each goes one up,
\* over whatever has that name.
Shifted(f, j) ==
    [t \in Members |->
        IF t < j \/ (t = j /\ j = MaxFiles) THEN f[t]
        ELSE IF t = j THEN <<>>
        ELSE IF t = MaxFiles /\ f[t - 1] = <<>> THEN f[t]
        ELSE f[t - 1]]

\* The oldest member is unlinked and the current one becomes spool.jsonl.1.
Rotated(f) ==
    [Shifted(f, 1) EXCEPT ![MaxFiles] = <<>>, ![1] = f[0], ![0] = <<>>]

NeedsRotation(f) == Len(f[0]) + 1 > FileLines

Room(f) == IF NeedsRotation(f) THEN Rotated(f) ELSE f

\* The bytes of a line go behind whatever the file ends with.
Written(f, l) ==
    IF f[0] # <<>> /\ Last(f[0]).kind = "torn"
    THEN [f EXCEPT ![0] = Append(Front(f[0]),
                             IF l.kind = "torn" THEN l ELSE Garbage("merged"))]
    ELSE [f EXCEPT ![0] = Append(f[0], l)]

NewLine == [id |-> mem.next, sample |-> taken + 1, born |-> now, kind |-> "ok"]

SpoolAppend ==
    /\ opened
    /\ taken < MaxSamples
    /\ files' = Written(Room(files), NewLine)
    /\ mem' = [mem EXCEPT !.next = @ + 1]
    /\ SaveSoft(mem')
    /\ taken' = taken + 1
    /\ issued' = issued \cup {[id |-> mem.next, sample |-> taken + 1]}
    /\ UNCHANGED <<opened, now, damage, ended, sends>>

\* An append that raises or dies: half-way through the rotation, with a torn
\* line, or with a whole line that could not be fsynced.
AppendCut ==
    /\ opened
    /\ taken < MaxSamples
    /\ \/ /\ NeedsRotation(files)
          /\ \E j \in 1..MaxFiles : files' = Shifted(files, j)
       \/ files' = Room(files)
       \/ files' = Written(Room(files), Garbage("torn"))
       \/ files' = Written(Room(files), NewLine)
    /\ opened' \in IF AppendMayFail THEN BOOLEAN ELSE {FALSE}
    /\ mem' = IF opened' THEN mem ELSE disk
    /\ taken' = taken + 1
    /\ UNCHANGED <<disk, now, damage, issued, ended, sends>>

-----------------------------------------------------------------------------
(* note_attempt and resolve, called by deliver_pending for the head.       *)

\* Mutant: the attempt is charged with a save that may fail.
NoteAttemptSoft(l) ==
    /\ opened
    /\ IsHead(l)
    /\ mem.attempts[l.id] < MaxSends
    /\ mem' = [mem EXCEPT !.attempts[l.id] = @ + 1]
    /\ SaveSoft(mem')
    /\ sends' = [sends EXCEPT ![l.sample] = @ + 1]
    /\ UNCHANGED <<files, opened, now, damage, taken, issued, ended>>

\* The hard save comes before the post; if it fails nothing has changed.
NoteAttempt(l) ==
    /\ opened
    /\ IsHead(l)
    /\ mem.attempts[l.id] < MaxSends
    /\ mem' = [mem EXCEPT !.attempts[l.id] = @ + 1]
    /\ disk' = mem'
    /\ sends' = [sends EXCEPT ![l.sample] = @ + 1]
    /\ UNCHANGED <<files, opened, now, damage, taken, issued, ended>>

Resolve(l, how) ==
    /\ opened
    /\ l.id > mem.resolved
    /\ mem' = [mem EXCEPT !.resolved = l.id, !.attempts[l.id] = 0]
    /\ SaveSoft(mem')
    /\ ended' = ended \cup {[sample |-> l.sample, how |-> how]}
    /\ UNCHANGED <<files, opened, now, damage, taken, issued, sends>>

-----------------------------------------------------------------------------
(* enforce_bounds                                                          *)

\* The lines of a member that are not resolved.
Unresolved(s, resolved) == Thinned(s, {n \in DOMAIN s : s[n].id > resolved})

\* Mutant: compaction also removes the first unresolved record.
CompactedOffByOne(f, resolved, k) ==
    [i \in Members |-> IF i >= k THEN Unresolved(f[i], resolved + 1) ELSE f[i]]

\* _compact_resolved on the members from k on, which are rewritten first.
Compacted(f, resolved, k) ==
    [i \in Members |-> IF i >= k THEN Unresolved(f[i], resolved) ELSE f[i]]

\* Age pruning: every deliverable record is looked at, the cursor moves to
\* the last one that is too old.
TooOld(f) == {l \in Deliverable(f, mem.resolved) : now > l.born + MaxAge}

ExpiredTo(f) ==
    IF TooOld(f) = {} THEN mem.resolved ELSE MaxOf({l.id : l \in TooOld(f)})

\* The byte budget: oldest live records are dropped, one by one, until the
\* compacted chain fits.
DroppedBy(f, resolved) ==
    LET live == Deliverable(f, resolved)
        fits == {l \in live : Size(Compacted(f, l.id, 0)) <= MaxLines}
        last == IF fits # {} THEN MinOf({l.id : l \in fits})
                ELSE MaxOf({l.id : l \in live})
    IN  IF Size(f) <= MaxLines \/ live = {} THEN {}
        ELSE {l \in live : l.id <= last}

\* One whole pass.  It is refused when the chain still does not fit; without
\* a live record to drop it ends before the final compaction.
BoundsPass ==
    LET first == Compacted(files, mem.resolved, 0)
        expired == ExpiredTo(first)
        dropped == DroppedBy(first, expired)
        resolved == IF dropped = {} THEN expired
                    ELSE MaxOf({l.id : l \in dropped})
        final == Compacted(first, resolved, 0)
        stuck == Size(first) > MaxLines /\ dropped = {}
    IN  [resolved |-> resolved,
         files |-> IF stuck THEN first ELSE final,
         refused |-> stuck \/ Size(final) > MaxLines,
         ended |-> {[sample |-> l.sample, how |-> "expired"] : l \in TooOld(first)}
                     \cup {[sample |-> l.sample, how |-> "dropped"] : l \in dropped}]

EnforceBounds ==
    /\ opened
    /\ Scannable(files)
    /\ files' = BoundsPass.files
    /\ mem' = [mem EXCEPT !.resolved = BoundsPass.resolved]
    /\ SaveSoft(mem')
    /\ ended' = ended \cup BoundsPass.ended
    /\ UNCHANGED <<opened, now, damage, taken, issued, sends>>

\* A pass that stops between two members of its first or its last compaction.
BoundsCut ==
    /\ opened
    /\ \A l \in LinesOf(files) : l.kind \in {"ok", "corrupt"}
    /\ \E k \in Members :
          \/ /\ files' = Compacted(files, mem.resolved, k)
             /\ UNCHANGED <<mem, disk, ended>>
          \/ /\ Scannable(files)
             /\ ~BoundsPass.refused
             /\ files' = Compacted(Compacted(files, mem.resolved, 0),
                                   BoundsPass.resolved, k)
             /\ mem' = [mem EXCEPT !.resolved = BoundsPass.resolved]
             /\ SaveSoft(mem')
             /\ ended' = ended \cup BoundsPass.ended
    /\ UNCHANGED <<opened, now, damage, taken, issued, sends>>

-----------------------------------------------------------------------------
(* The environment.                                                        *)

\* The storage damages the body of a complete line.
Corrupt ==
    /\ damage < MaxCorrupt
    /\ \E i \in Members : \E n \in DOMAIN files[i] :
          /\ files[i][n].kind = "ok"
          /\ files' = [files EXCEPT ![i][n].kind = "corrupt"]
    /\ damage' = damage + 1
    /\ UNCHANGED <<disk, mem, opened, now, taken, issued, ended, sends>>

Tick ==
    /\ now' \in {now + 1} \cup
          (IF ClockMayStepBack /\ now > 0 THEN {now - 1} ELSE {})
    /\ now' <= MaxTime
    /\ UNCHANGED <<files, disk, mem, opened, damage, taken, issued, ended, sends>>

SpoolInit ==
    /\ files = [i \in Members |-> <<>>]
    /\ disk = FreshState
    /\ mem = FreshState
    /\ opened = FALSE
    /\ now = 0
    /\ damage = 0
    /\ taken = 0
    /\ issued = {}
    /\ ended = {}
    /\ sends = [n \in Samples |-> 0]

\* A delivery pass posts the head and resolves it, or stops.
Deliver ==
    \E l \in LinesOf(files) :
        \/ NoteAttempt(l)
        \/ \E how \in {"acked", "quarantined"} :
              IsHead(l) /\ mem.attempts[l.id] > 0 /\ Resolve(l, how)

SpoolNext ==
    \/ Open \/ Close
    \/ SpoolAppend \/ AppendCut
    \/ Deliver
    \/ EnforceBounds \/ BoundsCut
    \/ Corrupt \/ Tick

SpoolSpec == SpoolInit /\ [][SpoolNext]_spoolVars

-----------------------------------------------------------------------------
(* Properties.                                                             *)

\* The types of the files, of both copies of the state and of the histories.
SpoolTypeOK ==
    /\ files \in [Members -> Seq(Line)]
    /\ disk \in State
    /\ mem \in State
    /\ opened \in BOOLEAN
    /\ now \in 0..MaxTime
    /\ damage \in 0..MaxCorrupt
    /\ taken \in 0..MaxSamples
    /\ issued \in SUBSET [id: Nat, sample: Samples]
    /\ ended \in SUBSET [sample: Samples, how: Fates]
    /\ sends \in [Samples -> Nat]

Chained == {l.sample : l \in LinesOf(files)}
Ended == {e.sample : e \in ended}

\* A durable record leaves the chain only in a counted terminal state, and no
\* pass, restart or half-finished compaction loses another.
LeavesOnlyTerminal ==
    \A r \in issued : r.sample \in Chained \cup Ended

\* "A restart cannot reset a retry budget": what was posted is charged on disk
\* for as long as the record may be posted again.
SendsCharged ==
    \A l \in LinesOf(files) :
        l.kind = "ok" /\ l.id > disk.resolved => sends[l.sample] <= disk.attempts[l.id]
=============================================================================
