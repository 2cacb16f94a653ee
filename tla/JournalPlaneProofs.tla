------------------------- MODULE JournalPlaneProofs -------------------------
(***************************************************************************)
(* The journal evidence plane, for every value of its constants.  The      *)
(* reader: type correctness, recovery never fails closed, and durable      *)
(* exchange files are written once and in order, across process exits and  *)
(* power losses at every durability boundary.  Reader and Monitor: the     *)
(* ingest implements the in-order, exactly-once settlement, through        *)
(* crashes, power losses and a directory that changes under it; and        *)
(* without power losses no journal line is silently missing between two    *)
(* applied files.                                                          *)
(***************************************************************************)
EXTENDS JournalPlane, FiniteSetTheorems, TLAPS

-----------------------------------------------------------------------------
(* The reader.                                                             *)

\* Every exchange file that is, was or may become durable.
AllFiles == exported \cup UNION outImages

\* A directory content the reader itself can have written to state/.
WellFormed(s) ==
    /\ s.committed = NoCommitted => s.pending = NoPending
    /\ s.committed # NoCommitted => s.committed.epoch >= 1
    /\ s.pending # NoPending =>
          /\ s.pending.seq >= 1
          /\ \/ s.pending.seq = s.committed.seq
             \/ /\ s.pending.seq = s.committed.seq + 1
                /\ s.pending.epoch = s.committed.epoch
                /\ s.pending.boundary = s.committed.boundary
                /\ s.pending.pos >= s.committed.pos

\* The two directories agree: no file is more than one ahead of the cursor,
\* and one that is ahead is the file its pending object describes.
Agree(s, o) ==
    \A f \in o :
        /\ s.committed # NoCommitted
        /\ f.seq <= s.committed.seq + 1
        /\ f.seq = s.committed.seq + 1 =>
              /\ s.pending # NoPending
              /\ s.pending.seq = f.seq
              /\ f = FileOf(s)

\* No file, visible or in an image, is ahead of the visible cursor.
NoFileAhead ==
    \A o \in outImages : \A f \in o : f.seq <= state.committed.seq

\* Every pair of images a power loss may combine is a state the recovery
\* table can handle.
ImagesInv ==
    /\ state \in stateImages
    /\ out \in outImages
    /\ \A s \in stateImages : WellFormed(s)
    /\ \A s \in stateImages, o \in outImages : Agree(s, o)
    /\ \A s \in stateImages :
          /\ s.committed.seq <= state.committed.seq
          /\ state.committed.seq <= s.committed.seq + 1
    /\ (\E o \in outImages : \E f \in o : f.seq = state.committed.seq + 1) =>
          stateImages = {state}
    /\ \A o \in outImages : \A f \in o :
          f.seq = state.committed.seq + 1 => f \in out

\* A sequence number names one file.
Unique(F) == \A e, f \in F : e.seq = f.seq => e = f

\* Sequence order is source order.
Ordered(F) ==
    \A e, f \in F :
        e.seq < f.seq =>
            /\ e.epoch <= f.epoch
            /\ e.epoch = f.epoch => e.hi <= f.lo /\ f.boundary = "NONE"

\* A settled file ends at or before the cursor of its epoch.
Behind(F, S) ==
    \A e \in F, s \in S :
        e.seq <= s.committed.seq =>
            /\ e.epoch <= s.committed.epoch
            /\ e.epoch = s.committed.epoch =>
                  e.hi <= s.committed.pos /\ s.committed.boundary = "NONE"

\* A durable file ahead of some cursor image is in every image of out/.
Kept(E, S, O) ==
    \A e \in E, s \in S :
        /\ s.committed # NoCommitted
        /\ e.seq <= s.committed.seq + 1
        /\ e.seq = s.committed.seq + 1 => \A o \in O : e \in o

HistoryInv ==
    /\ Kept(exported, stateImages, outImages)
    /\ Unique(AllFiles)
    /\ Ordered(AllFiles)
    /\ Behind(AllFiles, stateImages)

\* The visible pending object is the batch after the cursor.
Ahead == state.pending # NoPending /\ state.pending.seq = state.committed.seq + 1
Settled == state.pending = NoPending

\* What holds at each durability boundary.
ControlInv ==
    /\ pc = "activate" => state.committed = NoCommitted
    /\ pc \notin {"down", "activate"} => state.committed # NoCommitted
    /\ pc \notin {"down", "recover", "ev_sync", "commit"} => NoFileAhead
    /\ pc \in {"pending_sync", "ev_write", "ev_sync", "commit", "recover"} => Ahead
    /\ pc \in {"recover", "ev_sync", "commit"} => FileOf(state) \in out
    /\ pc \in {"ev_write", "ev_sync", "commit"} => stateImages = {state}
    /\ pc \in {"activate_sync", "recover_unlink_sync", "stale_unlink_sync",
               "settle_unlink_sync", "reset_unlink_sync", "reset_commit",
               "reset_sync", "retention", "retention_dirty", "ready",
               "heartbeat"} => Settled

IInv ==
    /\ TypeOK
    /\ ImagesInv
    /\ HistoryInv
    /\ ControlInv

-----------------------------------------------------------------------------
(* Type correctness.                                                       *)

\* The anchors a start-up or a reset may capture are well typed.
LEMMA AnchorTypes ==
    ASSUME TypeOK
    PROVE  \A a \in Anchors : a.pos \in Nat /\ a.mode \in {"cursor", "since"}
<1>1. Len(journal) \in Nat
  BY DEF TypeOK
<1>2. QED
  BY <1>1 DEF Anchors

\* The initial state is well typed.
LEMMA InitTypes == Init => TypeOK
<1> SUFFICES ASSUME Init
             PROVE  TypeOK
  OBVIOUS
<1>1. journal \in Seq(Kinds)
  <2>1. <<>> \in Seq(Kinds) /\ \A k \in Kinds : <<k>> \in Seq(Kinds)
    OBVIOUS
  <2>2. QED
    BY <2>1 DEF Init
<1>2. state \in [committed: Committed, pending: Pending]
  BY DEF Init, Committed, Pending, Boundaries, NoCommitted, NoPending
<1>3. QED
  BY <1>1, <1>2 DEF Init, TypeOK, PCs

\* Every value of the reader's state stays in its type.
THEOREM TypeCorrect == Spec => []TypeOK
<1> USE DEF Committed, Pending, ExchangeFile, Boundaries, NoCommitted, NoPending
<1>1. Init => TypeOK
  BY InitTypes
<1>2. TypeOK /\ [Next]_vars => TypeOK'
  <2> SUFFICES ASSUME TypeOK, [Next]_vars
               PROVE  TypeOK'
    OBVIOUS
  <2>1. CASE UNCHANGED vars
    BY <2>1 DEF vars, TypeOK
  <2>2. CASE Recorded(ProcessNext)
    <3>1. DurableFiles' \subseteq out'
      BY DEF DurableFiles
    <3>2. out' \in SUBSET ExchangeFile => exported' \in SUBSET ExchangeFile
      BY <2>2, <3>1 DEF Recorded, TypeOK
    <3>3. CASE Start
      <4>1. /\ stateImages' \in SUBSET [committed: Committed, pending: Pending]
            /\ outImages' \in SUBSET (SUBSET ExchangeFile)
        BY <3>3 DEF Start, CleanScratch, TypeOK
      <4>2. pc' \in PCs
        BY <3>3 DEF Start, PCs, AfterUnlink
      <4>3. QED
        BY <4>1, <4>2, <3>3, <3>2, SMTT(60) DEF Start, CleanScratch, TypeOK
    <3>4. CASE Activate
      <4>1. PICK a \in Anchors :
              state' = [state EXCEPT !.committed =
                          [seq |-> 0, epoch |-> 1, boundary |-> "COLD_START",
                           mode |-> a.mode, pos |-> a.pos]]
        BY <3>4 DEF Activate
      <4>2. state' \in [committed: Committed, pending: Pending]
        BY <4>1, AnchorTypes, ZenonT(60) DEF TypeOK
      <4>3. QED
        BY <4>2, <3>4, <3>2, ZenonT(60) DEF Activate, TypeOK, PCs, AfterStateSync
    <3>5. CASE StateSync
      BY <3>5, <3>2, SMTT(60) DEF StateSync, TypeOK, PCs, AfterStateSync, AfterUnlink
    <3>6. CASE UnlinkPending
      BY <3>6, <3>2, SMTT(60) DEF UnlinkPending, TypeOK, PCs, AfterStateSync, AfterUnlink
    <3>7. CASE PollBatch
      <4>1. PICK hi \in (state.committed.pos + 1)..Len(journal) :
              state' = [state EXCEPT !.pending = MakePending(state.committed, hi)]
        BY <3>7 DEF PollBatch
      <4>2. hi \in Nat
        BY <4>1 DEF TypeOK
      <4>3. state' \in [committed: Committed, pending: Pending]
        BY <4>1, <4>2, SMTT(60) DEF TypeOK, MakePending
      <4>4. QED
        BY <4>3, <3>7, <3>2, ZenonT(60) DEF PollBatch, TypeOK, PCs, AfterStateSync
    <3>8. CASE PollEmpty
      BY <3>8, <3>2 DEF PollEmpty, TypeOK
    <3>9. CASE WriteExchangeFile
      BY <3>9, <3>2, SMTT(60) DEF WriteExchangeFile, FileOf, TypeOK, PCs
    <3>10. CASE SyncExchangeFile
      BY <3>10, <3>2 DEF SyncExchangeFile, TypeOK, PCs
    <3>11. CASE WriteCommitted
      BY <3>11, <3>2, SMTT(60) DEF WriteCommitted, Step4Committed, TypeOK, PCs, AfterStateSync
    <3>12. CASE WriteHeartbeat
      BY <3>12, <3>2, ZenonT(60) DEF WriteHeartbeat, TypeOK, PCs
    <3>13. CASE Evict
      BY <3>13, <3>2, SMTT(60) DEF Evict, TypeOK, PCs
    <3>14. CASE RetentionDone
      BY <3>14, <3>2, ZenonT(60) DEF RetentionDone, TypeOK, PCs
    <3>15. CASE ResetBegin
      BY <3>15, <3>2, ZenonT(60) DEF ResetBegin, CleanScratch, TypeOK, PCs, AfterUnlink
    <3>16. CASE ResetCommit
      <4>1. PICK a \in Anchors :
              state' = [state EXCEPT !.committed =
                          [seq |-> state.committed.seq,
                           epoch |-> state.committed.epoch + 1,
                           boundary |-> "SOURCE_GAP",
                           mode |-> a.mode, pos |-> a.pos]]
        BY <3>16 DEF ResetCommit
      <4> DEFINE c == [seq |-> state.committed.seq,
                       epoch |-> state.committed.epoch + 1,
                       boundary |-> "SOURCE_GAP",
                       mode |-> a.mode, pos |-> a.pos]
      <4>a. c \in Committed
        <5>1. state.committed \in Committed
          BY DEF TypeOK
        <5>2. a.pos \in Nat /\ a.mode \in {"cursor", "since"}
          BY AnchorTypes
        <5>3. state.committed.seq \in Nat /\ state.committed.epoch + 1 \in Nat
          BY <5>1
        <5>4. QED
          BY <5>2, <5>3
      <4>2. state' \in [committed: Committed, pending: Pending]
        BY <4>1, <4>a DEF TypeOK
      <4>3. QED
        BY <4>2, <3>16, <3>2 DEF ResetCommit, TypeOK, PCs, AfterStateSync
    <3>17. CASE \E k \in Kinds : Log(k)
      BY <3>17, <3>2 DEF Log, TypeOK
    <3>18. CASE Exit
      BY <3>18, <3>2 DEF Exit, ScratchAt, TypeOK, PCs
    <3>19. QED
      BY <2>2, <3>3, <3>4, <3>5, <3>6, <3>7, <3>8, <3>9, <3>10, <3>11, <3>12,
         <3>13, <3>14, <3>15, <3>16, <3>17, <3>18
         DEF Recorded, ProcessNext, ReaderStep
  <2>3. CASE Recorded(PowerLoss)
    <3>1. PowerLoss /\ DurableFiles' \subseteq out'
      BY <2>3 DEF Recorded, DurableFiles
    <3>2. /\ state' \in [committed: Committed, pending: Pending]
          /\ out' \in SUBSET ExchangeFile
      BY <3>1 DEF PowerLoss, TypeOK
    <3>3. QED
      BY <2>3, <3>1, <3>2 DEF Recorded, PowerLoss, TypeOK, PCs
  <2>4. QED
    BY <2>1, <2>2, <2>3 DEF Next
<1>3. QED
  BY <1>1, <1>2, PTL DEF Spec

-----------------------------------------------------------------------------
(* The inductive invariant.                                                *)

\* The numbers in the images and files are naturals.
LEMMA ImageTypes ==
    ASSUME TypeOK
    PROVE  /\ \A s \in stateImages \cup {state} :
                 /\ s.committed.seq \in Nat
                 /\ s.committed.epoch \in Nat
                 /\ s.committed.pos \in Nat
                 /\ s.pending.seq \in Nat
                 /\ s.pending.epoch \in Nat
                 /\ s.pending.pos \in Nat
           /\ \A e \in AllFiles \cup out :
                 /\ e.seq \in Nat
                 /\ e.epoch \in Nat
                 /\ e.lo \in Nat
                 /\ e.hi \in Nat
<1>1. \A s \in stateImages \cup {state} :
         s.committed \in Committed /\ s.pending \in Pending
  BY DEF TypeOK
<1>2. \A e \in AllFiles \cup out : e \in ExchangeFile
  BY DEF TypeOK, AllFiles
<1>3. QED
  BY <1>1, <1>2 DEF Committed, Pending, ExchangeFile

\* Fewer files and fewer images satisfy the same conditions.
LEMMA FewerFiles ==
    ASSUME NEW F, NEW G \in SUBSET F, NEW S, NEW T \in SUBSET S,
           Unique(F), Ordered(F), Behind(F, S)
    PROVE  Unique(G) /\ Ordered(G) /\ Behind(G, T)
<1>1. Unique(G)
  BY DEF Unique
<1>2. Ordered(G)
  BY DEF Ordered
<1>3. Behind(G, T)
  BY DEF Behind
<1>4. QED
  BY <1>1, <1>2, <1>3

\* What becomes durable in a step keeps the history invariant.
LEMMA RecordHistory ==
    ASSUME TypeOK', ImagesInv',
           exported' = exported \cup DurableFiles',
           Kept(exported, stateImages', outImages'),
           Unique(exported \cup UNION outImages'),
           Ordered(exported \cup UNION outImages'),
           Behind(exported \cup UNION outImages', stateImages')
    PROVE  HistoryInv'
<1>1. DurableFiles' \subseteq UNION outImages'
  BY DEF DurableFiles, ImagesInv
<1>2. AllFiles' \in SUBSET (exported \cup UNION outImages')
  BY <1>1 DEF AllFiles
<1>2a. Unique(AllFiles') /\ Ordered(AllFiles') /\ Behind(AllFiles', stateImages')
  <2> DEFINE F == exported \cup UNION outImages'
  <2>1. Unique(F) /\ Ordered(F) /\ Behind(F, stateImages')
    OBVIOUS
  <2>2. AllFiles' \in SUBSET F
    BY <1>2
  <2> HIDE DEF F
  <2>3. QED
    BY <2>1, <2>2, FewerFiles
<1>3. Kept(DurableFiles', stateImages', outImages')
  BY DEF Kept, DurableFiles, ImagesInv, Agree
<1>4. Kept(exported', stateImages', outImages')
  BY <1>3 DEF Kept
<1>5. QED
  BY <1>2a, <1>4 DEF HistoryInv

\* A step that only forgets images (an fsync, or a step that touches neither
\* directory) keeps the invariant of the images and of the history.
LEMMA Forget ==
    ASSUME IInv, TypeOK',
           state' = state, out' = out,
           stateImages' \in SUBSET stateImages, state \in stateImages',
           outImages' \in SUBSET outImages, out \in outImages',
           exported' = exported \cup DurableFiles'
    PROVE  ImagesInv' /\ HistoryInv'
<1>1. ImagesInv'
  <2>1. \A s \in stateImages', o \in outImages' : Agree(s, o)
    BY DEF IInv, ImagesInv
  <2>2. QED
    BY <2>1 DEF IInv, ImagesInv, WellFormed
<1>2. exported \cup UNION outImages' \in SUBSET AllFiles
  BY DEF AllFiles
<1>3. Kept(exported, stateImages', outImages')
  BY DEF IInv, HistoryInv, Kept
<1>4. /\ Unique(exported \cup UNION outImages')
      /\ Ordered(exported \cup UNION outImages')
      /\ Behind(exported \cup UNION outImages', stateImages')
  BY <1>2, FewerFiles DEF IInv, HistoryInv
<1>5. QED
  BY <1>1, <1>3, <1>4, RecordHistory

\* A power loss falls back to a pair of images that agree.
LEMMA FallBack ==
    ASSUME IInv, TypeOK', Recorded(PowerLoss)
    PROVE  ImagesInv' /\ HistoryInv'
<1>1. /\ state' \in stateImages /\ stateImages' = {state'}
      /\ out' \in outImages /\ outImages' = {out'}
      /\ exported' = exported \cup DurableFiles'
  BY DEF Recorded, PowerLoss
<1>2. ImagesInv'
  <2>1. Agree(state', out') /\ WellFormed(state')
    BY <1>1 DEF IInv, ImagesInv
  <2>2. state'.committed.seq \in Nat
    BY ImageTypes, <1>1 DEF IInv
  <2>3. QED
    BY <1>1, <2>1, <2>2 DEF ImagesInv
<1>3. exported \cup UNION outImages' \in SUBSET AllFiles
  BY <1>1 DEF AllFiles
<1>4. Kept(exported, stateImages', outImages')
  BY <1>1 DEF IInv, HistoryInv, Kept
<1>5. /\ Unique(exported \cup UNION outImages')
      /\ Ordered(exported \cup UNION outImages')
      /\ Behind(exported \cup UNION outImages', stateImages')
  <2>1. stateImages' \in SUBSET stateImages
    BY <1>1
  <2>2. QED
    BY <1>3, <2>1, FewerFiles DEF IInv, HistoryInv
<1>6. QED
  BY <1>1, <1>2, <1>4, <1>5, RecordHistory

\* Replacing an object of state/ adds an image: it is enough to look at the
\* new image and at the old ones that must not fall too far behind.
LEMMA Replace ==
    ASSUME IInv, TypeOK',
           stateImages' = stateImages \cup {state'},
           out' = out, outImages' = outImages,
           exported' = exported \cup DurableFiles',
           WellFormed(state'),
           \A o \in outImages : Agree(state', o),
           \A s \in stateImages :
              /\ s.committed.seq <= state'.committed.seq
              /\ state'.committed.seq <= s.committed.seq + 1,
           \A o \in outImages : \A f \in o : f.seq # state'.committed.seq + 1,
           state'.committed # NoCommitted,
           exported # {} => state.committed.seq <= state'.committed.seq,
           Behind(AllFiles, {state'})
    PROVE  ImagesInv' /\ HistoryInv'
<1>1. state'.committed.seq \in Nat /\ state.committed.seq \in Nat
  BY DEF IInv, TypeOK, Committed
<1>2. ImagesInv'
  <2>1. \A s \in stateImages' : WellFormed(s)
    BY DEF IInv, ImagesInv
  <2>2. \A s \in stateImages', o \in outImages' : Agree(s, o)
    BY DEF IInv, ImagesInv
  <2>3. \A s \in stateImages' :
          /\ s.committed.seq <= state'.committed.seq
          /\ state'.committed.seq <= s.committed.seq + 1
    BY <1>1
  <2>4. QED
    BY <2>1, <2>2, <2>3 DEF IInv, ImagesInv
<1>3. exported \cup UNION outImages' \in SUBSET AllFiles
  BY DEF AllFiles
<1>4. Kept(exported, stateImages', outImages')
  <2>1. \A e \in exported :
          /\ e.seq <= state'.committed.seq + 1
          /\ e.seq # state'.committed.seq + 1
    <3> SUFFICES ASSUME NEW e \in exported
                 PROVE  e.seq <= state'.committed.seq + 1
                        /\ e.seq # state'.committed.seq + 1
      OBVIOUS
    <3>1. e.seq \in Nat
      BY ImageTypes DEF IInv, AllFiles
    <3>2. e.seq <= state.committed.seq + 1
      BY DEF IInv, ImagesInv, HistoryInv, Kept
    <3>3. CASE e.seq = state'.committed.seq + 1
      <4>1. e.seq = state.committed.seq + 1
        BY <3>1, <3>2, <3>3, <1>1
      <4>2. e \in out
        BY <4>1 DEF IInv, ImagesInv, HistoryInv, Kept
      <4>3. QED
        BY <4>2, <3>3 DEF IInv, ImagesInv
    <3>4. QED
      BY <1>1, <3>1, <3>2, <3>3
  <2>2. QED
    BY <2>1 DEF IInv, HistoryInv, Kept
<1>5. Behind(AllFiles, stateImages')
  BY DEF IInv, HistoryInv, Behind
<1>6. /\ Unique(exported \cup UNION outImages')
      /\ Ordered(exported \cup UNION outImages')
      /\ Behind(exported \cup UNION outImages', stateImages')
  BY <1>3, <1>5, FewerFiles DEF IInv, HistoryInv
<1>7. QED
  BY <1>2, <1>4, <1>6, RecordHistory
\* The five writes to state/ meet the conditions of Replace.
LEMMA ReplaceSteps ==
    ASSUME IInv, TypeOK', exported' = exported \cup DurableFiles',
           \/ Activate \/ UnlinkPending \/ PollBatch \/ WriteCommitted
           \/ ResetCommit
    PROVE  ImagesInv' /\ HistoryInv'
<1> DEFINE c == state.committed
           p == state.pending
<1>0. /\ TypeOK
      /\ c \in Committed /\ p \in Pending
      /\ state = [committed |-> c, pending |-> p]
      /\ state \in stateImages /\ out \in outImages
      /\ stateImages' = stateImages \cup {state'}
      /\ out' = out /\ outImages' = outImages
  BY DEF IInv, TypeOK, ImagesInv, Activate, UnlinkPending, PollBatch,
         WriteCommitted, ResetCommit
<1>0a. /\ c.seq \in Nat /\ c.epoch \in Nat /\ c.pos \in Nat
       /\ p.seq \in Nat /\ p.epoch \in Nat /\ p.pos \in Nat
  BY <1>0 DEF Committed, Pending
<1>0b. /\ \A s \in stateImages : s.committed.seq \in Nat
       /\ \A e \in AllFiles : e.seq \in Nat /\ e.epoch \in Nat /\ e.hi \in Nat
  BY <1>0, ImageTypes
<1>0c. \A s \in stateImages :
          s.committed.seq <= c.seq /\ c.seq <= s.committed.seq + 1
  BY DEF IInv, ImagesInv
<1>1. CASE Activate
  <2>1. PICK a \in Anchors :
          state' = [state EXCEPT !.committed =
                      [seq |-> 0, epoch |-> 1, boundary |-> "COLD_START",
                       mode |-> a.mode, pos |-> a.pos]]
    BY <1>1 DEF Activate
  <2>2. c = NoCommitted
    BY <1>1 DEF Activate, IInv, ControlInv
  <2>3. AllFiles = {}
    BY <2>2, <1>0 DEF AllFiles, IInv, ImagesInv, Agree, HistoryInv, Kept
  <2>4. /\ state'.committed.seq = 0 /\ state'.committed.epoch = 1
        /\ state'.pending = p
    BY <2>1, <1>0
  <2>5. p = NoPending
    BY <2>2, <1>0 DEF IInv, ImagesInv, WellFormed
  <2>6. state'.committed # NoCommitted
    BY <2>4 DEF NoCommitted
  <2>7. WellFormed(state')
    BY <2>4, <2>5, <2>6 DEF WellFormed
  <2>8. /\ \A o \in outImages : Agree(state', o)
        /\ \A o \in outImages : \A f \in o : f.seq # state'.committed.seq + 1
        /\ Behind(AllFiles, {state'})
        /\ exported = {}
    BY <2>3 DEF Agree, Behind, AllFiles
  <2>9. \A s \in stateImages :
          /\ s.committed.seq <= state'.committed.seq
          /\ state'.committed.seq <= s.committed.seq + 1
    BY <2>2, <2>4, <1>0b, <1>0c DEF NoCommitted
  <2>10. QED
    BY <1>0, <2>6, <2>7, <2>8, <2>9, Replace
<1>2. CASE UnlinkPending
  <2>1. state' = [committed |-> c, pending |-> NoPending]
    BY <1>2, <1>0 DEF UnlinkPending
  <2>2. NoFileAhead /\ c # NoCommitted
    BY <1>2 DEF UnlinkPending, AfterUnlink, IInv, ControlInv
  <2>3. WellFormed(state')
    BY <2>1, <2>2, <1>0 DEF WellFormed, IInv, ImagesInv
  <2>4. /\ \A o \in outImages : Agree(state', o)
        /\ \A o \in outImages : \A f \in o : f.seq # state'.committed.seq + 1
    BY <2>1, <2>2, <1>0, <1>0a, <1>0b DEF Agree, NoFileAhead, AllFiles
  <2>5. Behind(AllFiles, {state'})
    BY <2>1, <1>0 DEF Behind, IInv, HistoryInv
  <2>6. QED
    BY <1>0, <1>0a, <1>0c, <2>1, <2>2, <2>3, <2>4, <2>5, Replace
<1>3. CASE PollBatch
  <2>1. PICK hi \in (c.pos + 1)..Len(journal) :
          state' = [committed |-> c, pending |-> MakePending(c, hi)]
    BY <1>3, <1>0 DEF PollBatch
  <2>2. NoFileAhead /\ c # NoCommitted
    BY <1>3 DEF PollBatch, IInv, ControlInv
  <2>2a. hi \in Nat /\ hi >= c.pos
    BY <1>0, <1>0a, <2>1 DEF TypeOK
  <2>3. WellFormed(state')
    <3>1. c.epoch >= 1
      BY <2>2, <1>0 DEF WellFormed, IInv, ImagesInv
    <3>2. QED
      BY <2>1, <2>2, <2>2a, <3>1, <1>0a DEF WellFormed, MakePending
  <2>4. /\ \A o \in outImages : Agree(state', o)
        /\ \A o \in outImages : \A f \in o : f.seq # state'.committed.seq + 1
    BY <2>1, <2>2, <1>0, <1>0a, <1>0b, SMTT(60) DEF Agree, NoFileAhead, AllFiles
  <2>5. Behind(AllFiles, {state'})
    BY <2>1, <1>0 DEF Behind, IInv, HistoryInv
  <2>6. QED
    BY <1>0, <1>0a, <1>0c, <2>1, <2>2, <2>3, <2>4, <2>5, Replace
<1>4. CASE WriteCommitted
  <2>1. state' = [committed |-> Step4Committed(p), pending |-> p]
    BY <1>4, <1>0 DEF WriteCommitted
  <2>2. Ahead /\ FileOf(state) \in out /\ c # NoCommitted
    BY <1>4 DEF WriteCommitted, IInv, ControlInv
  <2>3. stateImages = {state}
    <3>1. FileOf(state).seq = c.seq + 1
      BY <2>2 DEF FileOf, Ahead
    <3>2. QED
      BY <3>1, <2>2, <1>0 DEF IInv, ImagesInv
  <2>4. /\ p # NoPending /\ p.seq = c.seq + 1
        /\ p.epoch = c.epoch /\ p.pos >= c.pos /\ c.epoch >= 1
    BY <2>2, <1>0, <1>0a DEF Ahead, WellFormed, IInv, ImagesInv
  <2>5. /\ state'.committed.seq = c.seq + 1 /\ state'.committed.epoch = c.epoch
        /\ state'.committed.pos = p.pos /\ state'.committed.boundary = "NONE"
        /\ state'.pending = p
    BY <2>1, <2>4 DEF Step4Committed
  <2>6. state'.committed # NoCommitted
    BY <2>5, <2>4, <1>0a DEF NoCommitted
  <2>7. WellFormed(state')
    BY <2>4, <2>5, <2>6, <1>0a DEF WellFormed
  <2>8. \A o \in outImages : \A f \in o : f.seq <= c.seq + 1 /\ f.seq \in Nat
    BY <1>0, <1>0b DEF IInv, ImagesInv, Agree, AllFiles
  <2>9. /\ \A o \in outImages : Agree(state', o)
        /\ \A o \in outImages : \A f \in o : f.seq # state'.committed.seq + 1
    BY <2>5, <2>6, <2>8, <1>0a DEF Agree
  <2>10. \A s \in stateImages :
          /\ s.committed.seq <= state'.committed.seq
          /\ state'.committed.seq <= s.committed.seq + 1
    BY <2>3, <2>5, <1>0a
  <2>11. \A e \in AllFiles : e.seq = c.seq + 1 => e = FileOf(state)
    BY <1>0 DEF AllFiles, IInv, ImagesInv, Agree, HistoryInv, Kept
  <2>12. Behind(AllFiles, {state'})
    <3> SUFFICES ASSUME NEW e \in AllFiles, e.seq <= c.seq + 1
                 PROVE  /\ e.epoch <= c.epoch
                        /\ e.epoch = c.epoch => e.hi <= p.pos
      BY <2>5 DEF Behind
    <3>1. CASE e.seq = c.seq + 1
      BY <3>1, <2>11, <2>4, <1>0a DEF FileOf
    <3>2. CASE e.seq # c.seq + 1
      <4>1. e.seq <= c.seq
        BY <3>2, <1>0a, <1>0b
      <4>2. e.epoch <= c.epoch /\ (e.epoch = c.epoch => e.hi <= c.pos)
        BY <4>1, <1>0 DEF Behind, IInv, HistoryInv
      <4>3. QED
        BY <4>2, <2>4, <1>0a, <1>0b
    <3>3. QED
      BY <3>1, <3>2
  <2>13. QED
    BY <1>0, <1>0a, <2>5, <2>6, <2>7, <2>9, <2>10, <2>12, Replace
<1>5. CASE ResetCommit
  <2>1. PICK a \in Anchors :
          state' = [state EXCEPT !.committed =
                      [seq |-> c.seq, epoch |-> c.epoch + 1,
                       boundary |-> "SOURCE_GAP",
                       mode |-> a.mode, pos |-> a.pos]]
    BY <1>5 DEF ResetCommit
  <2>2. NoFileAhead /\ p = NoPending
    BY <1>5 DEF ResetCommit, IInv, ControlInv, Settled
  <2>3. /\ state'.committed.seq = c.seq /\ state'.committed.epoch = c.epoch + 1
        /\ state'.pending = NoPending
    BY <2>1, <2>2, <1>0
  <2>4. state'.committed # NoCommitted /\ WellFormed(state')
    BY <2>3, <1>0a DEF WellFormed, NoCommitted
  <2>5. /\ \A o \in outImages : Agree(state', o)
        /\ \A o \in outImages : \A f \in o : f.seq # state'.committed.seq + 1
    BY <2>2, <2>3, <2>4, <1>0, <1>0a, <1>0b DEF Agree, NoFileAhead, AllFiles
  <2>6. Behind(AllFiles, {state'})
    <3> SUFFICES ASSUME NEW e \in AllFiles, e.seq <= c.seq
                 PROVE  /\ e.epoch <= c.epoch + 1
                        /\ e.epoch # c.epoch + 1
      BY <2>3 DEF Behind
    <3>1. e.epoch <= c.epoch
      BY <1>0 DEF Behind, IInv, HistoryInv
    <3>2. QED
      BY <3>1, <1>0a, <1>0b
  <2>7. QED
    BY <1>0, <1>0a, <1>0c, <2>3, <2>4, <2>5, <2>6, Replace
<1>6. QED
  BY <1>1, <1>2, <1>3, <1>4, <1>5
\* Publishing ev-<seq> puts the first file ahead of the cursor.
LEMMA PublishStep ==
    ASSUME IInv, TypeOK', exported' = exported \cup DurableFiles',
           WriteExchangeFile
    PROVE  ImagesInv' /\ HistoryInv'
<1> DEFINE c == state.committed
           p == state.pending
           n == FileOf(state)
<1>0. /\ TypeOK
      /\ c \in Committed /\ p \in Pending
      /\ state' = state /\ stateImages' = stateImages
      /\ outImages' = outImages \cup {out'}
      /\ state \in stateImages /\ out \in outImages
  BY DEF IInv, TypeOK, ImagesInv, WriteExchangeFile
<1>1. /\ c.seq \in Nat /\ c.epoch \in Nat /\ c.pos \in Nat
      /\ p.seq \in Nat /\ p.epoch \in Nat /\ p.pos \in Nat
  BY <1>0 DEF Committed, Pending
<1>2. \A e \in AllFiles : e.seq \in Nat /\ e.epoch \in Nat /\ e.hi \in Nat
  BY <1>0, ImageTypes
<1>3. /\ Ahead /\ NoFileAhead /\ c # NoCommitted
      /\ stateImages = {state}
  BY DEF WriteExchangeFile, IInv, ControlInv
<1>4. /\ p # NoPending /\ p.seq = c.seq + 1 /\ p.epoch = c.epoch
      /\ p.boundary = c.boundary
  BY <1>0, <1>1, <1>3 DEF Ahead, IInv, ImagesInv, WellFormed
<1>5. /\ n.seq = c.seq + 1 /\ n.epoch = c.epoch /\ n.lo = c.pos
      /\ n.boundary = c.boundary
  BY <1>4 DEF FileOf
<1>6. \A e \in AllFiles : e.seq <= c.seq
  <2> SUFFICES ASSUME NEW e \in AllFiles
               PROVE  e.seq <= c.seq
    OBVIOUS
  <2>1. CASE e \in UNION outImages
    BY <2>1, <1>3 DEF NoFileAhead
  <2>2. CASE e \in exported
    <3>1. e.seq <= c.seq + 1 /\ (e.seq = c.seq + 1 => e \in out)
      BY <2>2, <1>0 DEF IInv, HistoryInv, Kept
    <3>2. e \in out => e.seq <= c.seq
      BY <1>0, <1>3 DEF NoFileAhead
    <3>3. QED
      BY <3>1, <3>2, <1>1, <1>2
  <2>3. QED
    BY <2>1, <2>2 DEF AllFiles
<1>7. out' \in SUBSET (out \cup {n}) /\ n \in out'
  BY DEF WriteExchangeFile
<1>8. \A o \in outImages : \A f \in o : f.seq <= c.seq /\ f.seq \in Nat
  BY <1>6, <1>2 DEF AllFiles
<1>9. ImagesInv'
  <2>1. Agree(state, out')
    BY <1>0, <1>1, <1>3, <1>4, <1>5, <1>7, <1>8 DEF Agree
  <2>2. \A s \in stateImages', o \in outImages' : Agree(s, o)
    BY <2>1, <1>0, <1>3 DEF IInv, ImagesInv
  <2>3. \A o \in outImages' : \A f \in o :
           f.seq = c.seq + 1 => f \in out'
    BY <1>0, <1>1, <1>8
  <2>4. QED
    BY <2>2, <2>3, <1>0, <1>1, <1>3 DEF IInv, ImagesInv
<1>10. Kept(exported, stateImages', outImages')
  BY <1>0, <1>1, <1>2, <1>3, <1>6 DEF Kept, AllFiles
<1> DEFINE G == AllFiles \cup {n}
<1>11. exported \cup UNION outImages' \in SUBSET G
  BY <1>0, <1>7 DEF AllFiles
<1>12. Unique(G)
  <2>1. Unique(AllFiles) /\ \A e \in AllFiles : e.seq # n.seq
    BY <1>1, <1>2, <1>5, <1>6 DEF IInv, HistoryInv
  <2> HIDE DEF n
  <2>2. QED
    BY <2>1 DEF Unique
<1>13. \A e \in AllFiles :
          /\ e.epoch <= n.epoch
          /\ e.epoch = n.epoch => e.hi <= n.lo /\ n.boundary = "NONE"
  BY <1>0, <1>5, <1>6 DEF IInv, HistoryInv, Behind
<1>14. Ordered(G)
  <2>1. \A e \in AllFiles : ~(n.seq < e.seq)
    BY <1>1, <1>2, <1>5, <1>6
  <2>2. ~(n.seq < n.seq)
    BY <1>1, <1>5
  <2>3. Ordered(AllFiles)
    BY DEF IInv, HistoryInv
  <2> HIDE DEF n
  <2>4. QED
    BY <2>1, <2>2, <2>3, <1>13 DEF Ordered
<1>15. Behind(G, stateImages)
  <2>1. ~(n.seq <= c.seq)
    BY <1>1, <1>5
  <2>2. Behind(AllFiles, stateImages)
    BY DEF IInv, HistoryInv
  <2> HIDE DEF n
  <2>3. QED
    BY <2>1, <2>2, <1>3 DEF Behind
<1>16. /\ Unique(exported \cup UNION outImages')
       /\ Ordered(exported \cup UNION outImages')
       /\ Behind(exported \cup UNION outImages', stateImages')
  <2> HIDE DEF G
  <2>1. stateImages' \in SUBSET stateImages
    BY <1>0
  <2>2. QED
    BY <2>1, <1>11, <1>12, <1>14, <1>15, FewerFiles
<1>17. QED
  BY <1>9, <1>10, <1>16, RecordHistory

\* The retention removes the oldest of at least two files, so never the one
\* that an old cursor image may still need.
LEMMA EvictStep ==
    ASSUME IInv, TypeOK', exported' = exported \cup DurableFiles', Evict
    PROVE  ImagesInv' /\ HistoryInv'
<1> DEFINE c == state.committed
<1>0. /\ TypeOK
      /\ c \in Committed
      /\ state' = state /\ stateImages' = stateImages
      /\ outImages' = outImages \cup {out'}
      /\ state \in stateImages /\ out \in outImages
  BY DEF IInv, TypeOK, ImagesInv, Evict
<1>1. c.seq \in Nat
  BY <1>0 DEF Committed
<1>2. /\ \A e \in AllFiles : e.seq \in Nat
      /\ \A s \in stateImages : s.committed.seq \in Nat
  BY <1>0, ImageTypes
<1>3. NoFileAhead
  BY DEF Evict, IInv, ControlInv
<1>4. PICK f \in out : /\ \A g \in out : f.seq <= g.seq
                       /\ out' = out \ {f}
  BY DEF Evict
<1>5. f.seq < c.seq
  <2>1. \E g \in out : g # f
    <3>1. CASE out = {f}
      <4>1. Cardinality(out) = 1
        BY <3>1, FS_Singleton
      <4>2. QED
        BY <4>1, ReaderAssumption DEF Evict, OverBound
    <3>2. QED
      BY <3>1
  <2>2. PICK g \in out : g # f
    BY <2>1
  <2>3. g.seq # f.seq
    BY <2>2, <1>0 DEF IInv, HistoryInv, Unique, AllFiles
  <2>4. g.seq <= c.seq /\ f.seq <= g.seq
    BY <1>0, <1>3, <1>4 DEF NoFileAhead
  <2>5. f.seq \in Nat /\ g.seq \in Nat
    BY <1>0, <1>2 DEF AllFiles
  <2>6. QED
    BY <2>3, <2>4, <2>5, <1>1
<1>6. ImagesInv'
  <2>1. \A s \in stateImages : Agree(s, out')
    BY <1>0, <1>4 DEF IInv, ImagesInv, Agree
  <2>2. \A s \in stateImages', o \in outImages' : Agree(s, o)
    BY <2>1, <1>0 DEF IInv, ImagesInv
  <2>3. \A o \in outImages' : \A g \in o :
           g.seq <= c.seq /\ g.seq \in Nat
    BY <1>0, <1>2, <1>3, <1>4 DEF NoFileAhead, AllFiles
  <2>4. \A o \in outImages' : \A g \in o : g.seq # c.seq + 1
    BY <2>3, <1>1
  <2>5. QED
    BY <2>2, <2>4, <1>0 DEF IInv, ImagesInv
<1>7. Kept(exported, stateImages', outImages')
  <2>1. \A e \in exported, s \in stateImages :
           e.seq = s.committed.seq + 1 => e \in out'
    <3> SUFFICES ASSUME NEW e \in exported, NEW s \in stateImages,
                        e.seq = s.committed.seq + 1
                 PROVE  e \in out'
      OBVIOUS
    <3>1. e \in out
      BY <1>0 DEF IInv, HistoryInv, Kept
    <3>2. c.seq <= s.committed.seq + 1
      BY DEF IInv, ImagesInv
    <3>3. e # f
      BY <3>2, <1>1, <1>2, <1>5 DEF AllFiles
    <3>4. QED
      BY <3>1, <3>3, <1>4
  <2>2. QED
    BY <2>1, <1>0 DEF IInv, HistoryInv, Kept
<1>8. exported \cup UNION outImages' \in SUBSET AllFiles
  BY <1>0, <1>4 DEF AllFiles
<1>9. /\ Unique(exported \cup UNION outImages')
      /\ Ordered(exported \cup UNION outImages')
      /\ Behind(exported \cup UNION outImages', stateImages')
  <2>1. stateImages' \in SUBSET stateImages
    BY <1>0
  <2>2. QED
    BY <2>1, <1>8, FewerFiles DEF IInv, HistoryInv
<1>10. QED
  BY <1>6, <1>7, <1>9, RecordHistory
-----------------------------------------------------------------------------
(* The recovery table and the control invariant.                           *)

\* What each reachable row of the recovery table tells the process.
LEMMA RowFacts ==
    ASSUME IInv
    PROVE  /\ RecoveryRow \notin FailClosedRows
           /\ RecoveryRow = 7 => state.committed = NoCommitted
           /\ RecoveryRow \in {1, 2, 3, 4} => state.committed # NoCommitted
           /\ RecoveryRow \in {1, 3, 4, 7} => NoFileAhead
           /\ RecoveryRow = 2 => Ahead /\ FileOf(state) \in out
           /\ RecoveryRow = 1 => Settled
<1> DEFINE c == state.committed
           p == state.pending
           beyond == \E s \in DurableEvSeqs : s > c.seq + 1
           evNext == c.seq + 1 \in DurableEvSeqs
<1>0. /\ TypeOK /\ state \in stateImages /\ out \in outImages
      /\ c.seq \in Nat /\ p.seq \in Nat
      /\ \A o \in outImages : \A f \in o : f.seq \in Nat
  <2>1. TypeOK /\ state \in stateImages /\ out \in outImages
    BY DEF IInv, ImagesInv
  <2>2. QED
    BY <2>1, ImageTypes DEF AllFiles
<1>1. /\ \A o \in outImages : Agree(state, o)
      /\ WellFormed(state)
  BY <1>0 DEF IInv, ImagesInv
<1>2. ~beyond
  BY <1>0, <1>1 DEF Agree, DurableEvSeqs
<1>3. CASE c = NoCommitted
  <2>1. \A o \in outImages : o = {}
    BY <1>1, <1>3 DEF Agree
  <2>2. p = NoPending /\ DurableEvSeqs = {}
    BY <1>0, <1>1, <1>3, <2>1 DEF WellFormed, DurableEvSeqs
  <2>3. RecoveryRow = 7
    BY <1>3, <2>2 DEF RecoveryRow
  <2>4. QED
    BY <1>3, <2>1, <2>3 DEF FailClosedRows, NoFileAhead
<1>4. CASE c # NoCommitted /\ p = NoPending
  <2>1. NoFileAhead
    BY <1>0, <1>1, <1>4 DEF NoFileAhead, Agree
  <2>2. ~evNext
    BY <1>0, <2>1 DEF NoFileAhead, DurableEvSeqs
  <2>3. RecoveryRow = 1
    BY <1>2, <1>4, <2>2 DEF RecoveryRow
  <2>4. QED
    BY <1>4, <2>1, <2>3 DEF FailClosedRows, Settled
<1>5. CASE c # NoCommitted /\ p # NoPending
  <2>1. p.seq = c.seq \/ p.seq = c.seq + 1
    BY <1>1, <1>5 DEF WellFormed
  <2>2. CASE p.seq = c.seq
    <3>1. RecoveryRow = 4
      BY <1>0, <1>5, <2>2 DEF RecoveryRow
    <3>2. NoFileAhead
      BY <1>0, <1>1, <2>2 DEF NoFileAhead, Agree
    <3>3. QED
      BY <1>5, <3>1, <3>2 DEF FailClosedRows
  <2>3. CASE p.seq = c.seq + 1 /\ ~evNext
    <3>1. RecoveryRow = 3
      BY <1>0, <1>2, <1>5, <2>3 DEF RecoveryRow
    <3>2. \A o \in outImages : \A f \in o : f.seq # c.seq + 1
      BY <2>3 DEF IInv, ImagesInv, DurableEvSeqs
    <3>3. NoFileAhead
      BY <1>0, <1>1, <3>2 DEF NoFileAhead, Agree
    <3>4. QED
      BY <1>5, <3>1, <3>3 DEF FailClosedRows
  <2>4. CASE p.seq = c.seq + 1 /\ evNext
    <3>1. PICK f \in out : f.seq = c.seq + 1
      BY <2>4 DEF DurableEvSeqs
    <3>2. f = FileOf(state)
      BY <1>0, <1>1, <3>1 DEF Agree
    <3>3. HeaderMatches(p)
      BY <2>4, <3>1, <3>2 DEF HeaderMatches, FileOf
    <3>4. RecoveryRow = 2
      BY <1>0, <1>2, <1>5, <2>4, <3>3 DEF RecoveryRow
    <3>5. QED
      BY <1>5, <2>4, <3>1, <3>2, <3>4 DEF FailClosedRows, Ahead
  <2>5. QED
    BY <2>1, <2>2, <2>3, <2>4
<1>6. QED
  BY <1>3, <1>4, <1>5

\* The control invariant survives every step of a process.
LEMMA ControlSteps ==
    ASSUME IInv, TypeOK', ProcessNext
    PROVE  ControlInv'
<1> DEFINE c == state.committed
           p == state.pending
<1>0. /\ TypeOK /\ ControlInv
      /\ c \in Committed /\ p \in Pending
      /\ c.seq \in Nat
      /\ state = [committed |-> c, pending |-> p]
  BY DEF IInv, TypeOK, Committed
<1>1. CASE Start
  <2>1. /\ pc' \in {"activate", "recover", "stale_unlink", "retention"}
        /\ pc' = "activate" => RecoveryRow = 7
        /\ pc' = "recover" => RecoveryRow = 2
        /\ pc' = "stale_unlink" => RecoveryRow \in {3, 4}
        /\ pc' = "retention" => RecoveryRow = 1
        /\ state' = state /\ out' = out
    BY <1>1 DEF Start
  <2>2. outImages' \in SUBSET outImages
    BY <1>1 DEF Start, CleanScratch, IInv, ImagesInv
  <2>3. NoFileAhead => NoFileAhead'
    BY <2>1, <2>2 DEF NoFileAhead
  <2>4. QED
    BY <2>1, <2>3, RowFacts DEF ControlInv, Ahead, Settled, FileOf
<1>2. CASE Activate
  <2>1. PICK a \in Anchors :
          state' = [state EXCEPT !.committed =
                      [seq |-> 0, epoch |-> 1, boundary |-> "COLD_START",
                       mode |-> a.mode, pos |-> a.pos]]
    BY <1>2 DEF Activate
  <2>2. c = NoCommitted /\ NoFileAhead
    BY <1>2, <1>0 DEF Activate, ControlInv
  <2>3. /\ state'.committed.seq = 0 /\ state'.committed.epoch = 1
        /\ state'.pending = p
    BY <2>1, <1>0
  <2>4. p = NoPending
    BY <2>2 DEF IInv, ImagesInv, WellFormed
  <2>5. NoFileAhead'
    BY <1>2, <2>2, <2>3 DEF Activate, NoFileAhead, NoCommitted
  <2>6. state'.committed # NoCommitted
    BY <2>3 DEF NoCommitted
  <2>7. QED
    BY <1>2, <2>3, <2>4, <2>5, <2>6 DEF Activate, ControlInv, Settled
<1>3. CASE StateSync
  <2>1. /\ state' = state /\ out' = out /\ outImages' = outImages
        /\ stateImages' = {state'}
    BY <1>3 DEF StateSync
  <2>2. NoFileAhead' = NoFileAhead
    BY <2>1 DEF NoFileAhead
  <2>3. \/ pc = "activate_sync" /\ pc' = "retention"
        \/ pc = "recover_sync" /\ pc' = "recover_unlink"
        \/ pc = "recover_unlink_sync" /\ pc' = "retention"
        \/ pc = "stale_unlink_sync" /\ pc' = "retention"
        \/ pc = "pending_sync" /\ pc' = "ev_write"
        \/ pc = "commit_sync" /\ pc' = "settle_unlink"
        \/ pc = "settle_unlink_sync" /\ pc' = "heartbeat"
        \/ pc = "reset_unlink_sync" /\ pc' = "reset_commit"
        \/ pc = "reset_sync" /\ pc' = "down"
    BY <1>3 DEF StateSync, AfterStateSync
  <2>4. QED
    BY <1>0, <2>1, <2>2, <2>3 DEF ControlInv, Ahead, Settled
<1>4. CASE UnlinkPending
  <2>1. state' = [committed |-> c, pending |-> NoPending]
    BY <1>4, <1>0 DEF UnlinkPending
  <2>2. NoFileAhead /\ c # NoCommitted
    BY <1>0, <1>4 DEF UnlinkPending, AfterUnlink, ControlInv
  <2>3. pc' \in {"recover_unlink_sync", "stale_unlink_sync",
                 "settle_unlink_sync", "reset_unlink_sync"}
    BY <1>4 DEF UnlinkPending, AfterUnlink
  <2>4. NoFileAhead'
    BY <1>4, <2>1, <2>2 DEF UnlinkPending, NoFileAhead
  <2>5. QED
    BY <2>1, <2>2, <2>3, <2>4 DEF ControlInv, Settled
<1>5. CASE PollBatch
  <2>1. PICK hi \in (c.pos + 1)..Len(journal) :
          state' = [committed |-> c, pending |-> MakePending(c, hi)]
    BY <1>5, <1>0 DEF PollBatch
  <2>2. NoFileAhead /\ c # NoCommitted
    BY <1>0, <1>5 DEF PollBatch, ControlInv
  <2>3. NoFileAhead'
    BY <1>5, <2>1, <2>2 DEF PollBatch, NoFileAhead
  <2>4. Ahead'
    BY <1>0, <2>1 DEF Ahead, MakePending, NoPending
  <2>5. QED
    BY <1>5, <2>1, <2>2, <2>3, <2>4 DEF PollBatch, ControlInv
<1>6. CASE PollEmpty
  <2>1. /\ pc' = "ready" /\ state' = state
        /\ outImages' \in SUBSET outImages
    BY <1>6 DEF PollEmpty, IInv, ImagesInv
  <2>2. NoFileAhead /\ c # NoCommitted /\ Settled
    BY <1>0, <1>6 DEF PollEmpty, ControlInv
  <2>3. NoFileAhead'
    BY <2>1, <2>2 DEF NoFileAhead
  <2>4. QED
    BY <2>1, <2>2, <2>3 DEF ControlInv, Settled
<1>7. CASE WriteExchangeFile
  <2>1. pc' = "ev_sync" /\ state' = state /\ stateImages' = stateImages
    BY <1>7 DEF WriteExchangeFile
  <2>2. Ahead /\ c # NoCommitted /\ stateImages = {state}
    BY <1>0, <1>7 DEF WriteExchangeFile, ControlInv
  <2>3. FileOf(state) \in out'
    BY <1>7 DEF WriteExchangeFile
  <2>4. QED
    BY <2>1, <2>2, <2>3 DEF ControlInv, Ahead, FileOf
<1>8. CASE SyncExchangeFile
  <2>1. /\ pc' = "commit" /\ state' = state /\ stateImages' = stateImages
        /\ out' = out
    BY <1>8 DEF SyncExchangeFile
  <2>2. /\ Ahead /\ c # NoCommitted /\ stateImages = {state}
        /\ FileOf(state) \in out
    BY <1>0, <1>8 DEF SyncExchangeFile, ControlInv
  <2>3. QED
    BY <2>1, <2>2 DEF ControlInv, Ahead, FileOf
<1>9. CASE WriteCommitted
  <2>1. /\ state' = [committed |-> Step4Committed(p), pending |-> p]
        /\ outImages' = outImages
        /\ pc' \in {"commit_sync", "recover_sync"}
    BY <1>9, <1>0 DEF WriteCommitted
  <2>2. p.seq = c.seq + 1
    BY <1>0, <1>9 DEF WriteCommitted, ControlInv, Ahead
  <2>3. \A o \in outImages : \A f \in o : f.seq <= c.seq + 1
    BY DEF IInv, ImagesInv, Agree
  <2>4. state'.committed.seq = c.seq + 1
    BY <2>1, <2>2 DEF Step4Committed
  <2>5. NoFileAhead'
    BY <2>1, <2>3, <2>4 DEF NoFileAhead
  <2>6. state'.committed # NoCommitted
    BY <2>4, <1>0 DEF NoCommitted
  <2>7. QED
    BY <2>1, <2>5, <2>6 DEF ControlInv
<1>10. CASE WriteHeartbeat \/ Evict \/ RetentionDone
  <2>1. /\ pc' \in {"retention", "retention_dirty", "ready"} /\ state' = state
        /\ outImages' \in SUBSET (outImages \cup {out'})
        /\ out' \in SUBSET out /\ out \in outImages
    BY <1>10 DEF WriteHeartbeat, Evict, RetentionDone, IInv, ImagesInv
  <2>2. NoFileAhead /\ c # NoCommitted /\ Settled
    BY <1>0, <1>10 DEF WriteHeartbeat, Evict, RetentionDone, ControlInv
  <2>3. NoFileAhead'
    BY <2>1, <2>2 DEF NoFileAhead
  <2>4. QED
    BY <2>1, <2>2, <2>3 DEF ControlInv, Settled
<1>11. CASE ResetBegin
  <2>1. /\ pc' \in {"down", "reset_unlink", "reset_commit"}
        /\ pc' = "reset_unlink" => RecoveryRow \in {3, 4}
        /\ pc' = "reset_commit" => RecoveryRow = 1
        /\ state' = state /\ out' = out
        /\ outImages' \in SUBSET outImages
    BY <1>11 DEF ResetBegin, CleanScratch, IInv, ImagesInv
  <2>2. NoFileAhead => NoFileAhead'
    BY <2>1 DEF NoFileAhead
  <2>3. QED
    BY <2>1, <2>2, RowFacts DEF ControlInv, Settled
<1>12. CASE ResetCommit
  <2>1. PICK a \in Anchors :
          state' = [state EXCEPT !.committed =
                      [seq |-> c.seq, epoch |-> c.epoch + 1,
                       boundary |-> "SOURCE_GAP",
                       mode |-> a.mode, pos |-> a.pos]]
    BY <1>12 DEF ResetCommit
  <2>2. NoFileAhead /\ p = NoPending
    BY <1>0, <1>12 DEF ResetCommit, ControlInv, Settled
  <2>3. /\ state'.committed.seq = c.seq
        /\ state'.committed.boundary = "SOURCE_GAP"
        /\ state'.pending = NoPending
    BY <2>1, <2>2, <1>0
  <2>4. NoFileAhead' /\ state'.committed # NoCommitted
    BY <1>12, <2>2, <2>3 DEF ResetCommit, NoFileAhead, NoCommitted
  <2>5. QED
    BY <1>12, <2>3, <2>4 DEF ResetCommit, ControlInv, Settled
<1>13. CASE \E k \in Kinds : Log(k)
  <2>1. UNCHANGED <<state, stateImages, out, outImages, pc>>
    BY <1>13 DEF Log
  <2>2. QED
    BY <1>0, <2>1 DEF ControlInv, Ahead, Settled, NoFileAhead, FileOf
<1>14. CASE Exit
  BY <1>14 DEF Exit, ControlInv
<1>15. QED
  BY <1>1, <1>2, <1>3, <1>4, <1>5, <1>6, <1>7, <1>8, <1>9, <1>10, <1>11,
     <1>12, <1>13, <1>14 DEF ProcessNext, ReaderStep
-----------------------------------------------------------------------------
(* The theorems.                                                           *)

\* The inductive invariant holds of every reachable state.
THEOREM Inductive == Spec => []IInv
<1>1. Init => IInv
  <2> SUFFICES ASSUME Init
               PROVE  ImagesInv /\ HistoryInv /\ ControlInv /\ TypeOK
    BY DEF IInv
  <2>1. /\ state = [committed |-> NoCommitted, pending |-> NoPending]
        /\ stateImages = {state} /\ out = {} /\ outImages = {{}}
        /\ exported = {} /\ pc = "down"
    BY DEF Init
  <2>2. TypeOK
    BY InitTypes
  <2>3. ImagesInv
    <3>1. state.committed.seq \in Nat
      BY <2>1 DEF NoCommitted
    <3>2. QED
      BY <2>1, <3>1 DEF ImagesInv, WellFormed, Agree
  <2>4. HistoryInv
    BY <2>1 DEF HistoryInv, AllFiles, Kept, Unique, Ordered, Behind
  <2>5. QED
    BY <2>1, <2>2, <2>3, <2>4 DEF ControlInv
<1>2. IInv /\ TypeOK' /\ [Next]_vars => IInv'
  <2> SUFFICES ASSUME IInv, TypeOK', [Next]_vars
               PROVE  ImagesInv' /\ HistoryInv' /\ ControlInv'
    BY DEF IInv
  <2>1. CASE UNCHANGED vars
    <3>1. ImagesInv'
      BY <2>1 DEF vars, IInv, ImagesInv, WellFormed, Agree, FileOf
    <3>2. HistoryInv'
      BY <2>1 DEF vars, IInv, HistoryInv, AllFiles
    <3>3. ControlInv'
      BY <2>1 DEF vars, IInv, ControlInv, NoFileAhead, Ahead, Settled, FileOf
    <3>4. QED
      BY <3>1, <3>2, <3>3
  <2>2. CASE Recorded(ProcessNext)
    <3>1. ProcessNext /\ exported' = exported \cup DurableFiles'
      BY <2>2 DEF Recorded
    <3>2. ControlInv'
      BY <3>1, ControlSteps
    <3>3. CASE \/ Activate \/ UnlinkPending \/ PollBatch \/ WriteCommitted
               \/ ResetCommit
      BY <3>1, <3>2, <3>3, ReplaceSteps
    <3>4. CASE WriteExchangeFile
      BY <3>1, <3>2, <3>4, PublishStep
    <3>5. CASE Evict
      BY <3>1, <3>2, <3>5, EvictStep
    <3>6. CASE \/ Start \/ StateSync \/ PollEmpty \/ SyncExchangeFile
               \/ WriteHeartbeat \/ RetentionDone \/ ResetBegin
               \/ (\E k \in Kinds : Log(k)) \/ Exit
      <4>1. state \in stateImages /\ out \in outImages
        BY DEF IInv, ImagesInv
      <4>2. /\ state' = state /\ out' = out
            /\ stateImages' \in SUBSET stateImages /\ state \in stateImages'
            /\ outImages' \in SUBSET outImages /\ out \in outImages'
        BY <3>6, <4>1 DEF Start, StateSync, PollEmpty, SyncExchangeFile,
           WriteHeartbeat, RetentionDone, ResetBegin, Log, Exit, CleanScratch
      <4>3. QED
        BY <3>1, <3>2, <4>2, Forget
    <3>7. QED
      BY <3>1, <3>3, <3>4, <3>5, <3>6 DEF ProcessNext, ReaderStep
  <2>3. CASE Recorded(PowerLoss)
    <3>1. pc' = "down"
      BY <2>3 DEF Recorded, PowerLoss
    <3>2. ControlInv'
      BY <3>1 DEF ControlInv
    <3>3. QED
      BY <2>3, <3>2, FallBack
  <2>4. QED
    BY <2>1, <2>2, <2>3 DEF Next
<1>3. QED
  BY <1>1, <1>2, TypeCorrect, PTL DEF Spec

\* However the reader was stopped, the next start does not fail closed.
THEOREM RecoverySafe == Spec => []RecoveryAlwaysPossible
<1>1. IInv => RecoveryAlwaysPossible
  BY RowFacts DEF RecoveryAlwaysPossible
<1>2. QED
  BY <1>1, Inductive, PTL

\* A durable exchange file is never regenerated under its sequence number.
THEOREM ExportOnce == Spec => []ExportedOnce
<1>1. IInv => ExportedOnce
  BY DEF IInv, HistoryInv, AllFiles, Unique, ExportedOnce
<1>2. QED
  BY <1>1, Inductive, PTL

\* Durable files are in source order and no line is in two files of an epoch.
THEOREM ExportInOrder == Spec => []ExportedInOrder
<1>1. IInv => ExportedInOrder
  BY DEF IInv, HistoryInv, AllFiles, Ordered, ExportedInOrder
<1>2. QED
  BY <1>1, Inductive, PTL

-----------------------------------------------------------------------------
(* The plane runs the reader: what is proved of the reader holds in it.    *)

LEMMA PlaneRunsReader == PlaneSpec => Spec
<1>1. PlaneInit => Init
  BY DEF PlaneInit
<1>2. [PlaneNext]_planeVars => [Next]_vars
  BY DEF PlaneNext, PlanePowerLoss, Next, planeVars
<1> QED
  BY <1>1, <1>2, PTL DEF PlaneSpec, Spec

\* The types of the Monitor's side.
IngestTypeOK ==
    /\ terminal \in Nat
    /\ applied \in SUBSET ExchangeFile
    /\ audit \in SUBSET AuditRow
    /\ scanning \in BOOLEAN
    /\ scan \in SUBSET Nat
    /\ degraded \in BOOLEAN
    /\ failures \in 0..MaxIngestFailures

LEMMA IngestStepTypes ==
    ASSUME TypeOK, IngestTypeOK, [PlaneNext]_planeVars
    PROVE  IngestTypeOK'
<1> USE DEF IngestTypeOK
<1>0. /\ \A f \in out : f.seq \in Nat
      /\ out \subseteq ExchangeFile
  BY DEF TypeOK, ExchangeFile
<1>1. CASE Recorded(ProcessNext) /\ UNCHANGED ingestVars
  BY <1>1 DEF ingestVars
<1>2. CASE PlanePowerLoss
  BY <1>2 DEF PlanePowerLoss
<1>3. CASE ScanExchangeDir
  BY <1>0, <1>3 DEF ScanExchangeDir, DurableEvSeqs
<1>4. CASE ScanFails \/ SettleFails \/ MonitorRestart
  <2>1. failures' \in 0..MaxIngestFailures
    BY <1>4, IngestAssumption DEF ScanFails, SettleFails, MonitorRestart
  <2>2. /\ scanning' \in BOOLEAN /\ degraded' \in BOOLEAN /\ scan' \in SUBSET Nat
        /\ UNCHANGED <<terminal, applied, audit>>
    BY <1>4 DEF ScanFails, SettleFails, MonitorRestart
  <2> QED
    BY <2>1, <2>2
<1>5. CASE SettleGap
  <2>1. PICK nxt \in scan :
           /\ nxt > terminal
           /\ audit' = audit \cup {[kind |-> "gap", seq |-> s] :
                                      s \in (terminal + 1)..(nxt - 1)}
           /\ terminal' = nxt - 1
    BY <1>5 DEF SettleGap
  <2>2. {[kind |-> "gap", seq |-> s] : s \in (terminal + 1)..(nxt - 1)} \subseteq AuditRow
    BY <2>1 DEF AuditRow
  <2>3. terminal' \in Nat
    BY <2>1
  <2> QED
    BY <1>5, <2>1, <2>2, <2>3 DEF SettleGap
<1>6. CASE ApplyFile
  BY <1>0, <1>6 DEF ApplyFile
<1>7. CASE RejectFile
  <2>1. [kind |-> "rejected", seq |-> terminal + 1] \in AuditRow
    BY DEF AuditRow
  <2> QED
    BY <1>7, <2>1 DEF RejectFile
<1>8. CASE PassDone
  BY <1>8 DEF PassDone
<1>9. CASE UNCHANGED planeVars
  BY <1>9 DEF planeVars, ingestVars
<1> QED
  BY <1>1, <1>2, <1>3, <1>4, <1>5, <1>6, <1>7, <1>8, <1>9 DEF PlaneNext, IngestStep

\* Every variable of the plane keeps its type.
THEOREM PlaneTypeCorrect == PlaneSpec => []PlaneTypeOK
<1>1. PlaneInit => IngestTypeOK
  <2>1. 0 \in 0..MaxIngestFailures
    BY IngestAssumption
  <2>2. PlaneInit => /\ terminal \in Nat /\ failures \in 0..MaxIngestFailures
                     /\ scan = {} /\ applied = {} /\ audit = {}
    BY <2>1 DEF PlaneInit
  <2>3. PlaneInit => scanning \in BOOLEAN /\ degraded \in BOOLEAN
    BY DEF PlaneInit
  <2> QED
    BY <2>2, <2>3 DEF IngestTypeOK
<1>2. TypeOK /\ IngestTypeOK /\ [PlaneNext]_planeVars => IngestTypeOK'
  BY IngestStepTypes
<1>3. TypeOK /\ IngestTypeOK => PlaneTypeOK
  BY DEF PlaneTypeOK, IngestTypeOK
<1> QED
  BY <1>1, <1>2, <1>3, PlaneRunsReader, TypeCorrect, PTL DEF PlaneSpec

-----------------------------------------------------------------------------
(* The refinement.                                                         *)

\* No file is applied above the cursor.
AppliedBelow == \A f \in applied : f.seq <= terminal

LEMMA AppliedBelowKept ==
    ASSUME TypeOK, IngestTypeOK, AppliedBelow, [PlaneNext]_planeVars
    PROVE  AppliedBelow' /\ terminal <= terminal'
<1> USE DEF IngestTypeOK, AppliedBelow
<1>0. \A f \in applied : f.seq \in Nat
  BY DEF ExchangeFile
<1>1. CASE UNCHANGED <<terminal, applied>>
  BY <1>0, <1>1
<1>2. CASE SettleGap
  <2>1. PICK nxt \in scan : nxt > terminal /\ terminal' = nxt - 1
    BY <1>2 DEF SettleGap
  <2> QED
    BY <1>0, <1>2, <2>1 DEF SettleGap
<1>3. CASE ApplyFile
  BY <1>0, <1>3 DEF ApplyFile
<1>4. CASE RejectFile
  BY <1>0, <1>4 DEF RejectFile
<1> QED
  BY <1>1, <1>2, <1>3, <1>4 DEF PlaneNext, planeVars, ingestVars, PlanePowerLoss,
     IngestStep, ScanExchangeDir, ScanFails, SettleFails, MonitorRestart, PassDone

\* A settled number keeps its outcome, and outcomes are outcomes.
LEMMA OutcomeKept ==
    ASSUME TypeOK, IngestTypeOK, AppliedBelow, [PlaneNext]_planeVars,
           NEW n \in 1..terminal
    PROVE  OutcomeOf(n)' = OutcomeOf(n)
<1> USE DEF IngestTypeOK
<1>1. CASE UNCHANGED <<applied, audit>>
  BY <1>1 DEF OutcomeOf
<1>2. CASE SettleGap
  <2>1. PICK nxt \in scan :
           audit' = audit \cup {[kind |-> "gap", seq |-> s] :
                                   s \in (terminal + 1)..(nxt - 1)}
    BY <1>2 DEF SettleGap
  <2>2. [kind |-> "gap", seq |-> n] \in audit' <=> [kind |-> "gap", seq |-> n] \in audit
    <3>1. ASSUME NEW s \in (terminal + 1)..(nxt - 1),
                 [kind |-> "gap", seq |-> n] = [kind |-> "gap", seq |-> s]
          PROVE  FALSE
      <4>1. n = s
        BY <3>1
      <4> QED
        BY <4>1
    <3> QED
      BY <2>1, <3>1
  <2> QED
    BY <1>2, <2>2 DEF SettleGap, OutcomeOf
<1>3. CASE ApplyFile
  BY <1>3 DEF ApplyFile, OutcomeOf
<1>4. CASE RejectFile
  BY <1>4 DEF RejectFile, OutcomeOf
<1> QED
  BY <1>1, <1>2, <1>3, <1>4 DEF PlaneNext, planeVars, ingestVars, PlanePowerLoss,
     IngestStep, ScanExchangeDir, ScanFails, SettleFails, MonitorRestart, PassDone

\* A function on an initial interval is a sequence.
LEMMA IntervalIsSequence ==
    ASSUME NEW S, NEW t \in Nat, NEW f \in [1..t -> S]
    PROVE  f \in Seq(S) /\ Len(f) = t /\ DOMAIN f = 1..t
OBVIOUS

LEMMA OneMore ==
    ASSUME NEW S, NEW t \in Nat, NEW f \in [1..t -> S], NEW g \in [1..(t + 1) -> S],
           \A n \in 1..t : g[n] = f[n]
    PROVE  g = Append(f, g[t + 1])
<1>1. /\ f \in Seq(S) /\ Len(f) = t
      /\ g \in Seq(S) /\ Len(g) = t + 1
  BY IntervalIsSequence
<1>2. g[t + 1] \in S
  OBVIOUS
<1> QED
  BY <1>1, <1>2

\* Every step of the plane is a settlement, or one the promise cannot see.
LEMMA SettlementStep ==
    ASSUME TypeOK, IngestTypeOK, AppliedBelow, [PlaneNext]_planeVars
    PROVE  [Settlement!Next]_Outcome
<1>1. /\ IngestTypeOK' /\ terminal \in Nat /\ terminal' \in Nat /\ terminal <= terminal'
  BY IngestStepTypes, AppliedBelowKept DEF IngestTypeOK
<1>2. /\ Outcome \in [1..terminal -> Settlement!Outcomes]
      /\ \A n \in 1..terminal : Outcome[n] = OutcomeOf(n)
  BY DEF Outcome, OutcomeOf, Settlement!Outcomes
<1>3. /\ Outcome' \in [1..terminal' -> Settlement!Outcomes]
      /\ \A n \in 1..terminal' : Outcome'[n] = OutcomeOf(n)'
  BY DEF Outcome, OutcomeOf, Settlement!Outcomes
<1>0. /\ Outcome' \in Seq(Settlement!Outcomes)
      /\ Len(Outcome) = terminal /\ DOMAIN Outcome = 1..terminal
      /\ Len(Outcome') = terminal' /\ DOMAIN Outcome' = 1..terminal'
  BY <1>1, <1>2, <1>3, IntervalIsSequence
<1>4. \A n \in 1..terminal : Outcome'[n] = Outcome[n]
  BY <1>1, <1>2, <1>3, OutcomeKept
<1>5. CASE UNCHANGED terminal
  <2>1. Outcome' = Outcome
    BY <1>2, <1>3, <1>4, <1>5 DEF Outcome
  <2> QED
    BY <2>1
<1>6. CASE SettleGap
  <2>1. ASSUME NEW n \in (terminal + 1)..terminal'
        PROVE  OutcomeOf(n)' = "gap"
    BY <1>6 DEF SettleGap, OutcomeOf, IngestTypeOK, AppliedBelow
  <2>2. CASE terminal < terminal'
    BY <1>0, <1>1, <1>3, <1>4, <2>1, <2>2 DEF Settlement!Next, Settlement!SettleGap
  <2> QED
    BY <1>1, <1>5, <2>2
<1>7. CASE terminal' = terminal + 1 /\ (ApplyFile \/ RejectFile)
  <2>1. CASE Outcome'[terminal'] = "gap"
    BY <1>0, <1>1, <1>3, <1>4, <1>7, <2>1 DEF Settlement!Next, Settlement!SettleGap
  <2>2. CASE Outcome'[terminal'] \in {"applied", "rejected"}
    <3>1. Outcome' = Append(Outcome, Outcome'[terminal + 1])
      BY <1>1, <1>2, <1>3, <1>4, <1>7, OneMore
    <3>2. Outcome'[terminal + 1] \in {"applied", "rejected"}
      BY <1>7, <2>2
    <3> QED
      BY <3>1, <3>2 DEF Settlement!Next, Settlement!SettleFile
  <2> QED
    BY <1>1, <1>3, <1>7, <2>1, <2>2 DEF Settlement!Outcomes
<1> QED
  BY <1>5, <1>6, <1>7 DEF PlaneNext, planeVars, ingestVars, PlanePowerLoss, ApplyFile,
     RejectFile, IngestStep, ScanExchangeDir, ScanFails, SettleFails, MonitorRestart,
     PassDone

\* The ingest settles every sequence number exactly once and in order, and
\* never revises a settlement (incident_history.py: _journal_ingest_pass).
THEOREM SettlesInOrder == PlaneSpec => ImplementsSettlement
<1>1. PlaneInit => AppliedBelow
  BY DEF PlaneInit, AppliedBelow
<1>2. PlaneInit => Settlement!Init
  BY DEF PlaneInit, Settlement!Init, Outcome
<1>3. TypeOK /\ IngestTypeOK /\ AppliedBelow /\ [PlaneNext]_planeVars => AppliedBelow'
  BY AppliedBelowKept
<1>4. PlaneTypeOK => TypeOK /\ IngestTypeOK
  BY DEF PlaneTypeOK, IngestTypeOK
<1>5. TypeOK /\ IngestTypeOK /\ AppliedBelow /\ [PlaneNext]_planeVars
         => [Settlement!Next]_Outcome
  BY SettlementStep
<1> QED
  BY <1>1, <1>2, <1>3, <1>4, <1>5, PlaneTypeCorrect, PTL
     DEF PlaneSpec, ImplementsSettlement, Settlement!Spec

-----------------------------------------------------------------------------
(* No silent loss.  The invariant of the reader speaks of files a power    *)
(* loss cannot remove; the Monitor may apply a file as soon as it is       *)
(* visible.  Without power losses what is visible stays as it is.          *)

Seen == applied \cup out

\* An applied file is not ahead of the next one, which is still there.
AppliedKnown ==
    \A f \in applied :
        /\ state.committed # NoCommitted
        /\ f.seq <= state.committed.seq + 1
        /\ f.seq = state.committed.seq + 1 => f \in out

\* The cursor goes on where the latest file ends, or behind an announced gap.
CursorJoins ==
    \A f \in Seen :
        f.seq = state.committed.seq =>
            \/ f.epoch = state.committed.epoch /\ f.hi = state.committed.pos
            \/ /\ f.epoch < state.committed.epoch
               /\ state.committed.boundary = "SOURCE_GAP"

\* Each file goes on where the one before it ends, or announces a gap.
FilesJoin ==
    \A f, g \in Seen :
        g.seq = f.seq + 1 =>
            \/ g.epoch = f.epoch /\ g.lo = f.hi
            \/ g.epoch > f.epoch /\ g.boundary = "SOURCE_GAP"

LossInv == AppliedKnown /\ CursorJoins /\ FilesJoin

\* What the reader's invariant says of the visible files.
LEMMA VisibleFiles ==
    ASSUME IInv, IngestTypeOK
    PROVE  /\ state.committed \in Committed /\ state.pending \in Pending
           /\ \A f \in Seen : f \in ExchangeFile
           /\ \A f \in out : /\ state.committed # NoCommitted
                             /\ f.seq <= state.committed.seq + 1
                             /\ f.seq = state.committed.seq + 1 => f = FileOf(state)
           /\ WellFormed(state)
           /\ NoFileAhead => \A f \in out : f.seq <= state.committed.seq
BY DEF IInv, TypeOK, ImagesInv, Agree, NoFileAhead, IngestTypeOK, Seen

\* A step that moves neither the cursor nor a file forward.
LEMMA StillJoined ==
    ASSUME LossInv, UNCHANGED <<state.committed, applied>>, out' \subseteq out,
           \A f \in out : f.seq = state.committed.seq + 1 => f \in out'
    PROVE  LossInv'
<1>1. AppliedKnown'
  BY DEF LossInv, AppliedKnown
<1>2. Seen' \subseteq Seen
  BY DEF Seen
<1> QED
  BY <1>1, <1>2 DEF LossInv, CursorJoins, FilesJoin

\* The reader's steps.
LEMMA ReaderKeepsJoined ==
    ASSUME IInv, IngestTypeOK, LossInv, ProcessNext, UNCHANGED ingestVars
    PROVE  LossInv'
<1> USE DEF ingestVars
<1>0. /\ state.committed \in Committed /\ state.pending \in Pending
      /\ \A f \in Seen : f \in ExchangeFile
      /\ \A f \in out : /\ state.committed # NoCommitted
                        /\ f.seq <= state.committed.seq + 1
                        /\ f.seq = state.committed.seq + 1 => f = FileOf(state)
      /\ WellFormed(state)
      /\ NoFileAhead => \A f \in out : f.seq <= state.committed.seq
  BY VisibleFiles
<1>t. /\ state = [committed |-> state.committed, pending |-> state.pending]
      /\ state.committed.seq \in Nat /\ state.committed.pos \in Nat
      /\ state.committed.epoch \in Nat
      /\ \A f \in Seen : f.seq \in Nat /\ f.epoch \in Nat /\ f.hi \in Nat /\ f.lo \in Nat
  BY <1>0 DEF IInv, TypeOK, Committed, ExchangeFile
<1>1. CASE UNCHANGED <<state.committed, out>>
  BY <1>1, StillJoined
<1>2. CASE UnlinkPending \/ PollBatch
  <2>1. UNCHANGED <<state.committed, out>>
    BY <1>2, <1>t DEF UnlinkPending, PollBatch
  <2> QED
    BY <1>1, <2>1
<1>3. CASE Activate
  <2>1. state.committed = NoCommitted
    BY <1>3 DEF Activate, IInv, ControlInv
  <2>2. applied = {} /\ out = {}
    BY <1>0, <2>1 DEF LossInv, AppliedKnown
  <2> QED
    BY <1>3, <2>2 DEF Activate, LossInv, AppliedKnown, CursorJoins, FilesJoin, Seen
<1>4. CASE WriteExchangeFile
  <2> DEFINE g == FileOf(state)
  <2>1. /\ Ahead /\ NoFileAhead /\ state.committed # NoCommitted
    BY <1>4 DEF WriteExchangeFile, IInv, ControlInv
  <2>2. /\ g.seq = state.committed.seq + 1 /\ g.lo = state.committed.pos
        /\ g.epoch = state.committed.epoch /\ g.boundary = state.committed.boundary
    BY <1>0, <1>t, <2>1 DEF Ahead, WellFormed, FileOf
  <2>3. \A f \in Seen : f.seq <= state.committed.seq
    BY <1>0, <1>t, <2>1 DEF LossInv, AppliedKnown, Seen
  <2>4. Seen' = Seen \cup {g} /\ UNCHANGED <<state, applied>>
    <3>1. g.seq = state.pending.seq
      BY DEF FileOf
    <3>2. \A f \in out : f.seq # state.pending.seq
      BY <1>t, <2>2, <2>3, <3>1 DEF Seen
    <3> QED
      BY <1>4, <3>2 DEF WriteExchangeFile, Seen
  <2> HIDE DEF g
  <2>5. AppliedKnown'
    BY <1>t, <2>1, <2>3, <2>4 DEF AppliedKnown, Seen
  <2>6. CursorJoins'
    BY <1>t, <2>2, <2>4 DEF CursorJoins, LossInv
  <2>7. FilesJoin'
    <3>1. ASSUME NEW e \in Seen, g.seq = e.seq + 1
          PROVE  \/ g.epoch = e.epoch /\ g.lo = e.hi
                 \/ g.epoch > e.epoch /\ g.boundary = "SOURCE_GAP"
      BY <1>t, <2>2, <3>1 DEF LossInv, CursorJoins
    <3>2. \A e \in Seen \cup {g} : e.seq # g.seq + 1
      BY <1>t, <2>2, <2>3
    <3> QED
      BY <2>4, <3>1, <3>2 DEF LossInv, FilesJoin
  <2> QED
    BY <2>5, <2>6, <2>7 DEF LossInv
<1>5. CASE WriteCommitted
  <2>1. /\ Ahead /\ FileOf(state) \in out /\ state.committed # NoCommitted
    BY <1>5 DEF WriteCommitted, IInv, ControlInv
  <2>2. /\ state'.committed = Step4Committed(state.pending)
        /\ UNCHANGED <<out, applied>> /\ Seen' = Seen
    BY <1>5, <1>t DEF WriteCommitted, Seen
  <2>3. /\ state'.committed.seq = state.committed.seq + 1
        /\ state'.committed.epoch = state.pending.epoch
        /\ state'.committed.pos = state.pending.pos
        /\ state'.committed # NoCommitted
    BY <1>t, <2>1, <2>2 DEF Ahead, Step4Committed, NoCommitted
  <2>4. \A f \in Seen : f.seq = state.committed.seq + 1 => f = FileOf(state)
    BY <1>0 DEF LossInv, AppliedKnown, Seen
  <2>5. \A f \in Seen : f.seq <= state.committed.seq + 1
    BY <1>0 DEF LossInv, AppliedKnown, Seen
  <2>6. AppliedKnown'
    BY <1>t, <2>2, <2>3, <2>5 DEF AppliedKnown, Seen
  <2>7. CursorJoins'
    BY <2>2, <2>3, <2>4 DEF CursorJoins, FileOf
  <2>8. FilesJoin'
    BY <2>2 DEF LossInv, FilesJoin
  <2> QED
    BY <2>6, <2>7, <2>8 DEF LossInv
<1>6. CASE Evict
  <2>1. NoFileAhead
    BY <1>6 DEF Evict, IInv, ControlInv
  <2>2. \A f \in out : f.seq # state.committed.seq + 1
    BY <1>0, <1>t, <2>1 DEF Seen
  <2>3. out' \subseteq out /\ UNCHANGED state
    BY <1>6 DEF Evict
  <2> QED
    BY <2>2, <2>3, StillJoined
<1>7. CASE ResetCommit
  <2>1. NoFileAhead
    BY <1>7 DEF ResetCommit, IInv, ControlInv
  <2>2. /\ state'.committed.seq = state.committed.seq
        /\ state'.committed.epoch = state.committed.epoch + 1
        /\ state'.committed.boundary = "SOURCE_GAP"
        /\ state'.committed # NoCommitted
        /\ UNCHANGED <<out, applied>> /\ Seen' = Seen
    BY <1>7, <1>t DEF ResetCommit, Seen, NoCommitted
  <2>3. AppliedKnown'
    BY <2>2 DEF LossInv, AppliedKnown
  <2>4. CursorJoins'
    BY <1>t, <2>2 DEF LossInv, CursorJoins
  <2>5. FilesJoin'
    BY <2>2 DEF LossInv, FilesJoin
  <2> QED
    BY <2>3, <2>4, <2>5 DEF LossInv
<1> QED
  BY <1>1, <1>2, <1>3, <1>4, <1>5, <1>6, <1>7
     DEF ProcessNext, ReaderStep, Start, StateSync, PollEmpty, SyncExchangeFile,
         WriteHeartbeat, RetentionDone, ResetBegin, Log, Exit

LEMMA JoinedKept ==
    ASSUME ~PowerLossPossible, IInv, IngestTypeOK, LossInv, [PlaneNext]_planeVars
    PROVE  LossInv'
<1>1. CASE Recorded(ProcessNext) /\ UNCHANGED ingestVars
  BY <1>1, ReaderKeepsJoined DEF Recorded
<1>2. CASE PlanePowerLoss
  BY <1>2 DEF PlanePowerLoss, Recorded, PowerLoss
<1>3. CASE ApplyFile /\ UNCHANGED vars
  <2>1. PICK f \in out : applied' = applied \cup {f}
    BY <1>3 DEF ApplyFile
  <2>2. UNCHANGED <<out, state>> /\ Seen' = Seen
    BY <1>3, <2>1 DEF vars, Seen
  <2>3. /\ state.committed # NoCommitted
        /\ f.seq <= state.committed.seq + 1
    BY VisibleFiles
  <2>4. AppliedKnown'
    BY <2>1, <2>2, <2>3 DEF LossInv, AppliedKnown
  <2> QED
    BY <2>2, <2>4 DEF LossInv, CursorJoins, FilesJoin
<1>4. CASE UNCHANGED <<vars, applied>>
  BY <1>4, StillJoined DEF vars
<1> QED
  BY <1>1, <1>2, <1>3, <1>4 DEF PlaneNext, planeVars, ingestVars, IngestStep,
     ScanExchangeDir, ScanFails, SettleFails, MonitorRestart, PassDone, SettleGap,
     RejectFile

\* "Never silent loss" (incident_history.py: _journal_apply_locked): when no
\* change of a directory is lost, two files applied one after the other have
\* no line missing between them, except at an announced source gap.
THEOREM LosesNothing ==
    ASSUME ~PowerLossPossible
    PROVE  PlaneSpec => []NoSilentLoss
<1>1. PlaneInit => LossInv
  BY DEF PlaneInit, Init, LossInv, AppliedKnown, CursorJoins, FilesJoin, Seen
<1>2. IInv /\ IngestTypeOK /\ LossInv /\ [PlaneNext]_planeVars => LossInv'
  BY JoinedKept
<1>3. PlaneTypeOK => IngestTypeOK
  BY DEF PlaneTypeOK, IngestTypeOK
<1>4. LossInv => NoSilentLoss
  BY DEF LossInv, FilesJoin, NoSilentLoss, Seen
<1> QED
  BY <1>1, <1>2, <1>3, <1>4, PlaneTypeCorrect, PlaneRunsReader, Inductive, PTL
     DEF PlaneSpec

=============================================================================
