--------------------------- MODULE TelemetryProofs ---------------------------
(***************************************************************************)
(* The probe on Windows is right for every number of profiles and workers, *)
(* and its measuring cycle for every number of samples: an administrator   *)
(* never purges a profile under an open agent, no profile is overtaken     *)
(* twice by another while it waits, and the address by which the next      *)
(* cycle judges a change is one a durable sample carries.  The lifecycle   *)
(* gate passes a canary only on what happened after its baseline.          *)
(***************************************************************************)
EXTENDS ProbeRuntime, ProbeCycle, LifecycleGate, ThinningProofs

-----------------------------------------------------------------------------
(* The production runtime.                                                 *)

HostRecord ==
    [pc : {"down", "loop", "listed", "tick", "close"}, pause : BOOLEAN, stop : BOOLEAN,
     keys : SUBSET RuntimeProfiles]
CommandRecord ==
    [op : {"import", "pause", "resume", "purge", "remove"}, profile : RuntimeProfiles]

RuntimeTypes ==
    /\ control \in [RuntimeProfiles -> {"absent", "on", "off"}]
    /\ vaultLock \in {"free", "runtime", "command"}
    /\ host \in HostRecord
    /\ command \in CommandRecord \cup {NoCommand}

\* The vault lock is held exactly while a tick works or a command is open.
LockHeld ==
    /\ host.pc = "tick" => vaultLock = "runtime"
    /\ command # NoCommand => vaultLock = "command"

\* Between the check of a purge and the removal no agent can open, since
\* the profile stays disabled and the vault locked.
RemovalStands ==
    command.op = "remove" =>
        command.profile \notin agents /\ control[command.profile] = "off"

RuntimeInv == RuntimeTypes /\ LockHeld /\ RemovalStands /\ PurgeSparesActive

LEMMA RuntimeStarts == RuntimeInit => RuntimeInv
<1> SUFFICES ASSUME RuntimeInit PROVE RuntimeInv
  OBVIOUS
<1>1. host \in HostRecord
  BY DEF RuntimeInit, HostRecord, Down
<1>2. RuntimeTypes
  BY <1>1 DEF RuntimeInit, RuntimeTypes
<1>3. LockHeld /\ RemovalStands
  BY DEF RuntimeInit, LockHeld, RemovalStands, NoCommand, Down
<1>4. PurgeSparesActive
  BY DEF RuntimeInit, PurgeSparesActive
<1> QED
  BY <1>2, <1>3, <1>4 DEF RuntimeInv

\* A profile that a tick starts was enabled when the tick held the lock.
LEMMA StartedEnabled ==
    ASSUME NEW broken, RuntimeTypes
    PROVE  StartedNow(broken) \subseteq {p \in RuntimeProfiles : control[p] = "on"}
<1>1. host.keys \subseteq RuntimeProfiles
  BY DEF RuntimeTypes, HostRecord
<1>2. Runnable \subseteq {p \in RuntimeProfiles : control[p] = "on"}
  BY <1>1 DEF Runnable, ProfileEnabled
<1>3. Admitted(RipeOrder, broken) \subseteq Runnable
  BY DEF Admitted
<1> QED
  BY <1>2, <1>3 DEF StartedNow

LEMMA HostSteps ==
    ASSUME RuntimeInv,
           \/ StartHost \/ TickList \/ TickLock \/ CloseHost \/ KillHost
           \/ \E pause, stop \in BOOLEAN : Control(pause, stop)
    PROVE  RuntimeInv'
<1> USE DEF RuntimeInv, RuntimeTypes, LockHeld, RemovalStands
<1>1. CASE StartHost
  <2>1. host' \in HostRecord /\ host'.pc = "loop"
    BY <1>1 DEF StartHost, Down, HostRecord
  <2> QED
    BY <1>1, <2>1 DEF StartHost, PurgeSparesActive, VaultKeys
<1>2. CASE TickList
  <2>1. host' \in HostRecord /\ host'.pc = "listed"
    BY <1>2 DEF TickList, VaultKeys, HostRecord
  <2> QED
    BY <1>2, <2>1 DEF TickList, PurgeSparesActive, VaultKeys
<1>3. CASE TickLock
  <2>1. CASE vaultLock = "free"
    <3>1. host' \in HostRecord
      BY <1>3, <2>1 DEF TickLock, HostRecord
    <3> QED
      BY <1>3, <2>1, <3>1 DEF TickLock, PurgeSparesActive, VaultKeys
  <2>2. CASE vaultLock # "free"
    <3>1. host' \in HostRecord /\ host'.pc = "close"
      BY <1>3, <2>2 DEF TickLock, HostRecord
    <3> QED
      BY <1>3, <2>2, <3>1 DEF TickLock, PurgeSparesActive, VaultKeys
  <2> QED
    BY <2>1, <2>2
<1>4. CASE CloseHost \/ KillHost
  <2>0. host' = Down
    BY <1>4, Zenon DEF CloseHost, KillHost
  <2>1. host' \in HostRecord /\ host'.pc = "down"
    BY <2>0 DEF Down, HostRecord
  <2>2. command' = command /\ control' = control /\ agents' = {}
    BY <1>4 DEF CloseHost, KillHost
  <2>3. vaultLock' \in {"free", "runtime", "command"} /\ (vaultLock = "command" => vaultLock' = vaultLock)
    BY <1>4 DEF CloseHost, KillHost
  <2> QED
    BY <2>1, <2>2, <2>3 DEF PurgeSparesActive, VaultKeys
<1>5. ASSUME NEW pause \in BOOLEAN, NEW stop \in BOOLEAN, Control(pause, stop)
      PROVE  RuntimeInv'
  <2>1. host' \in HostRecord /\ host'.pc = host.pc
    BY <1>5 DEF Control, HostRecord
  <2> QED
    BY <1>5, <2>1 DEF Control, PurgeSparesActive, VaultKeys
<1> QED
  BY <1>1, <1>2, <1>3, <1>4, <1>5

LEMMA WorkSteps ==
    ASSUME RuntimeInv,
           \/ \E broken \in SUBSET RuntimeProfiles : TickWork(broken)
           \/ \E p \in RuntimeProfiles : CycleEnds(p) \/ FallDue(p)
    PROVE  RuntimeInv'
<1> USE DEF RuntimeInv, RuntimeTypes, LockHeld, RemovalStands
<1>1. ASSUME NEW broken \in SUBSET RuntimeProfiles, TickWork(broken)
      PROVE  RuntimeInv'
  <2>1. host' \in HostRecord /\ host'.pc = "loop"
    BY <1>1 DEF TickWork, HostRecord
  <2>2. command = NoCommand
    BY <1>1 DEF TickWork
  <2>3. command' = command /\ control' = control /\ vaultLock' = "free"
    BY <1>1 DEF TickWork
  <2>4. command'.op # "remove"
    BY <2>2, <2>3 DEF NoCommand
  <2>5. StartedNow(broken) \subseteq VaultKeys
    BY StartedEnabled DEF VaultKeys
  <2>6. agents' \subseteq VaultKeys
    BY <1>1, <2>5 DEF TickWork, PurgeSparesActive
  <2> QED
    BY <2>1, <2>2, <2>3, <2>4, <2>6 DEF PurgeSparesActive, VaultKeys
<1>2. ASSUME NEW p \in RuntimeProfiles, CycleEnds(p) \/ FallDue(p)
      PROVE  RuntimeInv'
  BY <1>2 DEF CycleEnds, FallDue, PurgeSparesActive, VaultKeys
<1> QED
  BY <1>1, <1>2

LEMMA CommandSteps ==
    ASSUME RuntimeInv,
           \/ \E op \in {"import", "pause", "resume", "purge"}, p \in RuntimeProfiles :
                BeginCommand(op, p)
           \/ ApplyCommand \/ PurgeCheck \/ PurgeRemove \/ EndCommand
    PROVE  RuntimeInv'
<1> USE DEF RuntimeInv, RuntimeTypes, LockHeld, RemovalStands
<1>1. ASSUME NEW op \in {"import", "pause", "resume", "purge"}, NEW p \in RuntimeProfiles,
             BeginCommand(op, p)
      PROVE  RuntimeInv'
  <2>1. command' \in CommandRecord /\ command'.op = op
    BY <1>1 DEF BeginCommand, CommandRecord
  <2> QED
    BY <1>1, <2>1 DEF BeginCommand, PurgeSparesActive, VaultKeys
<1>2. ASSUME command # NoCommand, command' = NoCommand, vaultLock' = "free",
             host' = host, agents' = agents,
             control' \in [RuntimeProfiles -> {"absent", "on", "off"}],
             \A p \in agents : control'[p] # "absent"
      PROVE  RuntimeInv'
  <2>1. command'.op # "remove"
    BY <1>2 DEF NoCommand
  <2> QED
    BY <1>2, <2>1 DEF PurgeSparesActive, VaultKeys
<1>3. command.op # "none" => command \in CommandRecord /\ command # NoCommand
  BY DEF NoCommand
<1>4. CASE ApplyCommand
  <2>1. command \in CommandRecord /\ command # NoCommand
    BY <1>3, <1>4 DEF ApplyCommand
  <2>2. command.profile \in RuntimeProfiles
    BY <2>1 DEF CommandRecord
  <2>3. \A p \in agents : control'[p] # "absent"
    BY <1>4, <2>2 DEF ApplyCommand, PurgeSparesActive, VaultKeys
  <2>4. control' \in [RuntimeProfiles -> {"absent", "on", "off"}]
    BY <1>4, <2>2 DEF ApplyCommand
  <2> QED
    BY <1>2, <1>4, <2>1, <2>3, <2>4 DEF ApplyCommand
<1>5. CASE PurgeCheck
  <2>1. command \in CommandRecord /\ command # NoCommand
    BY <1>3, <1>5 DEF PurgeCheck
  <2>2. command' \in CommandRecord /\ command'.profile = command.profile
    BY <1>5, <2>1 DEF PurgeCheck, CommandRecord
  <2> QED
    BY <1>5, <2>1, <2>2 DEF PurgeCheck, PurgeSparesActive, VaultKeys
<1>6. CASE PurgeRemove
  <2>1. command \in CommandRecord /\ command # NoCommand
    BY <1>3, <1>6 DEF PurgeRemove
  <2>2. command.profile \in RuntimeProfiles
    BY <2>1 DEF CommandRecord
  <2>3. \A p \in agents : control'[p] # "absent"
    BY <1>6, <2>2 DEF PurgeRemove, PurgeSparesActive, VaultKeys
  <2>4. control' \in [RuntimeProfiles -> {"absent", "on", "off"}]
    BY <1>6, <2>2 DEF PurgeRemove
  <2> QED
    BY <1>2, <1>6, <2>1, <2>3, <2>4 DEF PurgeRemove
<1>7. CASE EndCommand
  <2>1. \A p \in agents : control'[p] # "absent"
    BY <1>7 DEF EndCommand, PurgeSparesActive, VaultKeys
  <2> QED
    BY <1>2, <1>7, <2>1 DEF EndCommand
<1> QED
  BY <1>1, <1>4, <1>5, <1>6, <1>7

LEMMA RuntimeStep ==
    ASSUME RuntimeInv, [RuntimeNext]_runtimeVars
    PROVE  RuntimeInv'
<1>1. CASE UNCHANGED runtimeVars
  BY <1>1 DEF runtimeVars, RuntimeInv, RuntimeTypes, LockHeld, RemovalStands,
              PurgeSparesActive, VaultKeys
<1>2. CASE RuntimeNext
  BY <1>2, HostSteps, WorkSteps, CommandSteps DEF RuntimeNext
<1> QED
  BY <1>1, <1>2

\* A profile is never purged under an open agent, for any number of profiles
\* and workers: a purge looks at the spool lock, releases it, and removes the
\* directory later, and in between the vault lock keeps every tick from
\* opening the agent again (profiles.py, purge; production_runtime.py, tick).
THEOREM PurgeSafe == RuntimeSpec => []PurgeSparesActive
<1>1. RuntimeInv /\ [RuntimeNext]_runtimeVars => RuntimeInv'
  BY RuntimeStep
<1>2. RuntimeInv => PurgeSparesActive
  BY DEF RuntimeInv
<1> QED
  BY <1>1, <1>2, RuntimeStarts, PTL DEF RuntimeSpec

-----------------------------------------------------------------------------
(* Waiting.  Places in an order are compared by their elements: p is ahead *)
(* of q when no place of q comes before one of p.                          *)
Ahead(s, p, q) == \A i, j \in DOMAIN s : s[i] = p /\ s[j] = q => i < j

\* A profile that was overtaken by q stays ahead of it: it is due at once, or
\* due earlier than q; or q has left the vault and must be imported again.
StillAhead(p, q) ==
    \/ q \notin scheduled /\ control[q] = "absent"
    \/ /\ q \in scheduled
       /\ \/ p \notin scheduled
          \/ p \in ToSet(waiting) /\ Ahead(waiting, p, q)

WaitInv ==
    /\ scheduled \in SUBSET RuntimeProfiles
    /\ waiting \in Seq(RuntimeProfiles) /\ ToSet(waiting) \in SUBSET scheduled
    /\ passed \in [RuntimeProfiles -> [RuntimeProfiles -> Nat]]
    /\ command.op \in {"pause", "resume"} => control[command.profile] # "absent"
    /\ NobodyStarves
    /\ \A p, q \in RuntimeProfiles : passed[p][q] # 0 => StillAhead(p, q)

\* What Without leaves: the other elements, in their order.
LEMMA WithoutIs ==
    ASSUME NEW s \in Seq(RuntimeProfiles), NEW gone
    PROVE  /\ Without(s, gone) \in Seq(RuntimeProfiles)
           /\ ToSet(Without(s, gone)) = ToSet(s) \ gone
           /\ \A p, q : Ahead(s, p, q) => Ahead(Without(s, gone), p, q)
<1> DEFINE places == {i \in DOMAIN s : s[i] \notin gone}
           t == Without(s, gone)
<1>1. t = Thinned(s, places)
  BY DEF Without
<1>2. DOMAIN s = 1 .. Len(s) /\ Len(s) \in Nat /\ places \in SUBSET (1 .. Len(s))
  OBVIOUS
<1> HIDE DEF t
<1>3. /\ t \in Seq(RuntimeProfiles)
      /\ \A n \in DOMAIN t : \E i \in places : t[n] = s[i]
  <2>1. places \in SUBSET DOMAIN s
    OBVIOUS
  <2> HIDE DEF places
  <2> QED
    BY <1>1, <2>1, ThinnedKeeps
<1>4. \A i \in places : \E n \in DOMAIN t : t[n] = s[i]
  <2>1. places \in SUBSET DOMAIN s
    OBVIOUS
  <2> HIDE DEF places
  <2> QED
    BY <1>1, <2>1, ThinnedHolds
<1>5. ToSet(t) = ToSet(s) \ gone
  BY <1>3, <1>4 DEF ToSet
<1>6. ASSUME NEW p, NEW q, Ahead(s, p, q), NEW i \in DOMAIN t, NEW j \in DOMAIN t, t[i] = p, t[j] = q
      PROVE  i < j
  <2> HIDE DEF places
  <2>1. DOMAIN t = 1 .. Cardinality(places) /\ t[i] = s[Place(places, i)] /\ t[j] = s[Place(places, j)]
    BY <1>1 DEF Thinned
  <2>2. Cardinality(places) \in Nat
    BY <1>2, LowerCounts
  <2>3. Place(places, i) \in places /\ Place(places, j) \in places
    BY <1>2, <2>1, PlaceIs
  <2>4. Place(places, i) < Place(places, j)
    BY <1>2, <1>6, <2>1, <2>3 DEF Ahead
  <2>41. Place(places, i) \in Int /\ Place(places, j) \in Int
    <3>1. \A x \in places : x \in Int
      BY <1>2
    <3> QED
      BY <2>3, <3>1
  <2>5. i # j
    BY <2>4, <2>41
  <2>6. ~(j < i)
    <3>1. SUFFICES ASSUME j < i PROVE FALSE
      OBVIOUS
    <3>2. Place(places, j) < Place(places, i)
      BY <1>2, <2>1, <3>1, PlacesInOrder
    <3> QED
      BY <2>4, <2>41, <3>2
  <2> QED
    BY <2>1, <2>2, <2>5, <2>6
<1> QED
  BY <1>3, <1>5, <1>6 DEF Ahead, t

LEMMA ListOfProfiles ==
    ASSUME NEW S \in SUBSET RuntimeProfiles
    PROVE  SetToSeq(S) \in Seq(RuntimeProfiles) /\ ToSet(SetToSeq(S)) = S
<1>1. IsFiniteSet(S)
  BY RuntimeAssumption, FS_Subset
<1>2. SetToSeq(S) \in Seq(S) /\ ToSet(SetToSeq(S)) = S
  BY <1>1, ListOfSet
<1> QED
  BY <1>2

\* In the order in which a tick goes through the ripe profiles, one without a
\* due time or with an earlier one comes first.
LEMMA RipeOrderIs ==
    ASSUME RuntimeTypes, WaitInv
    PROVE  /\ RipeOrder \in Seq(RuntimeProfiles)
           /\ ToSet(RipeOrder) \in SUBSET (Runnable \ InFlight)
           /\ \A p \in ToSet(RipeOrder) : p \in scheduled => p \in ToSet(waiting)
           /\ \A p, q \in RuntimeProfiles : StillAhead(p, q) /\ control[q] # "absent" =>
                Ahead(RipeOrder, p, q)
<1> DEFINE free == (Runnable \ InFlight) \ scheduled
           a == SetToSeq(free)
           b == Without(waiting, RuntimeProfiles \ (Runnable \ InFlight))
<1>1. free \in SUBSET RuntimeProfiles
  BY DEF Runnable, RuntimeTypes, HostRecord
<1>2. a \in Seq(RuntimeProfiles) /\ ToSet(a) = free
  BY <1>1, ListOfProfiles
<1>3. /\ b \in Seq(RuntimeProfiles)
      /\ ToSet(b) = ToSet(waiting) \ (RuntimeProfiles \ (Runnable \ InFlight))
      /\ \A p, q : Ahead(waiting, p, q) => Ahead(b, p, q)
  BY WithoutIs DEF WaitInv
<1>4. ToSet(waiting) \in SUBSET scheduled /\ scheduled \in SUBSET RuntimeProfiles
  BY DEF WaitInv
<1>5. RipeOrder = a \o b
  BY DEF RipeOrder
<1>51. ToSet(a) \in SUBSET (Runnable \ InFlight) /\ ToSet(b) \in SUBSET (Runnable \ InFlight)
  BY <1>2, <1>3, <1>4
<1>52. ToSet(a) \cap scheduled = {} /\ ToSet(b) \in SUBSET ToSet(waiting)
  BY <1>2, <1>3
<1> HIDE DEF a, b, free
<1>6. /\ a \o b \in Seq(RuntimeProfiles) /\ DOMAIN (a \o b) = 1 .. Len(a) + Len(b)
      /\ Len(a) \in Nat /\ Len(b) \in Nat /\ DOMAIN a = 1 .. Len(a) /\ DOMAIN b = 1 .. Len(b)
      /\ \A i \in 1 .. Len(a) : (a \o b)[i] = a[i]
      /\ \A i \in Len(a) + 1 .. Len(a) + Len(b) : (a \o b)[i] = b[i - Len(a)]
  BY <1>2, <1>3
<1>7. ASSUME NEW i \in DOMAIN (a \o b)
      PROVE  \/ i <= Len(a) /\ (a \o b)[i] \in ToSet(a)
             \/ i > Len(a) /\ i - Len(a) \in DOMAIN b /\ (a \o b)[i] = b[i - Len(a)]
                  /\ (a \o b)[i] \in ToSet(b)
  <2>1. CASE i <= Len(a)
    <3>1. i \in DOMAIN a /\ (a \o b)[i] = a[i]
      BY <1>6, <2>1
    <3> QED
      BY <2>1, <3>1 DEF ToSet
  <2>2. CASE i > Len(a)
    <3>1. i - Len(a) \in DOMAIN b /\ (a \o b)[i] = b[i - Len(a)]
      BY <1>6, <2>2
    <3> QED
      BY <2>2, <3>1 DEF ToSet
  <2> QED
    BY <1>6, <2>1, <2>2
<1>8. ToSet(a \o b) \in SUBSET (ToSet(a) \cup ToSet(b))
  <2>1. \A x \in ToSet(a \o b) : \E i \in DOMAIN (a \o b) : x = (a \o b)[i]
    BY DEF ToSet
  <2> QED
    BY <1>7, <2>1
<1>9. ASSUME NEW p \in RuntimeProfiles, NEW q \in RuntimeProfiles, StillAhead(p, q),
             control[q] # "absent"
      PROVE  Ahead(a \o b, p, q)
  <2> SUFFICES ASSUME NEW i \in DOMAIN (a \o b), NEW j \in DOMAIN (a \o b),
                      (a \o b)[i] = p, (a \o b)[j] = q
               PROVE  i < j
    BY DEF Ahead
  <2>1. q \in scheduled /\ (p \notin scheduled \/ (p \in ToSet(waiting) /\ Ahead(waiting, p, q)))
    BY <1>9 DEF StillAhead
  <2>2. j > Len(a) /\ j - Len(a) \in DOMAIN b /\ q = b[j - Len(a)]
    BY <1>7, <1>52, <2>1
  <2>3. CASE p \notin scheduled
    <3>1. i <= Len(a)
      BY <1>4, <1>52, <1>7, <2>3
    <3> QED
      BY <1>6, <2>2, <3>1
  <2>4. CASE p \in ToSet(waiting) /\ Ahead(waiting, p, q)
    <3>1. p \in scheduled
      BY <1>4, <2>4
    <3>2. i - Len(a) \in DOMAIN b /\ p = b[i - Len(a)]
      BY <1>52, <1>7, <3>1
    <3>3. i - Len(a) < j - Len(a)
      BY <1>3, <2>2, <2>4, <3>2 DEF Ahead
    <3> QED
      BY <1>6, <3>3
  <2> QED
    BY <2>1, <2>3, <2>4
<1> QED
  BY <1>5, <1>51, <1>52, <1>6, <1>8, <1>9

\* Who comes earlier in the order is started too.
LEMMA EarlierStarts ==
    ASSUME RuntimeTypes, WaitInv, NEW broken, NEW p \in RuntimeProfiles, NEW q \in RuntimeProfiles,
           p \in ToSet(RipeOrder), p \notin broken, q \in StartedNow(broken), Ahead(RipeOrder, p, q)
    PROVE  p \in StartedNow(broken)
<1> DEFINE order == RipeOrder
<1>1. order \in Seq(RuntimeProfiles) /\ ToSet(order) \in SUBSET (Runnable \ InFlight)
  BY RipeOrderIs
<1>2. ~(host.pause \/ host.stop) /\ q \in Admitted(order, broken)
  BY DEF StartedNow
<1>3. PICK j \in DOMAIN order : order[j] = q /\ Taken(order, j, broken) <= Room
  BY <1>2 DEF Admitted
<1>4. PICK i \in DOMAIN order : order[i] = p
  BY DEF ToSet
<1>5. i < j
  BY <1>3, <1>4 DEF Ahead
<1>6. Taken(order, i, broken) <= Room
  <2> HIDE DEF order
  <2> DEFINE I == {k \in 1 .. i : order[k] \notin broken}
             J == {k \in 1 .. j : order[k] \notin broken}
  <2>1. i \in Nat /\ j \in Nat
    BY <1>1
  <2>2. I \in SUBSET J /\ J \in SUBSET (1 .. j)
    BY <1>5, <2>1
  <2> HIDE DEF I, J
  <2>3. IsFiniteSet(J) /\ Cardinality(J) \in Nat
    BY <2>1, <2>2, LowerCounts
  <2>4. Cardinality(I) <= Cardinality(J) /\ Cardinality(I) \in Nat
    BY <2>2, <2>3, FS_Subset, FS_CardinalityType
  <2>5. Room \in Int
    <3>1. InFlight \in SUBSET RuntimeProfiles
      BY DEF InFlight
    <3>2. Cardinality(InFlight) \in Nat
      BY <3>1, RuntimeAssumption, FS_Subset, FS_CardinalityType
    <3> QED
      BY <3>2, RuntimeAssumption DEF Room
  <2>6. Taken(order, i, broken) = Cardinality(I) /\ Taken(order, j, broken) = Cardinality(J)
    BY DEF Taken, I, J
  <2> QED
    BY <1>3, <2>3, <2>4, <2>5, <2>6
<1>7. p \in (Runnable \ InFlight) \ broken
  BY <1>1
<1>8. p \in Admitted(order, broken)
  BY <1>4, <1>6, <1>7 DEF Admitted
<1> QED
  BY <1>2, <1>8 DEF StartedNow

LEMMA WaitInitially ==
    ASSUME RuntimeInit
    PROVE  WaitInv
<1>1. waiting \in Seq(RuntimeProfiles) /\ ToSet(waiting) = {}
  BY DEF RuntimeInit, ToSet
<1>2. passed = NoOvertaking /\ scheduled = {} /\ command.op = "none"
  BY DEF RuntimeInit, NoCommand
<1>3. /\ passed \in [RuntimeProfiles -> [RuntimeProfiles -> Nat]]
      /\ \A p, q \in RuntimeProfiles : passed[p][q] = 0
  BY <1>2 DEF NoOvertaking
<1> QED
  BY <1>1, <1>2, <1>3 DEF WaitInv, NobodyStarves

LEMMA TickWorkWaits ==
    ASSUME RuntimeInv, WaitInv, NEW broken \in SUBSET RuntimeProfiles, TickWork(broken)
    PROVE  WaitInv'
<1> DEFINE started == StartedNow(broken)
           left == ToSet(RipeOrder) \ (started \cup broken)
<1>0. RuntimeTypes
  BY DEF RuntimeInv
<1>1. /\ scheduled \in SUBSET RuntimeProfiles /\ waiting \in Seq(RuntimeProfiles)
      /\ ToSet(waiting) \in SUBSET scheduled
      /\ passed \in [RuntimeProfiles -> [RuntimeProfiles -> Nat]]
      /\ (\A p, q \in RuntimeProfiles : passed[p][q] <= 1)
      /\ \A p, q \in RuntimeProfiles : passed[p][q] # 0 => StillAhead(p, q)
  BY DEF WaitInv, NobodyStarves
<1>2. started \in SUBSET RuntimeProfiles /\ \A q \in started : control[q] = "on"
  BY <1>0, StartedEnabled
<1>3. /\ scheduled' = scheduled \cup started \cup broken
      /\ waiting' = Without(waiting, started \cup broken)
      /\ passed' = Overtaken(started, broken) /\ UNCHANGED <<control, command>>
  BY DEF TickWork
<1>4. /\ waiting' \in Seq(RuntimeProfiles) /\ ToSet(waiting') = ToSet(waiting) \ (started \cup broken)
      /\ \A p, q : Ahead(waiting, p, q) => Ahead(waiting', p, q)
  BY <1>1, <1>3, WithoutIs
<1> HIDE DEF started
<1>5. /\ ToSet(RipeOrder) \in SUBSET RuntimeProfiles
      /\ \A p \in ToSet(RipeOrder) : p \in scheduled => p \in ToSet(waiting)
      /\ \A p, q \in RuntimeProfiles : StillAhead(p, q) /\ control[q] # "absent" =>
           Ahead(RipeOrder, p, q)
  <2>1. Runnable \in SUBSET RuntimeProfiles
    BY <1>0 DEF Runnable, RuntimeTypes, HostRecord
  <2> QED
    BY <1>0, <2>1, RipeOrderIs
<1>6. ASSUME NEW p \in RuntimeProfiles, NEW q \in RuntimeProfiles
      PROVE  /\ passed'[p][q] \in Nat /\ passed'[p][q] <= 1
             /\ passed'[p][q] # 0 =>
                  p \in left /\ ((q \in started /\ passed[p][q] = 0)
                                 \/ (q \notin started /\ passed[p][q] # 0))
  <2>0. passed[p][q] \in Nat /\ passed[p][q] <= 1
    BY <1>1
  <2>1. passed'[p][q] = IF p \in left
                        THEN IF q \in started /\ passed[p][q] < 2 THEN passed[p][q] + 1 ELSE passed[p][q]
                        ELSE 0
    BY <1>3 DEF Overtaken
  <2>2. CASE p \in left /\ q \in started /\ passed[p][q] # 0
    <3>1. StillAhead(p, q) /\ control[q] # "absent"
      BY <1>1, <1>2, <2>2
    <3>2. Ahead(RipeOrder, p, q)
      BY <1>5, <3>1
    <3>3. p \in started
      BY <1>0, <2>2, <3>2, EarlierStarts DEF started
    <3> QED
      BY <2>2, <3>3
  <2>3. CASE ~(p \in left /\ q \in started /\ passed[p][q] # 0)
    BY <2>0, <2>1, <2>3
  <2> QED
    BY <2>2, <2>3
<1>7. ASSUME NEW p \in RuntimeProfiles, NEW q \in RuntimeProfiles, passed'[p][q] # 0
      PROVE  StillAhead(p, q)'
  <2>1. p \in left /\ p \notin started /\ p \notin broken
    BY <1>6, <1>7
  <2>2. p \in scheduled => p \in ToSet(waiting)
    BY <1>5, <2>1
  <2>3. p \notin scheduled => p \notin scheduled'
    BY <1>3, <2>1
  <2>4. p \in ToSet(waiting) => p \in ToSet(waiting')
    BY <1>4, <2>1
  <2>5. CASE q \in started \cup broken
    <3>1. q \in scheduled' /\ q \notin ToSet(waiting')
      BY <1>3, <1>4, <2>5
    <3>2. Ahead(waiting', p, q)
      BY <3>1 DEF Ahead, ToSet
    <3> QED
      BY <2>2, <2>3, <2>4, <3>1, <3>2 DEF StillAhead, ToSet, Ahead
  <2>6. CASE q \notin started \cup broken
    <3>1. StillAhead(p, q) /\ (q \in scheduled' <=> q \in scheduled)
      BY <1>1, <1>3, <1>6, <1>7, <2>6
    <3>2. Ahead(waiting, p, q) => Ahead(waiting', p, q)
      BY <1>4
    <3>3. control'[q] = control[q]
      BY <1>3
    <3> QED
      BY <2>2, <2>3, <2>4, <3>1, <3>2, <3>3 DEF StillAhead, ToSet, Ahead
  <2> QED
    BY <2>5, <2>6
<1>8. passed' \in [RuntimeProfiles -> [RuntimeProfiles -> Nat]]
  <2>1. \A p \in RuntimeProfiles : passed'[p] = [q \in RuntimeProfiles |-> passed'[p][q]]
    BY <1>3 DEF Overtaken
  <2>2. passed' = [p \in RuntimeProfiles |-> passed'[p]]
    BY <1>3 DEF Overtaken
  <2>3. \A p \in RuntimeProfiles : passed'[p] \in [RuntimeProfiles -> Nat]
    BY <1>6, <2>1
  <2> QED
    BY <2>2, <2>3
<1>9. scheduled' \in SUBSET RuntimeProfiles /\ ToSet(waiting') \in SUBSET scheduled'
  BY <1>1, <1>2, <1>3, <1>4
<1>10. NobodyStarves'
  BY <1>6 DEF NobodyStarves
<1>11. command'.op \in {"pause", "resume"} => control'[command'.profile] # "absent"
  BY <1>3 DEF WaitInv
<1>12. ToSet(waiting)' = ToSet(waiting')
  BY DEF ToSet
<1> QED
  BY <1>4, <1>7, <1>8, <1>9, <1>10, <1>11, <1>12 DEF WaitInv

LEMMA WaitStep ==
    ASSUME RuntimeInv, WaitInv, [RuntimeNext]_runtimeVars
    PROVE  WaitInv'
<1>0. /\ scheduled \in SUBSET RuntimeProfiles /\ waiting \in Seq(RuntimeProfiles)
      /\ ToSet(waiting) \in SUBSET scheduled
      /\ passed \in [RuntimeProfiles -> [RuntimeProfiles -> Nat]]
      /\ (command.op \in {"pause", "resume"} => control[command.profile] # "absent")
      /\ NobodyStarves
      /\ \A p, q \in RuntimeProfiles : passed[p][q] # 0 => StillAhead(p, q)
  BY DEF WaitInv
<1>1. /\ control \in [RuntimeProfiles -> {"absent", "on", "off"}]
      /\ command \in CommandRecord \cup {NoCommand}
  BY DEF RuntimeInv, RuntimeTypes
\* Steps that leave the waiting profiles alone.
<1>2. ASSUME UNCHANGED <<scheduled, waiting, passed, control>>,
             command'.op \in {"pause", "resume"} => control[command'.profile] # "absent"
      PROVE  WaitInv'
  BY <1>0, <1>2 DEF WaitInv, NobodyStarves, StillAhead, ToSet, Ahead
<1>3. ASSUME scheduled' = {}, waiting' = <<>>, passed' = NoOvertaking, UNCHANGED <<control, command>>
      PROVE  WaitInv'
  <2>1. waiting' \in Seq(RuntimeProfiles) /\ ToSet(waiting)' = {}
    BY <1>3 DEF ToSet
  <2>2. /\ passed' \in [RuntimeProfiles -> [RuntimeProfiles -> Nat]]
        /\ \A p, q \in RuntimeProfiles : passed'[p][q] = 0
    BY <1>3 DEF NoOvertaking
  <2> QED
    BY <1>0, <1>3, <2>1, <2>2 DEF WaitInv, NobodyStarves
<1>4. CASE TickList
  <2> DEFINE keep == VaultKeys \cup agents \cup {p \in RuntimeProfiles : cycles'[p] # "none"}
             gone == RuntimeProfiles \ keep
  <2>1. /\ scheduled' = scheduled \cap keep /\ waiting' = Without(waiting, gone)
        /\ UNCHANGED <<control, command, passed>>
    BY <1>4 DEF TickList
  <2>2. \A q \in gone : control[q] = "absent"
    BY DEF VaultKeys
  <2> HIDE DEF keep
  <2>3. /\ waiting' \in Seq(RuntimeProfiles) /\ ToSet(waiting') = ToSet(waiting) \ gone
        /\ \A p, q : Ahead(waiting, p, q) => Ahead(waiting', p, q)
    BY <1>0, <2>1, WithoutIs
  <2>4. ASSUME NEW p \in RuntimeProfiles, NEW q \in RuntimeProfiles, passed[p][q] # 0
        PROVE  StillAhead(p, q)'
    <3>1. StillAhead(p, q)
      BY <1>0, <2>4
    <3>2. CASE q \notin scheduled'
      <4>1. control'[q] = "absent"
        BY <2>1, <2>2, <3>1, <3>2 DEF StillAhead
      <4> QED
        BY <3>2, <4>1 DEF StillAhead
    <3>3. CASE q \in scheduled'
      <4>1. q \in scheduled /\ (p \notin scheduled \/ (p \in ToSet(waiting) /\ Ahead(waiting, p, q)))
        BY <2>1, <3>1, <3>3 DEF StillAhead
      <4>2. CASE p \in keep
        <5>1. p \notin scheduled' \/ (p \in ToSet(waiting') /\ Ahead(waiting', p, q))
          BY <2>1, <2>3, <4>1, <4>2
        <5> QED
          BY <3>3, <5>1 DEF StillAhead, ToSet, Ahead
      <4>3. CASE p \notin keep
        BY <2>1, <3>3, <4>3 DEF StillAhead
      <4> QED
        BY <4>2, <4>3
    <3> QED
      BY <3>2, <3>3
  <2>5. scheduled' \in SUBSET RuntimeProfiles /\ ToSet(waiting') \in SUBSET scheduled'
    BY <1>0, <2>1, <2>3
  <2>6. NobodyStarves'
    BY <1>0, <2>1 DEF NobodyStarves
  <2> QED
    BY <1>0, <2>1, <2>3, <2>4, <2>5, <2>6 DEF WaitInv, ToSet
<1>5. ASSUME NEW p \in RuntimeProfiles, FallDue(p)
      PROVE  WaitInv'
  <2>1. /\ p \in scheduled /\ p \notin ToSet(waiting) /\ waiting' = Append(waiting, p)
        /\ UNCHANGED <<control, command, passed, scheduled>>
    BY <1>5 DEF FallDue
  <2>2. /\ waiting' \in Seq(RuntimeProfiles) /\ DOMAIN waiting' = DOMAIN waiting \cup {Len(waiting) + 1}
        /\ DOMAIN waiting = 1 .. Len(waiting) /\ Len(waiting) \in Nat
        /\ (\A i \in DOMAIN waiting : waiting'[i] = waiting[i]) /\ waiting'[Len(waiting) + 1] = p
    <3>1. waiting \in Seq(RuntimeProfiles)
      BY <1>0
    <3>2. Len(waiting) \in Nat /\ DOMAIN waiting = 1 .. Len(waiting)
      BY <3>1
    <3>3. Append(waiting, p) \in Seq(RuntimeProfiles) /\ Len(Append(waiting, p)) = Len(waiting) + 1
      BY <3>1
    <3>4. DOMAIN Append(waiting, p) = 1 .. Len(waiting) + 1
      BY <3>2, <3>3
    <3>5. /\ \A i \in 1 .. Len(waiting) : Append(waiting, p)[i] = waiting[i]
          /\ Append(waiting, p)[Len(waiting) + 1] = p
      BY <3>1, <3>2
    <3>6. 1 .. Len(waiting) + 1 = (1 .. Len(waiting)) \cup {Len(waiting) + 1}
      BY <3>2
    <3> QED
      BY <2>1, <3>2, <3>3, <3>4, <3>5, <3>6
  <2>3. ToSet(waiting') = ToSet(waiting) \cup {p}
    BY <2>2 DEF ToSet
  <2>4. ASSUME NEW r \in RuntimeProfiles, NEW q \in RuntimeProfiles, passed[r][q] # 0
        PROVE  StillAhead(r, q)'
    <3>1. StillAhead(r, q)
      BY <1>0, <2>4
    <3>2. CASE q \notin scheduled \/ r \notin scheduled
      BY <2>1, <3>1, <3>2 DEF StillAhead
    <3>3. CASE q \in scheduled /\ r \in scheduled
      <4>1. r \in ToSet(waiting) /\ Ahead(waiting, r, q)
        BY <3>1, <3>3 DEF StillAhead
      <4>2. r # p
        BY <2>1, <4>1
      <4>3. Ahead(waiting', r, q)
        <5> SUFFICES ASSUME NEW i \in DOMAIN waiting', NEW j \in DOMAIN waiting',
                            waiting'[i] = r, waiting'[j] = q
                     PROVE  i < j
          BY DEF Ahead
        <5>1. i \in DOMAIN waiting /\ waiting[i] = r
          BY <2>2, <4>2
        <5>2. CASE j \in DOMAIN waiting
          BY <2>2, <4>1, <5>1, <5>2 DEF Ahead
        <5>3. CASE j = Len(waiting) + 1
          BY <2>2, <5>1, <5>3
        <5> QED
          BY <2>2, <5>2, <5>3
      <4> QED
        BY <2>1, <2>3, <3>3, <4>1, <4>3 DEF StillAhead, ToSet, Ahead
    <3> QED
      BY <3>2, <3>3
  <2>5. NobodyStarves' /\ ToSet(waiting') \in SUBSET scheduled'
    BY <1>0, <2>1, <2>3 DEF NobodyStarves
  <2> QED
    BY <1>0, <2>1, <2>2, <2>4, <2>5 DEF WaitInv, ToSet
<1>6. command.op # "none" => command \in CommandRecord
  BY <1>1 DEF NoCommand
<1>7. CASE ApplyCommand
  <2> DEFINE c == command.profile
  <2>1. c \in RuntimeProfiles
    BY <1>6, <1>7 DEF ApplyCommand, CommandRecord
  <2>2. /\ control' \in [RuntimeProfiles -> {"absent", "on", "off"}]
        /\ (\A q \in RuntimeProfiles : q # c => control'[q] = control[q])
        /\ UNCHANGED <<scheduled, waiting>> /\ command' = NoCommand
    BY <1>1, <1>7, <2>1 DEF ApplyCommand
  <2>3. command'.op = "none"
    BY <2>2 DEF NoCommand
  <2>4. CASE command.op = "import"
    <3>1. passed' = [p \in RuntimeProfiles |-> [passed[p] EXCEPT ![c] = 0]]
      BY <1>7, <2>4 DEF ApplyCommand
    <3>2. ASSUME NEW p \in RuntimeProfiles
          PROVE  /\ passed'[p] \in [RuntimeProfiles -> Nat]
                 /\ \A q \in RuntimeProfiles : passed'[p][q] = IF q = c THEN 0 ELSE passed[p][q]
      BY <1>0, <2>1, <3>1
    <3>3. passed' \in [RuntimeProfiles -> [RuntimeProfiles -> Nat]]
      BY <3>1, <3>2
    <3>4. NobodyStarves'
      <4>1. \A p, q \in RuntimeProfiles : passed[p][q] <= 1
        BY <1>0 DEF NobodyStarves
      <4>2. \A p, q \in RuntimeProfiles : passed'[p][q] <= 1
        BY <3>2, <4>1
      <4> QED
        BY <4>2 DEF NobodyStarves
    <3>5. ASSUME NEW p \in RuntimeProfiles, NEW q \in RuntimeProfiles, passed'[p][q] # 0
          PROVE  StillAhead(p, q)'
      <4>1. q # c /\ StillAhead(p, q)
        BY <1>0, <3>2, <3>5
      <4> QED
        BY <2>2, <4>1 DEF StillAhead, ToSet, Ahead
    <3> QED
      BY <1>0, <2>2, <2>3, <3>3, <3>4, <3>5 DEF WaitInv, ToSet
  <2>5. CASE command.op # "import"
    <3>1. UNCHANGED passed /\ control[c] # "absent"
      BY <1>0, <1>7, <2>5 DEF ApplyCommand
    <3>2. ASSUME NEW p \in RuntimeProfiles, NEW q \in RuntimeProfiles, passed'[p][q] # 0
          PROVE  StillAhead(p, q)'
      <4>1. StillAhead(p, q)
        BY <1>0, <3>1, <3>2
      <4>2. q \in scheduled \/ control'[q] = "absent"
        BY <2>2, <3>1, <4>1 DEF StillAhead
      <4> QED
        BY <2>2, <4>1, <4>2 DEF StillAhead, ToSet, Ahead
    <3>3. NobodyStarves'
      BY <1>0, <3>1 DEF NobodyStarves
    <3> QED
      BY <1>0, <2>2, <2>3, <3>1, <3>2, <3>3 DEF WaitInv, ToSet
  <2> QED
    BY <2>4, <2>5
<1>8. CASE PurgeRemove
  <2>1. command.profile \in RuntimeProfiles
    BY <1>6, <1>8 DEF PurgeRemove, CommandRecord
  <2>2. /\ \A q \in RuntimeProfiles : control'[q] = control[q] \/ control'[q] = "absent"
        /\ UNCHANGED <<scheduled, waiting, passed>> /\ command' = NoCommand
    BY <1>1, <1>8, <2>1 DEF PurgeRemove
  <2>3. command'.op = "none"
    BY <2>2 DEF NoCommand
  <2>4. ASSUME NEW p \in RuntimeProfiles, NEW q \in RuntimeProfiles, passed'[p][q] # 0
        PROVE  StillAhead(p, q)'
    <3>1. StillAhead(p, q)
      BY <1>0, <2>2, <2>4
    <3> QED
      BY <2>2, <3>1 DEF StillAhead, ToSet, Ahead
  <2>5. NobodyStarves'
    BY <1>0, <2>2 DEF NobodyStarves
  <2> QED
    BY <1>0, <2>2, <2>3, <2>4, <2>5 DEF WaitInv, ToSet
<1>9. ASSUME NEW op \in {"import", "pause", "resume", "purge"}, NEW p \in RuntimeProfiles,
             BeginCommand(op, p)
      PROVE  WaitInv'
  <2>1. UNCHANGED <<scheduled, waiting, passed, control>> /\ command' = [op |-> op, profile |-> p]
    BY <1>9 DEF BeginCommand
  <2>2. op # "import" => control[p] # "absent"
    BY <1>9 DEF BeginCommand
  <2> QED
    BY <1>2, <2>1, <2>2
<1>10. CASE PurgeCheck \/ EndCommand
  <2>1. UNCHANGED <<scheduled, waiting, passed, control>>
    BY <1>10 DEF PurgeCheck, EndCommand
  <2>2. command'.op \notin {"pause", "resume"}
    <3>1. CASE PurgeCheck
      <4>1. command \in CommandRecord
        BY <1>6, <3>1 DEF PurgeCheck
      <4> QED
        BY <3>1, <4>1 DEF PurgeCheck, CommandRecord
    <3>2. CASE EndCommand
      BY <3>2 DEF EndCommand, NoCommand
    <3> QED
      BY <1>10, <3>1, <3>2
  <2> QED
    BY <1>2, <2>1, <2>2
<1>11. CASE StartHost \/ TickLock \/ (\E pause, stop \in BOOLEAN : Control(pause, stop))
            \/ \E p \in RuntimeProfiles : CycleEnds(p)
  <2>1. UNCHANGED <<scheduled, waiting, passed, control, command>>
    BY <1>11 DEF StartHost, TickLock, Control, CycleEnds
  <2> QED
    BY <1>0, <1>2, <2>1
<1>12. CASE CloseHost \/ KillHost
  BY <1>3, <1>12 DEF CloseHost, KillHost
<1>13. CASE UNCHANGED runtimeVars
  BY <1>0, <1>2, <1>13 DEF runtimeVars
<1> QED
  BY <1>4, <1>5, <1>7, <1>8, <1>9, <1>10, <1>11, <1>12, <1>13, TickWorkWaits DEF RuntimeNext

\* No ripe profile starves: each of the others overtakes it at most once, for
\* any number of profiles and workers, however cycles, failed agents, pauses,
\* purges, imports and restarts interleave (production_runtime.py, tick).
THEOREM NoStarvation == RuntimeSpec => []NobodyStarves
<1>1. RuntimeInit => RuntimeInv /\ WaitInv
  BY RuntimeStarts, WaitInitially
<1>2. RuntimeInv /\ WaitInv /\ [RuntimeNext]_runtimeVars => RuntimeInv' /\ WaitInv'
  BY RuntimeStep, WaitStep
<1>3. WaitInv => NobodyStarves
  BY DEF WaitInv
<1> QED
  BY <1>1, <1>2, <1>3, PTL DEF RuntimeSpec

-----------------------------------------------------------------------------
(* The measuring cycle.                                                    *)

CycleShape ==
    /\ cycle = [stage |-> cycle.stage, late |-> cycle.late, api |-> cycle.api,
                entries |-> cycle.entries, slots |-> cycle.slots, egress |-> cycle.egress]
    /\ baselineFile = [seen |-> baselineFile.seen, kept |-> baselineFile.kept]
    /\ memory = [baseline |-> memory.baseline, pending |-> memory.pending]

Measuring == {"controller", "nodes", "cache", "direct", "egress"}

\* The number of the sample under way.
CountOK ==
    /\ cycle.stage \in Measuring => collected < MaxSamples
    /\ cycle.stage \in {"encode", "append"} => collected \in 1 .. MaxSamples

\* A staged address belongs to a sample that is spooled or refused, or to
\* the one that is about to be.
PendingOwned ==
    memory.pending # Nothing =>
        \/ memory.pending.of \in carried \cup refused
        \/ cycle.stage \in {"encode", "append"} /\ memory.pending.of = collected

CycleInv == CycleTypeOK /\ CycleShape /\ CountOK /\ PendingOwned /\ BaselineCarried

LEMMA CycleStarts == CycleInit => CycleInv
<1> SUFFICES ASSUME CycleInit PROVE CycleInv
  OBVIOUS
<1>1. /\ memory.baseline = Nothing /\ memory.pending = Nothing
      /\ baselineFile.seen = Nothing /\ baselineFile.kept = Nothing
  BY DEF CycleInit
<1>2. cycle.stage = "down" /\ cycle.entries = {}
  BY DEF CycleInit, NoCycle
<1>3. CycleShape
  BY DEF CycleInit, CycleShape, NoCycle
<1>4. CycleTypeOK
  BY <1>2, CycleAssumption DEF CycleInit, CycleTypeOK, Stages
<1> QED
  BY <1>1, <1>2, <1>3, <1>4 DEF CycleInv, CountOK, PendingOwned, BaselineCarried, Measuring

\* The steps that only gather evidence.
LEMMA EvidenceSteps ==
    ASSUME CycleInv,
           \/ DeadlinePasses
           \/ \E version, proxies \in ControllerAnswers : ReadController(version, proxies)
           \/ \E role \in Roles, present \in BOOLEAN, reply \in DelayReplies :
                TestNode(role, present, reply)
           \/ \E selected \in Roles \cup {"other"}, cached \in {"positive", "zero", "absent"} :
                ReadCache(selected, cached)
           \/ \E name \in PlainSlots, answer \in SlotAnswers : ProbeSlot(name, answer)
    PROVE  CycleInv'
<1> DEFINE Roled(E) == {e.role : e \in E} \subseteq Roles
<1>0. Roled(cycle.entries) /\ cycle.stage \in Stages
  BY DEF CycleInv, CycleTypeOK
<1>1. ASSUME cycle.stage \in Measuring, cycle'.stage \in Measuring, Roled(cycle'.entries),
             cycle' = [stage |-> cycle'.stage, late |-> cycle'.late, api |-> cycle'.api,
                       entries |-> cycle'.entries, slots |-> cycle'.slots,
                       egress |-> cycle'.egress],
             UNCHANGED <<office, baselineFile, memory, collected, carried, refused>>
      PROVE  CycleInv'
  <2>1. CycleTypeOK'
    BY <1>1 DEF CycleInv, CycleTypeOK, Stages, Measuring
  <2>2. CycleShape' /\ BaselineCarried'
    BY <1>1 DEF CycleInv, CycleShape, BaselineCarried
  <2>3. CountOK' /\ PendingOwned'
    BY <1>1 DEF CycleInv, CountOK, PendingOwned, Measuring
  <2> QED
    BY <2>1, <2>2, <2>3 DEF CycleInv
<1>2. CASE DeadlinePasses
  <2>1. cycle' = [stage |-> cycle.stage, late |-> TRUE, api |-> cycle.api,
                  entries |-> cycle.entries, slots |-> cycle.slots, egress |-> cycle.egress]
    BY <1>2 DEF DeadlinePasses, CycleInv, CycleShape
  <2> QED
    BY <1>0, <1>1, <1>2, <2>1 DEF DeadlinePasses, Measuring
<1>3. ASSUME NEW version, NEW proxies, ReadController(version, proxies)
      PROVE  CycleInv'
  <2>1. PICK api : cycle' = [cycle EXCEPT !.stage = "nodes", !.api = api]
    BY <1>3 DEF ReadController
  <2>2. cycle' = [stage |-> "nodes", late |-> cycle.late, api |-> api,
                  entries |-> cycle.entries, slots |-> cycle.slots, egress |-> cycle.egress]
    BY <2>1 DEF CycleInv, CycleShape
  <2> QED
    BY <1>0, <1>1, <1>3, <2>2 DEF ReadController, Measuring
<1>4. ASSUME NEW role \in Roles, NEW present, NEW reply, TestNode(role, present, reply)
      PROVE  CycleInv'
  <2> DEFINE outcome == IF cycle.api # "ok" THEN "unavailable"
                        ELSE IF ~present THEN "invalid"
                        ELSE IF cycle.late THEN "unavailable" ELSE DelayOutcome(reply)
             entries == cycle.entries \cup {Entry(role, "active_delay", outcome)}
             stage == IF {e.role : e \in entries} = Roles THEN "cache" ELSE cycle.stage
  <2>0. cycle.stage = "nodes"
    BY <1>4 DEF TestNode
  <2>1. cycle' = [cycle EXCEPT !.entries = entries, !.stage = stage]
    BY <1>4, Zenon DEF TestNode
  <2>2. Roled(entries)
    BY <1>0 DEF Entry
  <2>3. stage \in {"nodes", "cache"}
    BY <2>0
  <2> HIDE DEF entries, stage
  <2>4. cycle' = [stage |-> stage, late |-> cycle.late, api |-> cycle.api,
                  entries |-> entries, slots |-> cycle.slots, egress |-> cycle.egress]
    BY <2>1 DEF CycleInv, CycleShape
  <2>5. cycle'.stage = stage /\ cycle'.entries = entries
    BY <2>4
  <2>6. cycle' = [stage |-> cycle'.stage, late |-> cycle'.late, api |-> cycle'.api,
                  entries |-> cycle'.entries, slots |-> cycle'.slots, egress |-> cycle'.egress]
    BY <2>4
  <2>7. UNCHANGED <<office, baselineFile, memory, collected, carried, refused>>
    BY <1>4 DEF TestNode
  <2>8. cycle.stage \in Measuring /\ cycle'.stage \in Measuring
    BY <2>0, <2>3, <2>5 DEF Measuring
  <2>9. Roled(cycle'.entries)
    BY <2>2, <2>5
  <2> QED
    BY <1>1, <2>6, <2>7, <2>8, <2>9
<1>5. ASSUME NEW selected, NEW cached, ReadCache(selected, cached)
      PROVE  CycleInv'
  <2> DEFINE outcome == IF cached = "positive" THEN "ok" ELSE "unavailable"
             passive == IF selected \in Roles
                        THEN {Entry(selected, "passive_cache", outcome)} ELSE {}
             marked == {[e EXCEPT !.independent = ~\E a \in cycle.entries : a.role = e.role] :
                            e \in passive}
             entries == cycle.entries \cup marked
  <2>0. cycle.stage = "cache"
    BY <1>5 DEF ReadCache
  <2>1. cycle' = [cycle EXCEPT !.entries = entries, !.stage = "direct"]
    BY <1>5, Zenon DEF ReadCache, MergeEvidence
  <2>2. \A e \in passive : e = Entry(selected, "passive_cache", outcome) /\ selected \in Roles
    OBVIOUS
  <2> HIDE DEF passive
  <2>3. \A e \in passive : \A free : [e EXCEPT !.independent = free].role \in Roles
    BY <2>2 DEF Entry
  <2>4. \A m \in marked : m.role \in Roles
    BY <2>3
  <2> HIDE DEF marked
  <2>5. Roled(entries)
    BY <1>0, <2>4
  <2> HIDE DEF entries
  <2>6. cycle' = [stage |-> "direct", late |-> cycle.late, api |-> cycle.api,
                  entries |-> entries, slots |-> cycle.slots, egress |-> cycle.egress]
    BY <2>1 DEF CycleInv, CycleShape
  <2>7. cycle'.stage = "direct" /\ cycle'.entries = entries
    BY <2>6
  <2>8. cycle' = [stage |-> cycle'.stage, late |-> cycle'.late, api |-> cycle'.api,
                  entries |-> cycle'.entries, slots |-> cycle'.slots, egress |-> cycle'.egress]
    BY <2>6
  <2>9. UNCHANGED <<office, baselineFile, memory, collected, carried, refused>>
    BY <1>5 DEF ReadCache
  <2>10. cycle.stage \in Measuring /\ cycle'.stage \in Measuring
    BY <2>0, <2>7 DEF Measuring
  <2>11. Roled(cycle'.entries)
    BY <2>5, <2>7
  <2> QED
    BY <1>1, <2>8, <2>9, <2>10, <2>11
<1>6. ASSUME NEW name, NEW answer, ProbeSlot(name, answer)
      PROVE  CycleInv'
  <2> DEFINE slot == IF cycle.late \/ answer = "failure" THEN PlainSlot(name, "failed", FALSE)
                     ELSE PlainSlot(name, "ok", answer = "answer")
             slots == cycle.slots \cup {slot}
             stage == IF {s.name : s \in slots} = PlainSlots THEN "egress" ELSE cycle.stage
  <2>0. cycle.stage = "direct"
    BY <1>6 DEF ProbeSlot
  <2>1. cycle' = [cycle EXCEPT !.slots = slots, !.stage = stage]
    BY <1>6, Zenon DEF ProbeSlot
  <2>2. stage \in {"direct", "egress"}
    BY <2>0
  <2> HIDE DEF slots, stage
  <2>3. cycle' = [stage |-> stage, late |-> cycle.late, api |-> cycle.api,
                  entries |-> cycle.entries, slots |-> slots, egress |-> cycle.egress]
    BY <2>1 DEF CycleInv, CycleShape
  <2> QED
    BY <1>0, <1>1, <1>6, <2>0, <2>2, <2>3 DEF ProbeSlot, Measuring
<1> QED
  BY <1>2, <1>3, <1>4, <1>5, <1>6

LEMMA FreshCycle ==
    ASSUME NEW stage
    PROVE  /\ NoCycle(stage).stage = stage /\ NoCycle(stage).entries = {}
           /\ NoCycle(stage) =
                [stage |-> NoCycle(stage).stage, late |-> NoCycle(stage).late,
                 api |-> NoCycle(stage).api, entries |-> NoCycle(stage).entries,
                 slots |-> NoCycle(stage).slots, egress |-> NoCycle(stage).egress]
BY DEF NoCycle

\* The steps after the evidence: the sample takes its number, is encoded,
\* spooled, and the staged address becomes the baseline.
LEMMA SampleSteps ==
    ASSUME CycleInv,
           \/ EncodeSample
           \/ \E answer \in SlotAnswers : ProbeEgress(answer)
           \/ \E ok \in BOOLEAN : AppendSample(ok) \/ RenameBaseline(ok) \/ SyncBaseline(ok)
    PROVE  CycleInv'
<1> USE DEF CycleInv
<1>0. collected \in Nat /\ MaxSamples \in Nat
  BY CycleAssumption DEF CycleTypeOK
<1>1. CASE EncodeSample
  <2>1. PICK stage \in {"append", "idle"} :
           /\ cycle' = NoCycle(stage)
           /\ stage = "append" => refused' = refused
           /\ stage = "idle" => refused' = refused \cup {collected}
    <3>1. CASE ValidateSample(cycle)
      BY <1>1, <3>1 DEF EncodeSample
    <3>2. CASE ~ValidateSample(cycle)
      BY <1>1, <3>2 DEF EncodeSample
    <3> QED
      BY <3>1, <3>2
  <2>2. cycle.stage = "encode" /\ UNCHANGED <<office, baselineFile, memory, collected, carried>>
    BY <1>1 DEF EncodeSample
  <2>3. cycle'.stage = stage /\ cycle'.entries = {}
    BY <2>1, FreshCycle
  <2>4. CycleShape'
    BY <2>1, <2>2, FreshCycle DEF CycleShape
  <2>5. CycleTypeOK'
    BY <1>0, <2>1, <2>2, <2>3 DEF CycleTypeOK, CountOK, Stages
  <2>6. CountOK' /\ PendingOwned' /\ BaselineCarried'
    BY <2>1, <2>2, <2>3 DEF CountOK, PendingOwned, BaselineCarried, Measuring
  <2> QED
    BY <2>4, <2>5, <2>6
<1>2. ASSUME NEW answer, ProbeEgress(answer)
      PROVE  CycleInv'
  <2> DEFINE ok == ~cycle.late /\ answer # "failure"
             egress == IF ~ok THEN FailedEgress
                       ELSE Egress("ok", answer = "answer", office,
                                   ClassifyEgressChange(memory.baseline.ip, office))
  <2>1. /\ cycle.stage = "egress" /\ collected' = collected + 1
        /\ UNCHANGED <<office, baselineFile, carried, refused>>
    BY <1>2 DEF ProbeEgress
  <2>2. cycle' = [cycle EXCEPT !.stage = "encode", !.egress = egress]
    BY <1>2, Zenon DEF ProbeEgress
  <2>3. memory' = IF ok THEN [memory EXCEPT !.pending = [ip |-> office, of |-> collected']]
                  ELSE memory
    BY <1>2, Zenon DEF ProbeEgress
  <2> HIDE DEF egress, ok
  <2>4. cycle' = [stage |-> "encode", late |-> cycle.late, api |-> cycle.api,
                  entries |-> cycle.entries, slots |-> cycle.slots, egress |-> egress]
    BY <2>2 DEF CycleShape
  <2>5. cycle'.stage = "encode" /\ cycle'.entries = cycle.entries
    BY <2>4
  <2>6. cycle' = [stage |-> cycle'.stage, late |-> cycle'.late, api |-> cycle'.api,
                  entries |-> cycle'.entries, slots |-> cycle'.slots, egress |-> cycle'.egress]
    BY <2>4
  <2>7. /\ memory' = [baseline |-> memory'.baseline, pending |-> memory'.pending]
        /\ memory'.baseline = memory.baseline
        /\ memory'.pending = memory.pending \/ memory'.pending.of = collected'
    <3>1. CASE ok
      BY <2>3, <3>1 DEF CycleShape
    <3>2. CASE ~ok
      BY <2>3, <3>2 DEF CycleShape
    <3> QED
      BY <3>1, <3>2
  <2>8. CycleShape'
    BY <2>1, <2>6, <2>7 DEF CycleShape
  <2>9. CycleTypeOK'
    BY <1>0, <2>1, <2>5 DEF CycleTypeOK, CountOK, Stages, Measuring
  <2>10. CountOK' /\ PendingOwned' /\ BaselineCarried'
    BY <1>0, <2>1, <2>5, <2>7 DEF CountOK, PendingOwned, BaselineCarried, Measuring
  <2> QED
    BY <2>8, <2>9, <2>10
<1>3. ASSUME NEW ok \in BOOLEAN, AppendSample(ok)
      PROVE  CycleInv'
  <2>1. cycle.stage = "append" /\ UNCHANGED <<office, baselineFile, collected, refused>>
    BY <1>3 DEF AppendSample
  <2>2. CASE ok
    <3>1. cycle' = NoCycle("commit") /\ carried' = carried \cup {collected} /\ memory' = memory
      BY <1>3, <2>2 DEF AppendSample
    <3>2. cycle'.stage = "commit" /\ cycle'.entries = {}
      BY <3>1, FreshCycle
    <3>3. CycleShape'
      BY <2>1, <3>1, FreshCycle DEF CycleShape
    <3>4. CycleTypeOK'
      BY <1>0, <2>1, <3>1, <3>2 DEF CycleTypeOK, CountOK, Stages
    <3>5. CountOK' /\ PendingOwned' /\ BaselineCarried'
      BY <2>1, <3>1, <3>2 DEF CountOK, PendingOwned, BaselineCarried, Measuring
    <3> QED
      BY <3>3, <3>4, <3>5
  <2>3. CASE ~ok
    <3>1. /\ cycle' = NoCycle("idle") /\ carried' = carried
          /\ memory' = [memory EXCEPT !.pending = Nothing]
      BY <1>3, <2>3 DEF AppendSample
    <3>2. cycle'.stage = "idle" /\ cycle'.entries = {}
      BY <3>1, FreshCycle
    <3>3. memory' = [baseline |-> memory.baseline, pending |-> Nothing]
      BY <3>1 DEF CycleShape
    <3>4. memory'.baseline = memory.baseline /\ memory'.pending = Nothing
      BY <3>3
    <3>5. CycleShape'
      BY <2>1, <3>1, <3>3, <3>4, FreshCycle DEF CycleShape
    <3>6. CycleTypeOK'
      BY <1>0, <2>1, <3>1, <3>2 DEF CycleTypeOK, Stages
    <3>7. CountOK' /\ PendingOwned' /\ BaselineCarried'
      BY <2>1, <3>1, <3>2, <3>4 DEF CountOK, PendingOwned, BaselineCarried, Measuring
    <3> QED
      BY <3>5, <3>6, <3>7
  <2> QED
    BY <2>2, <2>3
<1>4. ASSUME NEW ok \in BOOLEAN, RenameBaseline(ok)
      PROVE  CycleInv'
  <2>1. cycle.stage = "commit" /\ UNCHANGED <<office, memory, collected, carried, refused>>
    BY <1>4 DEF RenameBaseline
  <2>2. PICK stage \in {"sync", "idle"} :
           /\ cycle' = NoCycle(stage)
           /\ \/ memory.pending # Nothing /\ baselineFile' = [baselineFile EXCEPT !.seen = memory.pending]
              \/ baselineFile' = baselineFile
    <3>1. CASE memory.pending # Nothing /\ ok
      BY <1>4, <3>1 DEF RenameBaseline
    <3>2. CASE ~(memory.pending # Nothing /\ ok)
      BY <1>4, <3>2 DEF RenameBaseline
    <3> QED
      BY <3>1, <3>2
  <2>3. cycle'.stage = stage /\ cycle'.entries = {}
    BY <2>2, FreshCycle
  <2>4. /\ baselineFile' = [seen |-> baselineFile'.seen, kept |-> baselineFile'.kept]
        /\ baselineFile'.kept = baselineFile.kept
        /\ \/ baselineFile'.seen = baselineFile.seen
           \/ memory.pending # Nothing /\ baselineFile'.seen = memory.pending
    BY <2>2 DEF CycleShape
  <2>5. CycleShape'
    BY <2>1, <2>2, <2>4, FreshCycle DEF CycleShape
  <2>6. CycleTypeOK'
    BY <2>1, <2>2, <2>3 DEF CycleTypeOK, Stages
  <2>7. CountOK' /\ PendingOwned' /\ BaselineCarried'
    BY <2>1, <2>2, <2>3, <2>4 DEF CountOK, PendingOwned, BaselineCarried, Measuring
  <2> QED
    BY <2>5, <2>6, <2>7
<1>5. ASSUME NEW ok \in BOOLEAN, SyncBaseline(ok)
      PROVE  CycleInv'
  <2>1. /\ cycle.stage = "sync" /\ cycle' = NoCycle("idle")
        /\ UNCHANGED <<office, collected, carried, refused>>
    BY <1>5 DEF SyncBaseline
  <2>2. cycle'.stage = "idle" /\ cycle'.entries = {}
    BY <2>1, FreshCycle
  <2>3. CASE ok
    <3>1. /\ baselineFile' = [baselineFile EXCEPT !.kept = baselineFile.seen]
          /\ memory' = [baseline |-> memory.pending, pending |-> Nothing]
      BY <1>5, <2>3 DEF SyncBaseline
    <3>2. baselineFile' = [seen |-> baselineFile.seen, kept |-> baselineFile.seen]
      BY <3>1 DEF CycleShape
    <3>3. /\ baselineFile'.seen = baselineFile.seen /\ baselineFile'.kept = baselineFile.seen
          /\ memory'.baseline = memory.pending /\ memory'.pending = Nothing
      BY <3>1, <3>2
    <3>4. CycleShape'
      BY <2>1, <3>1, <3>2, <3>3, FreshCycle DEF CycleShape
    <3>5. CycleTypeOK'
      BY <2>1, <2>2 DEF CycleTypeOK, Stages
    <3>6. CountOK' /\ PendingOwned' /\ BaselineCarried'
      BY <2>1, <2>2, <3>3 DEF CountOK, PendingOwned, BaselineCarried, Measuring
    <3> QED
      BY <3>4, <3>5, <3>6
  <2>4. CASE ~ok
    <3>1. UNCHANGED <<baselineFile, memory>>
      BY <1>5, <2>4 DEF SyncBaseline
    <3>2. CycleShape'
      BY <2>1, <3>1, FreshCycle DEF CycleShape
    <3>3. CycleTypeOK'
      BY <2>1, <2>2 DEF CycleTypeOK, Stages
    <3>4. CountOK' /\ PendingOwned' /\ BaselineCarried'
      BY <2>1, <2>2, <3>1 DEF CountOK, PendingOwned, BaselineCarried, Measuring
    <3> QED
      BY <3>2, <3>3, <3>4
  <2> QED
    BY <2>3, <2>4
<1> QED
  BY <1>1, <1>2, <1>3, <1>4, <1>5

\* The steps around a cycle.
LEMMA AgentSteps ==
    ASSUME CycleInv,
           \/ AgentOpens \/ CycleBegins
           \/ \E kept \in {baselineFile.seen, baselineFile.kept} : AgentDies(kept)
           \/ \E address \in OfficeAddresses : OfficeMoves(address)
    PROVE  CycleInv'
<1> USE DEF CycleInv
<1>1. CASE AgentOpens
  <2>1. /\ cycle' = NoCycle("idle") /\ cycle.stage = "down"
        /\ memory' = [baseline |-> baselineFile.seen, pending |-> Nothing]
        /\ UNCHANGED <<office, baselineFile, collected, carried, refused>>
    BY <1>1 DEF AgentOpens
  <2>2. /\ cycle'.stage = "idle" /\ cycle'.entries = {}
        /\ memory'.baseline = baselineFile.seen /\ memory'.pending = Nothing
    BY <2>1, FreshCycle
  <2>3. CycleShape'
    BY <2>1, FreshCycle DEF CycleShape
  <2>4. CycleTypeOK'
    BY <2>1, <2>2 DEF CycleTypeOK, Stages
  <2>5. CountOK' /\ PendingOwned' /\ BaselineCarried'
    BY <2>1, <2>2 DEF CountOK, PendingOwned, BaselineCarried, Measuring
  <2> QED
    BY <2>3, <2>4, <2>5
<1>2. CASE CycleBegins
  <2>1. /\ cycle' = NoCycle("controller") /\ cycle.stage = "idle" /\ collected < MaxSamples
        /\ UNCHANGED <<office, baselineFile, memory, collected, carried, refused>>
    BY <1>2 DEF CycleBegins
  <2>2. cycle'.stage = "controller" /\ cycle'.entries = {}
    BY <2>1, FreshCycle
  <2>3. CycleShape'
    BY <2>1, FreshCycle DEF CycleShape
  <2>4. CycleTypeOK'
    BY <2>1, <2>2 DEF CycleTypeOK, Stages
  <2>5. CountOK' /\ PendingOwned' /\ BaselineCarried'
    BY <2>1, <2>2 DEF CountOK, PendingOwned, BaselineCarried, Measuring
  <2> QED
    BY <2>3, <2>4, <2>5
<1>3. ASSUME NEW kept \in {baselineFile.seen, baselineFile.kept}, AgentDies(kept)
      PROVE  CycleInv'
  <2>1. /\ cycle' = NoCycle("down")
        /\ baselineFile' = [seen |-> kept, kept |-> kept]
        /\ memory' = [baseline |-> Nothing, pending |-> Nothing]
        /\ UNCHANGED <<office, collected, carried, refused>>
    BY <1>3 DEF AgentDies
  <2>2. /\ cycle'.stage = "down" /\ cycle'.entries = {}
        /\ baselineFile'.seen = kept /\ baselineFile'.kept = kept
        /\ memory'.baseline = Nothing /\ memory'.pending = Nothing
    BY <2>1, FreshCycle
  <2>3. CycleShape'
    BY <2>1, <2>2, FreshCycle DEF CycleShape
  <2>4. CycleTypeOK'
    BY <2>1, <2>2 DEF CycleTypeOK, Stages
  <2>5. CountOK' /\ PendingOwned' /\ BaselineCarried'
    BY <2>1, <2>2 DEF CountOK, PendingOwned, BaselineCarried, Measuring
  <2> QED
    BY <2>3, <2>4, <2>5
<1>4. ASSUME NEW address \in OfficeAddresses, OfficeMoves(address)
      PROVE  CycleInv'
  BY <1>4 DEF OfficeMoves, CycleTypeOK, CycleShape, CountOK, PendingOwned, BaselineCarried
<1> QED
  BY <1>1, <1>2, <1>3, <1>4

LEMMA CycleInvariant == CycleSpec => []CycleInv
<1>1. CycleInv /\ [CycleNext]_cycleVars => CycleInv'
  <2> SUFFICES ASSUME CycleInv, [CycleNext]_cycleVars PROVE CycleInv'
    OBVIOUS
  <2>1. CASE UNCHANGED cycleVars
    BY <2>1 DEF cycleVars, CycleInv, CycleTypeOK, CycleShape, CountOK, PendingOwned,
                BaselineCarried
  <2>2. CASE CycleNext
    BY <2>2, EvidenceSteps, SampleSteps, AgentSteps DEF CycleNext
  <2> QED
    BY <2>1, <2>2
<1> QED
  BY <1>1, CycleStarts, PTL DEF CycleSpec

\* The measuring cycle keeps its types, for every set of roles, slots and
\* addresses: no sample is numbered past the bound, and what is spooled or
\* refused is one that was collected (agent.py, run_cycle).
THEOREM CycleTypeCorrect == CycleSpec => []CycleTypeOK
<1>1. CycleInv => CycleTypeOK
  BY DEF CycleInv
<1> QED
  BY <1>1, CycleInvariant, PTL

\* The baseline, on disk and in memory, is an address that a spooled sample
\* carries or a refused one observed, for any number of samples, failed
\* appends, failed renames and crashes (agent.py, _commit_baseline).
THEOREM BaselineDurable == CycleSpec => []BaselineCarried
<1>1. CycleInv => BaselineCarried
  BY DEF CycleInv
<1> QED
  BY <1>1, CycleInvariant, PTL

-----------------------------------------------------------------------------
(* The lifecycle gate.                                                     *)

ConnRecord ==
    [user : Users, inbound : Inbounds, bytes : 0 .. MaxTransfer,
     state : {"active", "closed", "gone"}, closedAt : Nat]
FactRecord == [conn : Nat, bytes : Nat, state : {"active", "closed", "gone"}, at : Nat]

CollectorRecord == [on : BOOLEAN, stale : BOOLEAN, since : Nat, known : SUBSET FactRecord]

\* The connections as the baseline finds them, or will find them.
Start == IF canary.pc = "baseline" THEN links ELSE before
OldClosed(c) == c \in DOMAIN Start /\ Start[c].state = "closed"

\* What any collector can know of an old closure, and the old closures of
\* the same device that it would list before this one.
StartFact(c) ==
    [conn |-> c, bytes |-> Start[c].bytes, state |-> Start[c].state, at |-> Start[c].closedAt]
LaterOld(c) ==
    {StartFact(d) : d \in {e \in DOMAIN Start : /\ e > c /\ Start[e].state = "closed"
                                                /\ Start[e].user = Start[c].user}}

LinksInv ==
    /\ seconds \in Nat /\ links \in Seq(ConnRecord) /\ Len(links) <= Len(Identities)
    /\ \A c \in DOMAIN links : /\ links[c].user = Identities[c].user
                               /\ links[c].inbound = Identities[c].inbound

\* An old connection keeps its past: its bytes only grow, and an old
\* closure is what it was.
PastInv ==
    /\ Start \in Seq(ConnRecord)
    /\ \A c \in DOMAIN Start :
         /\ c \in DOMAIN links /\ Start[c].bytes <= links[c].bytes
         /\ Start[c].user = links[c].user
         /\ Start[c].state \in {"active", "closed"}
         /\ Start[c].state = "closed" => links[c] = Start[c] /\ Start[c].closedAt = 0

\* sing-box forgets old closures from the oldest on, and at the baseline it
\* has forgotten none.
Follows(s) ==
    \A m \in DOMAIN s : \A d :
        OldClosed(s[m]) /\ OldClosed(d) /\ d > s[m] => \E n \in DOMAIN s : n > m /\ s[n] = d
ReplayInv ==
    /\ replay \in Seq(DOMAIN links) /\ Follows(replay)
    /\ canary.pc = "baseline" =>
         \A c \in DOMAIN links : links[c].state = "closed" => c \in ToSet(replay)

\* A collector knows no byte that was not moved and no closure that was not
\* one; of the old closures it knows one, it knows the later ones too.
KnownInv ==
    /\ collector \in CollectorRecord /\ IsFiniteSet(collector.known)
    /\ \A k \in collector.known :
         /\ k.conn \in DOMAIN links /\ k.bytes <= links[k.conn].bytes
         /\ k.state = "closed" =>
              links[k.conn].state = "closed" /\ k.at = links[k.conn].closedAt
         /\ OldClosed(k.conn) =>
              /\ k = StartFact(k.conn)
              /\ \A d : OldClosed(d) /\ d > k.conn => StartFact(d) \in collector.known

CanaryInv ==
    /\ canary \in [pc : {"baseline", "window", "grace", "done"}, gates : Gates,
                   verdict : {"none", "PASS", "FAIL", "INCONCLUSIVE"}]
    /\ canary.verdict = "PASS" => canary.pc = "done"
    /\ canary.pc \in {"baseline", "done"} => collector = NoCollector

\* A baseline that is not stale counts every byte of the time before it, and
\* lists every old closure that is young enough and that not too many of
\* its device follow.
ShotInv ==
    canary.pc # "baseline" /\ ~baseline.stale =>
        /\ \A k \in baseline.known : /\ k.conn \in DOMAIN before
                                     /\ k.bytes = before[k.conn].bytes
        /\ \A c \in DOMAIN before : \E k \in baseline.known : k.conn = c
        /\ \A c : /\ OldClosed(c) /\ seconds <= ClosedTtl
                  /\ Cardinality(LaterOld(c)) < EvidenceMax
                  => c \in baseline.closed

BytesMoved(g) ==
    \E c \in DOMAIN links :
        InScope(g, c) /\ links[c].bytes > IF c \in DOMAIN before THEN before[c].bytes ELSE 0

\* The grace window is for a run that lacks nothing but the closure.
GraceInv == canary.pc = "grace" => ~baseline.stale /\ BytesMoved(canary.gates)

LifecycleInv ==
    /\ LinksInv /\ PastInv /\ ReplayInv /\ KnownInv /\ CanaryInv /\ ShotInv /\ GraceInv
    /\ PassIsEarned

\* What the world may do to the connections.
LinksGrow ==
    /\ DOMAIN links \subseteq DOMAIN links'
    /\ \A c \in DOMAIN links : /\ links[c].bytes <= links'[c].bytes
                               /\ links[c].state = "closed" => links'[c] = links[c]

LEMMA LinksAre ==
    ASSUME LinksInv
    PROVE  /\ Len(links) \in Nat /\ DOMAIN links = 1 .. Len(links)
           /\ IsFiniteSet(DOMAIN links)
           /\ \A c \in DOMAIN links :
                /\ c \in Nat /\ links[c] \in ConnRecord /\ links[c].bytes \in Nat
                /\ links[c].closedAt \in Nat
                /\ links[c].state \in {"active", "closed", "gone"} /\ links[c].user \in Users
<1>1. Len(links) \in Nat /\ DOMAIN links = 1 .. Len(links)
  BY DEF LinksInv
<1>2. IsFiniteSet(1 .. Len(links))
  BY <1>1, FS_Interval
<1>3. \A c \in DOMAIN links : c \in Nat /\ links[c] \in ConnRecord
  BY <1>1 DEF LinksInv
<1>4. MaxTransfer \in Nat
  BY LifecycleAssumption
<1>5. \A r \in ConnRecord :
        /\ r.bytes \in Nat /\ r.closedAt \in Nat /\ r.state \in {"active", "closed", "gone"}
        /\ r.user \in Users
  BY <1>4 DEF ConnRecord
<1> QED
  BY <1>1, <1>2, <1>3, <1>5

LEMMA FactsAre ==
    ASSUME LinksInv, NEW c \in DOMAIN links
    PROVE  /\ Fact(c) \in FactRecord /\ Fact(c).conn = c /\ Fact(c).bytes = links[c].bytes
           /\ Fact(c).state = links[c].state /\ Fact(c).at = links[c].closedAt
BY LinksAre DEF Fact, FactRecord

-----------------------------------------------------------------------------
LEMMA LifecycleStarts == LifecycleInit => LifecycleInv
<1> SUFFICES ASSUME LifecycleInit PROVE LifecycleInv
  OBVIOUS
<1>1. PICK n \in 0 .. MaxOld : \E closed \in 0 .. n :
        links = Past(n, closed) /\ replay = [i \in 1 .. closed |-> i]
  BY DEF LifecycleInit
<1>2. PICK closed \in 0 .. n : links = Past(n, closed) /\ replay = [i \in 1 .. closed |-> i]
  BY <1>1
<1>3. /\ seconds = 0 /\ canary = [pc |-> "baseline", gates |-> NoGates, verdict |-> "none"]
      /\ collector = NoCollector
  BY DEF LifecycleInit
<1>4. /\ n \in Nat /\ closed \in Nat /\ n <= Len(Identities) /\ closed <= n /\ MaxTransfer \in Nat
      /\ Identities \in Seq([user : Users, inbound : Inbounds])
  BY LifecycleAssumption
<1>5. ASSUME NEW i \in 1 .. n
      PROVE  links[i] = [user |-> Identities[i].user, inbound |-> Identities[i].inbound,
                         bytes |-> MaxTransfer, closedAt |-> 0,
                         state |-> IF i <= closed THEN "closed" ELSE "active"]
  BY <1>2 DEF Past, NewConn
<1>6. DOMAIN links = 1 .. n /\ links = [i \in 1 .. n |-> links[i]]
  BY <1>2 DEF Past
<1>7. \A i \in 1 .. n : Identities[i].user \in Users /\ Identities[i].inbound \in Inbounds
  <2>1. \A i \in 1 .. n : i \in DOMAIN Identities
    BY <1>4
  <2> QED
    BY <2>1 DEF Users, Inbounds
<1>8. \A i \in 1 .. n : links[i] \in ConnRecord
  <2> SUFFICES ASSUME NEW i \in 1 .. n PROVE links[i] \in ConnRecord
    OBVIOUS
  <2>1. MaxTransfer \in 0 .. MaxTransfer
    BY <1>4
  <2> DEFINE st == IF i <= closed THEN "closed" ELSE "active"
  <2>2. st \in {"active", "closed", "gone"}
    OBVIOUS
  <2>3. links[i] = [user |-> Identities[i].user, inbound |-> Identities[i].inbound,
                    bytes |-> MaxTransfer, closedAt |-> 0, state |-> st]
    BY <1>5
  <2> HIDE DEF st
  <2> QED
    BY <1>7, <2>1, <2>2, <2>3 DEF ConnRecord
<1>9. links \in Seq(ConnRecord) /\ Len(links) = n
  BY <1>4, <1>6, <1>8
<1>10. LinksInv
  BY <1>3, <1>4, <1>5, <1>6, <1>9 DEF LinksInv
<1>11. Start = links
  BY <1>3 DEF Start
<1>12. PastInv
  BY <1>4, <1>5, <1>6, <1>9, <1>11 DEF PastInv
<1>13. \A c : OldClosed(c) <=> c \in 1 .. closed
  BY <1>4, <1>5, <1>6, <1>11 DEF OldClosed
<1>14. ReplayInv
  <2>1. replay \in Seq(DOMAIN links) /\ DOMAIN replay = 1 .. closed
    <3>1. \A i \in 1 .. closed : i \in DOMAIN links
      BY <1>4, <1>6
    <3>2. replay \in [1 .. closed -> DOMAIN links]
      BY <1>2, <3>1
    <3> QED
      BY <1>4, <3>2
  <2>2. \A m \in 1 .. closed : replay[m] = m
    BY <1>2
  <2>3. \A c \in DOMAIN links : links[c].state = "closed" => c \in ToSet(replay)
    <3>1. \A c \in DOMAIN links : links[c].state = "closed" => c \in 1 .. closed
      BY <1>4, <1>5, <1>6
    <3> QED
      BY <2>1, <2>2, <3>1 DEF ToSet
  <2>4. ASSUME NEW m \in DOMAIN replay, NEW d, OldClosed(d), d > replay[m]
        PROVE  \E k \in DOMAIN replay : k > m /\ replay[k] = d
    BY <1>13, <2>1, <2>2, <2>4
  <2> QED
    BY <2>1, <2>3, <2>4 DEF ReplayInv, Follows
<1>15. KnownInv
  <2>1. collector.known = {} /\ collector \in CollectorRecord
    BY <1>3 DEF NoCollector, CollectorRecord
  <2> QED
    BY <2>1, FS_EmptySet DEF KnownInv
<1>16. CanaryInv
  BY <1>3 DEF CanaryInv, Gates, NoGates
<1>17. ShotInv /\ GraceInv /\ PassIsEarned
  BY <1>3 DEF ShotInv, GraceInv, PassIsEarned
<1> QED
  BY <1>10, <1>12, <1>14, <1>15, <1>16, <1>17 DEF LifecycleInv

-----------------------------------------------------------------------------
\* A step of the world.
LEMMA WorldStep ==
    ASSUME LifecycleInv, LinksInv', ReplayInv', CanaryInv', LinksGrow, seconds <= seconds',
           UNCHANGED <<canary, baseline, before>>, canary.pc # "done",
           collector' \in CollectorRecord, collector'.known = collector.known,
           canary.pc = "baseline" => links' = links
    PROVE  LifecycleInv'
<1>0. /\ LinksInv /\ PastInv /\ ReplayInv /\ KnownInv /\ CanaryInv /\ ShotInv /\ GraceInv
      /\ PassIsEarned
  BY DEF LifecycleInv
<1>1. Start' = Start
  BY DEF Start
<1>2. \A c : OldClosed(c)' <=> OldClosed(c)
  BY <1>1 DEF OldClosed
<1>3. \A c : StartFact(c)' = StartFact(c)
  BY <1>1 DEF StartFact
<1>4. \A c : LaterOld(c)' = LaterOld(c)
  BY <1>1 DEF LaterOld, StartFact
<1>5. \A c \in DOMAIN links :
        /\ links[c].bytes \in Nat /\ links'[c].bytes \in Nat
        /\ links'[c].user = links[c].user /\ links'[c].inbound = links[c].inbound
  <2>1. \A c \in DOMAIN links' : links'[c].bytes \in Nat
    <3>1. \A c \in DOMAIN links' : links'[c] \in ConnRecord
      BY DEF LinksInv
    <3>2. \A r \in ConnRecord : r.bytes \in Nat
      BY LifecycleAssumption DEF ConnRecord
    <3> QED
      BY <3>1, <3>2
  <2> QED
    BY <1>0, <2>1, LinksAre DEF LinksInv, LinksGrow
<1>6. PastInv'
  <2>1. \A c \in DOMAIN Start : Start[c] \in ConnRecord /\ Start[c].bytes \in Int
    <3>1. \A c \in DOMAIN Start : Start[c] \in ConnRecord
      BY <1>0 DEF PastInv
    <3>2. \A r \in ConnRecord : r.bytes \in Int
      BY LifecycleAssumption DEF ConnRecord
    <3> QED
      BY <3>1, <3>2
  <2> QED
    BY <1>0, <1>1, <1>5, <2>1 DEF PastInv, LinksGrow
<1>7. KnownInv'
  <2>1. \A k \in collector.known : k \in FactRecord /\ k.bytes \in Nat
    BY <1>0 DEF KnownInv, FactRecord, CollectorRecord
  <2>2. \A k \in collector.known :
          /\ k.conn \in DOMAIN links' /\ k.bytes <= links'[k.conn].bytes
          /\ k.state = "closed" =>
               links'[k.conn].state = "closed" /\ k.at = links'[k.conn].closedAt
    BY <1>0, <1>5, <2>1 DEF KnownInv, LinksGrow
  <2> QED
    BY <1>0, <1>2, <1>3, <2>2 DEF KnownInv
<1>8. ShotInv'
  <2>1. ClosedTtl \in Nat /\ seconds \in Nat /\ seconds' \in Nat
    BY <1>0, LifecycleAssumption DEF LinksInv
  <2> QED
    BY <1>0, <1>2, <1>4, <2>1 DEF ShotInv
<1>9. GraceInv'
  <2>1. SUFFICES ASSUME canary.pc = "grace" PROVE ~baseline.stale /\ BytesMoved(canary.gates)'
    BY DEF GraceInv
  <2>2. PICK c \in DOMAIN links :
          /\ InScope(canary.gates, c)
          /\ links[c].bytes > IF c \in DOMAIN before THEN before[c].bytes ELSE 0
    BY <1>0, <2>1 DEF GraceInv, BytesMoved
  <2>3. InScope(canary.gates, c)'
    BY <1>5, <2>2 DEF InScope, OfUser
  <2>4. c \in DOMAIN before => before[c].bytes \in Int
    <3>1. \A r \in ConnRecord : r.bytes \in Int
      BY LifecycleAssumption DEF ConnRecord
    <3>2. before \in Seq(ConnRecord)
      BY <1>0, <2>1 DEF PastInv, Start
    <3> QED
      BY <3>1, <3>2
  <2>5. c \in DOMAIN links' /\ links'[c].bytes > IF c \in DOMAIN before THEN before[c].bytes ELSE 0
    BY <1>5, <2>2, <2>4 DEF LinksGrow
  <2> QED
    BY <1>0, <2>1, <2>3, <2>5 DEF GraceInv, BytesMoved, InScope, OfUser
<1>10. PassIsEarned'
  BY <1>0 DEF CanaryInv, PassIsEarned
<1> QED
  BY <1>6, <1>7, <1>8, <1>9, <1>10 DEF LifecycleInv

\* A step of the collector.
LEMMA CollectorStep ==
    ASSUME LifecycleInv, KnownInv', CanaryInv',
           UNCHANGED <<seconds, links, replay, canary, baseline, before>>
    PROVE  LifecycleInv'
<1>1. Start' = Start
  BY DEF Start
<1>2. \A c : (OldClosed(c)' <=> OldClosed(c)) /\ LaterOld(c)' = LaterOld(c)
  BY <1>1 DEF OldClosed, LaterOld, StartFact
<1>3. LinksInv' /\ PastInv'
  BY <1>1 DEF LifecycleInv, LinksInv, PastInv
<1>4. ReplayInv'
  BY <1>2 DEF LifecycleInv, ReplayInv, Follows, ToSet
<1>5. ShotInv'
  BY <1>2 DEF LifecycleInv, ShotInv
<1>6. GraceInv'
  BY DEF LifecycleInv, GraceInv, BytesMoved, InScope, OfUser
<1>7. PassIsEarned'
  BY DEF LifecycleInv, PassIsEarned, InScope, OfUser
<1> QED
  BY <1>3, <1>4, <1>5, <1>6, <1>7 DEF LifecycleInv

\* An old closure is known as what it was, and the rows of a reset are facts.
LEMMA RowsAre ==
    ASSUME LinksInv, PastInv, ReplayInv
    PROVE  /\ \A c : OldClosed(c) => /\ c \in DOMAIN links /\ Fact(c) = StartFact(c)
                                     /\ links[c].state = "closed"
           /\ IsFiniteSet(ResetRows)
           /\ \A k \in ResetRows : /\ k.conn \in DOMAIN links /\ k = Fact(k.conn)
                                   /\ links[k.conn].state = "active" \/ k.conn \in ToSet(replay)
           /\ \A c \in DOMAIN links :
                links[c].state = "active" \/ c \in ToSet(replay) => Fact(c) \in ResetRows
           /\ \A k \in ResetRows : \A d :
                OldClosed(k.conn) /\ OldClosed(d) /\ d > k.conn => StartFact(d) \in ResetRows
<1> DEFINE places == {d \in DOMAIN links : links[d].state = "active"} \cup ToSet(replay)
           f == [c \in places |-> Fact(c)]
<1>1. ToSet(replay) \in SUBSET DOMAIN links
  BY DEF ReplayInv, ToSet
<1>2. IsFiniteSet(places)
  <2>1. places \in SUBSET DOMAIN links
    BY <1>1
  <2> HIDE DEF places
  <2> QED
    BY <2>1, LinksAre, FS_Subset
<1>3. ResetRows = {f[c] : c \in places}
  BY DEF ResetRows
<1>4. IsFiniteSet(ResetRows)
  <2> HIDE DEF places
  <2>1. DOMAIN f = places /\ f = [c \in places |-> f[c]]
    OBVIOUS
  <2> HIDE DEF f
  <2> QED
    BY <1>2, <1>3, <2>1, ImageFinite
<1>5. \A c : OldClosed(c) => /\ c \in DOMAIN links /\ Fact(c) = StartFact(c)
                             /\ links[c].state = "closed"
  BY DEF OldClosed, PastInv, Fact, StartFact
<1>6. \A k \in ResetRows : /\ k.conn \in DOMAIN links /\ k = Fact(k.conn)
                           /\ links[k.conn].state = "active" \/ k.conn \in ToSet(replay)
  <2>1. \A k \in ResetRows : \E c \in places : k = Fact(c)
    BY DEF ResetRows
  <2>2. \A c \in places : c \in DOMAIN links
    BY <1>1
  <2> QED
    BY <2>1, <2>2, FactsAre
<1>7. \A c \in DOMAIN links :
        links[c].state = "active" \/ c \in ToSet(replay) => Fact(c) \in ResetRows
  BY DEF ResetRows
<1>8. ASSUME NEW k \in ResetRows, NEW d, OldClosed(k.conn), OldClosed(d), d > k.conn
      PROVE  StartFact(d) \in ResetRows
  <2>1. k.conn \in ToSet(replay)
    BY <1>5, <1>6, <1>8
  <2>2. PICK m \in DOMAIN replay : replay[m] = k.conn
    BY <2>1 DEF ToSet
  <2>3. PICK n \in DOMAIN replay : replay[n] = d
    BY <1>8, <2>2 DEF ReplayInv, Follows
  <2>4. d \in ToSet(replay) /\ d \in DOMAIN links /\ Fact(d) = StartFact(d)
    BY <1>5, <1>8, <2>3 DEF ToSet
  <2> QED
    BY <1>7, <2>4
<1> QED
  BY <1>4, <1>5, <1>6, <1>7, <1>8

\* The replay keeps the later old closures when one is appended that is not
\* old, when the oldest goes, and when connections only open.
LEMMA ReplayGrows ==
    ASSUME NEW s \in Seq(DOMAIN links), Follows(s), NEW c, ~OldClosed(c)
    PROVE  /\ Follows(Append(s, c))
           /\ s # <<>> => Tail(s) \in Seq(DOMAIN links) /\ Follows(Tail(s))
<1>1. Len(s) \in Nat /\ DOMAIN s = 1 .. Len(s)
  OBVIOUS
<1>2. Follows(Append(s, c))
  <2> DEFINE t == Append(s, c)
  <2>1. /\ DOMAIN t = 1 .. Len(s) + 1 /\ t[Len(s) + 1] = c
        /\ \A i \in 1 .. Len(s) : t[i] = s[i]
    BY <1>1
  <2> HIDE DEF t
  <2>2. SUFFICES ASSUME NEW m \in DOMAIN t, NEW d, OldClosed(t[m]), OldClosed(d), d > t[m]
                 PROVE  \E n \in DOMAIN t : n > m /\ t[n] = d
    BY DEF Follows, t
  <2>3. m \in 1 .. Len(s) /\ t[m] = s[m]
    BY <1>1, <2>1, <2>2
  <2>4. PICK n \in DOMAIN s : n > m /\ s[n] = d
    BY <1>1, <2>2, <2>3 DEF Follows
  <2>5. n \in DOMAIN t /\ t[n] = d
    BY <1>1, <2>1, <2>4
  <2> QED
    BY <2>4, <2>5
<1>3. ASSUME s # <<>> PROVE Tail(s) \in Seq(DOMAIN links) /\ Follows(Tail(s))
  <2> DEFINE t == Tail(s)
  <2>1. /\ t \in Seq(DOMAIN links) /\ Len(s) # 0 /\ DOMAIN t = 1 .. Len(s) - 1
        /\ \A i \in 1 .. Len(s) - 1 : t[i] = s[i + 1]
    BY <1>1, <1>3
  <2> HIDE DEF t
  <2>2. ASSUME NEW m \in DOMAIN t, NEW d, OldClosed(t[m]), OldClosed(d), d > t[m]
        PROVE  \E n \in DOMAIN t : n > m /\ t[n] = d
    <3>1. m \in Nat /\ m + 1 \in DOMAIN s /\ t[m] = s[m + 1]
      BY <1>1, <2>1
    <3>2. PICK n \in DOMAIN s : n > m + 1 /\ s[n] = d
      BY <2>2, <3>1 DEF Follows
    <3>3. n - 1 \in DOMAIN t /\ n - 1 > m /\ t[n - 1] = d
      BY <1>1, <2>1, <3>1, <3>2
    <3> QED
      BY <3>3
  <2> QED
    BY <2>1, <2>2 DEF Follows, t
<1> QED
  BY <1>2, <1>3

\* Connections open, move bytes, close, and die with sing-box.
LEMMA WorldSteps ==
    ASSUME LifecycleInv, canary.pc \in {"window", "grace"},
           \/ ConnOpens \/ ProxyRestarts
           \/ \E c \in DOMAIN links : ConnTransfers(c) \/ ConnCloses(c)
    PROVE  LifecycleInv'
<1>0. LinksInv /\ PastInv /\ ReplayInv /\ KnownInv /\ CanaryInv /\ canary.pc # "baseline"
  BY DEF LifecycleInv
<1>1. UNCHANGED <<seconds, canary, baseline, before>>
  BY DEF ConnOpens, ProxyRestarts, ConnTransfers, ConnCloses
<1>2. collector' \in CollectorRecord /\ collector'.known = collector.known
  BY <1>0 DEF ConnOpens, ProxyRestarts, ConnTransfers, ConnCloses, KnownInv, CollectorRecord
<1>3. CanaryInv'
  BY <1>0, <1>1 DEF CanaryInv, Gates
<1>4. \A c : OldClosed(c)' <=> OldClosed(c)
  BY <1>0, <1>1 DEF OldClosed, Start
<1>5. \A s : Follows(s)' <=> Follows(s)
  BY <1>4 DEF Follows
<1>6. /\ Len(links) \in Nat /\ DOMAIN links = 1 .. Len(links) /\ links \in Seq(ConnRecord)
      /\ seconds \in Nat /\ Len(links) <= Len(Identities)
      /\ Identities \in Seq([user : Users, inbound : Inbounds]) /\ MaxTransfer \in Nat
  BY <1>0, LinksAre, LifecycleAssumption DEF LinksInv
<1>7. \A c \in DOMAIN links :
        /\ links[c] \in ConnRecord /\ links[c].bytes \in Nat
        /\ links[c].user = Identities[c].user /\ links[c].inbound = Identities[c].inbound
  BY <1>0, LinksAre DEF LinksInv
<1>8. SUFFICES LinksInv' /\ LinksGrow /\ replay' \in Seq(DOMAIN links') /\ Follows(replay')
  <2>1. ReplayInv'
    BY <1>0, <1>1, <1>5, <1>8 DEF ReplayInv
  <2>2. seconds <= seconds'
    BY <1>1, <1>6
  <2> QED
    BY <1>0, <1>1, <1>2, <1>3, <1>8, <2>1, <2>2, WorldStep
<1>9. CASE ConnOpens
  <2> DEFINE new == NewConn(Len(links) + 1)
             n == Len(links) + 1
  <2>1. links' = Append(links, new) /\ n <= Len(Identities) /\ replay' = replay
    BY <1>6, <1>9 DEF ConnOpens
  <2>2. n \in DOMAIN Identities
    BY <1>6, <2>1
  <2>3. /\ new \in ConnRecord /\ new.user = Identities[n].user
        /\ new.inbound = Identities[n].inbound
    <3>1. Identities[n].user \in Users /\ Identities[n].inbound \in Inbounds
      BY <2>2 DEF Users, Inbounds
    <3>2. 0 \in 0 .. MaxTransfer
      BY <1>6
    <3> HIDE DEF n
    <3> QED
      BY <3>1, <3>2 DEF NewConn, ConnRecord, n
  <2> HIDE DEF new
  <2>4. /\ links' \in Seq(ConnRecord) /\ Len(links') = n /\ DOMAIN links' = 1 .. n
        /\ links'[n] = new /\ \A c \in 1 .. Len(links) : links'[c] = links[c]
    BY <1>6, <2>1, <2>3
  <2>5. LinksInv'
    <3>1. \A c \in 1 .. n : c \in 1 .. Len(links) \/ c = n
      BY <1>6
    <3> HIDE DEF n
    <3> QED
      BY <1>1, <1>6, <1>7, <2>1, <2>3, <2>4, <3>1 DEF LinksInv
  <2>6. LinksGrow
    <3>1. \A c \in DOMAIN links : c \in DOMAIN links' /\ links'[c] = links[c]
      BY <1>6, <2>4
    <3> QED
      BY <1>7, <3>1 DEF LinksGrow
  <2>7. replay' \in Seq(DOMAIN links')
    BY <1>0, <2>1, <2>6 DEF ReplayInv, LinksGrow
  <2> QED
    BY <1>0, <2>1, <2>5, <2>6, <2>7 DEF ReplayInv
<1>10. CASE ProxyRestarts
  <2>1. /\ DOMAIN links' = DOMAIN links /\ replay' = <<>>
        /\ links' = [c \in DOMAIN links |-> IF links[c].state = "active"
                        THEN [links[c] EXCEPT !.state = "gone"] ELSE links[c]]
    BY <1>10 DEF ProxyRestarts
  <2>2. ASSUME NEW c \in DOMAIN links
        PROVE  /\ links'[c] \in ConnRecord /\ links'[c].bytes = links[c].bytes
               /\ links'[c].user = links[c].user /\ links'[c].inbound = links[c].inbound
               /\ links[c].state = "closed" => links'[c] = links[c]
    <3>1. [links[c] EXCEPT !.state = "gone"] \in ConnRecord
      BY <1>7 DEF ConnRecord
    <3> QED
      BY <1>7, <2>1, <3>1 DEF ConnRecord
  <2>3. links' \in Seq(ConnRecord) /\ Len(links') = Len(links)
    <3>1. links' \in [1 .. Len(links) -> ConnRecord]
      BY <1>6, <2>1, <2>2
    <3> QED
      BY <1>6, <3>1
  <2>4. LinksInv'
    BY <1>1, <1>6, <1>7, <2>1, <2>2, <2>3 DEF LinksInv
  <2>5. LinksGrow
    BY <1>7, <2>1, <2>2 DEF LinksGrow
  <2> QED
    BY <2>1, <2>4, <2>5 DEF Follows
<1>11. ASSUME NEW c \in DOMAIN links, ConnTransfers(c) \/ ConnCloses(c)
       PROVE  LinksInv' /\ LinksGrow /\ DOMAIN links' = DOMAIN links
  <2>1. /\ links' = [links EXCEPT ![c] = links'[c]] /\ links[c].state = "active"
        /\ links'[c] \in ConnRecord /\ links'[c].bytes >= links[c].bytes /\ links'[c].bytes \in Nat
        /\ links'[c].user = links[c].user /\ links'[c].inbound = links[c].inbound
    <3>1. CASE ConnTransfers(c)
      <4> DEFINE new == [links[c] EXCEPT !.bytes = @ + 1]
      <4>1. links' = [links EXCEPT ![c] = new] /\ links[c].state = "active"
        BY <1>6, <3>1 DEF ConnTransfers
      <4>2. links[c].bytes + 1 \in 0 .. MaxTransfer
        BY <1>6, <1>7, <3>1 DEF ConnTransfers, ConnRecord
      <4>3. /\ new \in ConnRecord /\ new.bytes = links[c].bytes + 1
            /\ new.user = links[c].user /\ new.inbound = links[c].inbound
        BY <1>7, <4>2 DEF ConnRecord
      <4> HIDE DEF new
      <4>4. links'[c] = new /\ links' = [links EXCEPT ![c] = links'[c]]
        BY <1>6, <4>1
      <4> QED
        BY <1>7, <4>1, <4>3, <4>4
    <3>2. CASE ConnCloses(c)
      <4> DEFINE new == [links[c] EXCEPT !.state = "closed", !.closedAt = seconds]
      <4>1. links' = [links EXCEPT ![c] = new] /\ links[c].state = "active"
        BY <1>6, <3>2 DEF ConnCloses
      <4>2. /\ new \in ConnRecord /\ new.bytes = links[c].bytes
            /\ new.user = links[c].user /\ new.inbound = links[c].inbound
        BY <1>6, <1>7 DEF ConnRecord
      <4> HIDE DEF new
      <4>3. links'[c] = new /\ links' = [links EXCEPT ![c] = links'[c]]
        BY <1>6, <4>1
      <4> QED
        BY <1>7, <4>1, <4>2, <4>3
    <3> QED
      BY <1>11, <3>1, <3>2
  <2>2. /\ links' \in Seq(ConnRecord) /\ Len(links') = Len(links) /\ DOMAIN links' = DOMAIN links
        /\ \A d \in DOMAIN links : d # c => links'[d] = links[d]
    BY <1>6, <2>1
  <2>3. LinksInv'
    BY <1>1, <1>6, <1>7, <2>1, <2>2 DEF LinksInv
  <2>4. LinksGrow
    <3>1. ASSUME NEW d \in DOMAIN links
          PROVE  /\ links[d].bytes <= links'[d].bytes
                 /\ links[d].state = "closed" => links'[d] = links[d]
      <4>1. CASE d = c
        BY <1>7, <2>1, <2>2, <4>1
      <4>2. CASE d # c
        BY <1>7, <2>2, <4>2
      <4> QED
        BY <4>1, <4>2
    <3> QED
      BY <2>2, <3>1 DEF LinksGrow
  <2> QED
    BY <2>2, <2>3, <2>4
<1>12. ASSUME NEW c \in DOMAIN links, ConnTransfers(c)
       PROVE  LinksInv' /\ LinksGrow /\ replay' \in Seq(DOMAIN links') /\ Follows(replay')
  <2>1. replay' = replay
    BY <1>12 DEF ConnTransfers
  <2> QED
    BY <1>0, <1>11, <1>12, <2>1 DEF ReplayInv
<1>13. ASSUME NEW c \in DOMAIN links, ConnCloses(c)
       PROVE  LinksInv' /\ LinksGrow /\ replay' \in Seq(DOMAIN links') /\ Follows(replay')
  <2>1. ~OldClosed(c)
    BY <1>0, <1>13 DEF ConnCloses, OldClosed, PastInv
  <2>2. replay' = Append(replay, c) \/ (replay # <<>> /\ replay' = Append(Tail(replay), c))
    <3>1. ReplaySize \in Nat \ {0}
      BY LifecycleAssumption
    <3>2. replay = <<>> => Len(replay) < ReplaySize
      BY <3>1
    <3> QED
      BY <1>13, <3>2 DEF ConnCloses
  <2>3. PICK s \in Seq(DOMAIN links) : Follows(s) /\ replay' = Append(s, c)
    BY <1>0, <2>1, <2>2, ReplayGrows DEF ReplayInv
  <2>4. Follows(replay') /\ replay' \in Seq(DOMAIN links)
    BY <2>1, <2>3, ReplayGrows
  <2> QED
    BY <1>11, <1>13, <2>4
<1> QED
  BY <1>9, <1>10, <1>12, <1>13

\* Time passes until the verdict.
LEMMA SecondsStep ==
    ASSUME LifecycleInv, SecondPasses
    PROVE  LifecycleInv'
<1>0. LinksInv /\ PastInv /\ ReplayInv /\ KnownInv /\ CanaryInv
  BY DEF LifecycleInv
<1>1. /\ seconds' = seconds + 1 /\ canary.pc # "done"
      /\ UNCHANGED <<links, replay, canary, collector, baseline, before>>
  BY DEF SecondPasses
<1>2. LinksInv' /\ seconds <= seconds'
  BY <1>0, <1>1 DEF LinksInv
<1>3. ReplayInv'
  BY <1>0, <1>1 DEF ReplayInv, Follows, OldClosed, Start, ToSet
<1>4. CanaryInv'
  BY <1>0, <1>1 DEF CanaryInv, Gates, NoCollector
<1>5. LinksGrow
  BY <1>0, <1>1, LinksAre DEF LinksGrow
<1>6. collector' \in CollectorRecord
  BY <1>0, <1>1 DEF KnownInv
<1> QED
  BY <1>1, <1>2, <1>3, <1>4, <1>5, <1>6, WorldStep

\* A reset, the events of a stream, its loss: what the collector comes to
\* know.
LEMMA CollectorSteps ==
    ASSUME LifecycleInv, CollectorSubscribes \/ CollectorFollows \/ CollectorLosesStream
    PROVE  LifecycleInv'
<1>0. LinksInv /\ PastInv /\ ReplayInv /\ KnownInv /\ CanaryInv
  BY DEF LifecycleInv
<1>1. UNCHANGED <<seconds, links, replay, canary, baseline, before>>
  BY DEF CollectorSubscribes, CollectorFollows, CollectorLosesStream
<1>2. canary.pc \in {"window", "grace"}
  BY <1>0 DEF CollectorSubscribes, CollectorFollows, CollectorLosesStream, CanaryInv, NoCollector
<1>3. CanaryInv'
  BY <1>0, <1>1, <1>2 DEF CanaryInv, Gates
<1>4. (\A c : OldClosed(c)' <=> OldClosed(c)) /\ (\A c : StartFact(c)' = StartFact(c))
  BY <1>1 DEF OldClosed, Start, StartFact
<1>5. \A k \in collector.known :
        /\ k \in FactRecord /\ k.conn \in DOMAIN links /\ k.bytes <= links[k.conn].bytes
        /\ k.state = "closed" =>
             links[k.conn].state = "closed" /\ k.at = links[k.conn].closedAt
        /\ OldClosed(k.conn) =>
             /\ k = StartFact(k.conn)
             /\ \A d : OldClosed(d) /\ d > k.conn => StartFact(d) \in collector.known
  BY <1>0 DEF KnownInv, CollectorRecord
<1>6. \A c : OldClosed(c) => /\ c \in DOMAIN links /\ Fact(c) = StartFact(c)
                             /\ StartFact(c).state = "closed" /\ StartFact(c).conn = c
  BY <1>0, RowsAre DEF StartFact, OldClosed
<1>7. \A c \in DOMAIN links :
        /\ Fact(c) \in FactRecord /\ Fact(c).conn = c /\ Fact(c).bytes <= links[c].bytes
        /\ Fact(c).state = "closed" => links[c].state = "closed" /\ Fact(c).at = links[c].closedAt
  BY <1>0, FactsAre, LinksAre
<1>8. SUFFICES KnownInv'
  BY <1>1, <1>3, <1>8, CollectorStep
<1>9. SUFFICES /\ collector' \in CollectorRecord /\ IsFiniteSet(collector'.known)
               /\ \A k \in collector'.known :
                    /\ k.conn \in DOMAIN links /\ k.bytes <= links[k.conn].bytes
                    /\ k.state = "closed" =>
                         links[k.conn].state = "closed" /\ k.at = links[k.conn].closedAt
                    /\ OldClosed(k.conn) =>
                         /\ k = StartFact(k.conn)
                         /\ \A d : OldClosed(d) /\ d > k.conn => StartFact(d) \in collector'.known
  BY <1>1, <1>4, <1>9 DEF KnownInv
<1>10. CASE CollectorSubscribes
  <2> DEFINE rest == {j \in collector.known : j.conn \notin Conns(ResetRows)}
             left(k) == IF k.state = "active" THEN [k EXCEPT !.state = "gone"] ELSE k
             f == [k \in rest |-> left(k)]
  <2>1. collector' = [on |-> TRUE, stale |-> FALSE, since |-> Len(links),
                      known |-> ResetRows \cup {f[k] : k \in rest}]
    BY <1>10 DEF CollectorSubscribes, AfterReset
  <2>2. IsFiniteSet(collector'.known)
    <3>1. rest \in SUBSET collector.known /\ IsFiniteSet(collector.known)
      BY <1>0 DEF KnownInv
    <3> HIDE DEF rest
    <3>2. IsFiniteSet(rest)
      BY <3>1, FS_Subset
    <3>3. DOMAIN f = rest /\ f = [k \in rest |-> f[k]]
      OBVIOUS
    <3> HIDE DEF f
    <3>4. IsFiniteSet({f[k] : k \in rest}) /\ IsFiniteSet(ResetRows)
      BY <1>0, <3>2, <3>3, ImageFinite, RowsAre
    <3>5. collector'.known = ResetRows \cup {f[k] : k \in rest}
      BY <2>1
    <3> QED
      BY <3>4, <3>5, FS_Union
  <2>3. ASSUME NEW k \in rest
        PROVE  /\ left(k) \in FactRecord /\ left(k).conn = k.conn /\ left(k).bytes = k.bytes
               /\ left(k).at = k.at /\ (left(k).state = "closed" => k.state = "closed")
               /\ k.state = "closed" => left(k) = k
    <3>1. k \in FactRecord
      BY <1>5
    <3> QED
      BY <3>1 DEF FactRecord
  <2> HIDE DEF left
  <2>4. \A k \in ResetRows : k \in FactRecord /\ k.conn \in DOMAIN links /\ k = Fact(k.conn)
    BY <1>0, <1>7, RowsAre
  <2>5. collector' \in CollectorRecord
    <3>1. ResetRows \cup {f[k] : k \in rest} \in SUBSET FactRecord
      BY <2>3, <2>4
    <3>2. Len(links) \in Nat
      BY <1>0, LinksAre
    <3> HIDE DEF rest, f
    <3> QED
      BY <2>1, <3>1, <3>2 DEF CollectorRecord
  <2>6. ASSUME NEW k \in collector'.known
        PROVE  \/ k \in ResetRows
               \/ \E j \in rest : k = left(j)
    BY <2>1, <2>6
  <2>7. \A k \in ResetRows : k \in collector'.known
    BY <2>1
  <2>8. \A d, j : OldClosed(d) /\ j \in collector.known /\ j = StartFact(d) => j \in collector'.known
    <3>1. SUFFICES ASSUME NEW d, OldClosed(d), StartFact(d) \in collector.known
                   PROVE  StartFact(d) \in collector'.known
      OBVIOUS
    <3>2. CASE d \in Conns(ResetRows)
      <4>1. PICK k \in ResetRows : k.conn = d
        BY <3>2 DEF Conns
      <4>2. k = StartFact(d)
        BY <1>6, <2>4, <3>1, <4>1
      <4> QED
        BY <2>7, <4>2
    <3>3. CASE d \notin Conns(ResetRows)
      <4>1. StartFact(d) \in rest
        BY <1>6, <3>1, <3>3
      <4>2. left(StartFact(d)) = StartFact(d)
        BY <1>6, <2>3, <3>1, <4>1
      <4> QED
        BY <2>1, <4>1, <4>2
    <3> QED
      BY <3>2, <3>3
  <2>9. ASSUME NEW k \in collector'.known
        PROVE  /\ k.conn \in DOMAIN links /\ k.bytes <= links[k.conn].bytes
               /\ k.state = "closed" =>
                    links[k.conn].state = "closed" /\ k.at = links[k.conn].closedAt
               /\ OldClosed(k.conn) =>
                    /\ k = StartFact(k.conn)
                    /\ \A d : OldClosed(d) /\ d > k.conn => StartFact(d) \in collector'.known
    <3>1. CASE k \in ResetRows
      BY <1>0, <1>6, <1>7, <2>4, <2>7, <3>1, RowsAre
    <3>2. ASSUME NEW j \in rest, k = left(j)
          PROVE  /\ k.conn \in DOMAIN links /\ k.bytes <= links[k.conn].bytes
                 /\ k.state = "closed" =>
                      links[k.conn].state = "closed" /\ k.at = links[k.conn].closedAt
                 /\ OldClosed(k.conn) =>
                      /\ k = StartFact(k.conn)
                      /\ \A d : OldClosed(d) /\ d > k.conn => StartFact(d) \in collector'.known
      <4>1. j \in collector.known /\ k.conn = j.conn
        BY <2>3, <3>2
      <4>2. /\ k.conn \in DOMAIN links /\ k.bytes <= links[k.conn].bytes
            /\ k.state = "closed" =>
                 links[k.conn].state = "closed" /\ k.at = links[k.conn].closedAt
        BY <1>5, <2>3, <3>2, <4>1
      <4>3. ASSUME OldClosed(k.conn) PROVE k = StartFact(k.conn)
        <5>1. j = StartFact(j.conn) /\ j.state = "closed"
          BY <1>5, <1>6, <4>1, <4>3
        <5> QED
          BY <2>3, <3>2, <4>1, <5>1
      <4>4. ASSUME OldClosed(k.conn), NEW d, OldClosed(d), d > k.conn
            PROVE  StartFact(d) \in collector'.known
        BY <1>5, <2>8, <4>1, <4>4
      <4> QED
        BY <4>2, <4>3, <4>4
    <3> QED
      BY <2>6, <3>1, <3>2
  <2> QED
    BY <2>2, <2>5, <2>9
<1>11. CASE CollectorFollows
  <2> DEFINE live == {k.conn : k \in {j \in collector.known : j.state = "active"}}
                       \cup (collector.since + 1 .. Len(links))
             rest == {k \in collector.known : k.conn \notin live}
             f == [c \in live |-> Fact(c)]
  <2>1. /\ collector'.known = rest \cup {Fact(c) : c \in live}
        /\ collector' = [collector EXCEPT !.known = rest \cup {Fact(c) : c \in live},
                                          !.since = Len(links)]
    BY <1>0, <1>11 DEF CollectorFollows, AfterEvents, KnownInv, CollectorRecord
  <2>2. collector.since \in Nat /\ Len(links) \in Nat /\ DOMAIN links = 1 .. Len(links)
    BY <1>0, LinksAre DEF KnownInv, CollectorRecord
  <2>3. live \in SUBSET DOMAIN links
    BY <1>5, <2>2
  <2>4. \A k \in rest : k \in collector.known
    OBVIOUS
  <2>5. ASSUME NEW c \in live, OldClosed(c), NEW d, OldClosed(d), d > c PROVE d \in live
    <3>1. ~ \E j \in collector.known : j.state = "active" /\ j.conn = c
      BY <1>5, <1>6, <2>5
    <3>2. c \in collector.since + 1 .. Len(links) /\ d \in 1 .. Len(links)
      BY <1>6, <2>2, <2>5, <3>1
    <3> QED
      BY <2>2, <2>5, <3>2
  <2>6. IsFiniteSet(collector'.known)
    <3>1. rest \in SUBSET collector.known /\ IsFiniteSet(collector.known)
      BY <1>0 DEF KnownInv
    <3> HIDE DEF rest, live
    <3>2. IsFiniteSet(rest) /\ IsFiniteSet(live)
      BY <1>0, <2>3, <3>1, FS_Subset, LinksAre
    <3>3. DOMAIN f = live /\ f = [c \in live |-> f[c]] /\ {Fact(c) : c \in live} = {f[c] : c \in live}
      OBVIOUS
    <3> HIDE DEF f
    <3>4. IsFiniteSet({f[c] : c \in live})
      BY <3>2, <3>3, ImageFinite
    <3>5. collector'.known = rest \cup {f[c] : c \in live}
      BY <2>1, <3>3
    <3> QED
      BY <3>2, <3>4, <3>5, FS_Union
  <2>7. collector' \in CollectorRecord
    <3>1. rest \cup {Fact(c) : c \in live} \in SUBSET FactRecord
      BY <1>5, <1>7, <2>3
    <3> HIDE DEF rest, live
    <3> QED
      BY <1>0, <2>1, <2>2, <3>1 DEF KnownInv, CollectorRecord
  <2>8. \A d : OldClosed(d) /\ (StartFact(d) \in collector.known \/ d \in live) =>
                 StartFact(d) \in collector'.known
    BY <1>6, <2>1
  <2>9. ASSUME NEW k \in collector'.known
        PROVE  /\ k.conn \in DOMAIN links /\ k.bytes <= links[k.conn].bytes
               /\ k.state = "closed" =>
                    links[k.conn].state = "closed" /\ k.at = links[k.conn].closedAt
               /\ OldClosed(k.conn) =>
                    /\ k = StartFact(k.conn)
                    /\ \A d : OldClosed(d) /\ d > k.conn => StartFact(d) \in collector'.known
    <3> HIDE DEF live
    <3>1. CASE k \in rest
      BY <1>5, <2>4, <2>8, <3>1
    <3>2. ASSUME NEW c \in live, k = Fact(c)
          PROVE  /\ k.conn \in DOMAIN links /\ k.bytes <= links[k.conn].bytes
                 /\ k.state = "closed" =>
                      links[k.conn].state = "closed" /\ k.at = links[k.conn].closedAt
                 /\ OldClosed(k.conn) =>
                      /\ k = StartFact(k.conn)
                      /\ \A d : OldClosed(d) /\ d > k.conn => StartFact(d) \in collector'.known
      BY <1>6, <1>7, <2>3, <2>5, <2>8, <3>2
    <3> QED
      BY <2>1, <3>1, <3>2
  <2> QED
    BY <2>6, <2>7, <2>9
<1>12. CASE CollectorLosesStream
  <2>1. collector'.known = collector.known /\ collector' \in CollectorRecord
    BY <1>0, <1>12 DEF CollectorLosesStream, KnownInv, CollectorRecord
  <2> QED
    BY <1>0, <1>5, <2>1 DEF KnownInv
<1> QED
  BY <1>10, <1>11, <1>12

\* The baseline counts every byte and lists every old closure it has room
\* for.
LEMMA BaselineStep ==
    ASSUME LifecycleInv, NEW ok \in BOOLEAN, CaptureBaseline(ok)
    PROVE  LifecycleInv'
<1>0. LinksInv /\ PastInv /\ ReplayInv /\ KnownInv /\ CanaryInv
  BY DEF LifecycleInv
<1>1. /\ canary.pc = "baseline" /\ before' = links /\ canary' = [canary EXCEPT !.pc = "window"]
      /\ baseline' = (IF ok THEN Shot(ResetRows, FALSE, 0) ELSE NoShot)
      /\ UNCHANGED <<seconds, links, replay, collector>>
  BY DEF CaptureBaseline
<1>2. /\ canary'.pc = "window" /\ canary'.gates = canary.gates /\ canary'.verdict = canary.verdict
      /\ canary.verdict # "PASS"
      /\ canary' \in [pc : {"baseline", "window", "grace", "done"}, gates : Gates,
                      verdict : {"none", "PASS", "FAIL", "INCONCLUSIVE"}]
  BY <1>0, <1>1 DEF CanaryInv
<1>3. Start = links /\ Start' = links
  BY <1>1, <1>2 DEF Start
<1>4. /\ \A c : OldClosed(c)' <=> OldClosed(c)
      /\ \A c : StartFact(c)' = StartFact(c)
      /\ \A c : LaterOld(c)' = LaterOld(c)
  BY <1>3 DEF OldClosed, StartFact, LaterOld
<1>5. LinksInv' /\ PastInv'
  BY <1>0, <1>1, <1>3 DEF LinksInv, PastInv
<1>6. ReplayInv'
  BY <1>0, <1>1, <1>2, <1>4 DEF ReplayInv, Follows
<1>7. KnownInv'
  BY <1>0, <1>1, <1>4 DEF KnownInv
<1>8. CanaryInv'
  BY <1>2 DEF CanaryInv, Gates
<1>9. GraceInv' /\ PassIsEarned'
  BY <1>2 DEF GraceInv, PassIsEarned
<1>10. ShotInv'
  <2>1. CASE ~ok
    BY <1>1, <2>1 DEF ShotInv, NoShot
  <2>2. CASE ok
    <3>1. /\ baseline'.known = ResetRows
          /\ baseline'.closed = UNION {Newest(ResetRows, u, RecentMax)
                                         \cup Newest(ResetRows, u, EvidenceMax) : u \in Users}
      BY <1>1, <2>2 DEF Shot
    <3>2. \A k \in ResetRows : /\ k.conn \in DOMAIN before' /\ k = Fact(k.conn)
                               /\ k.bytes = before'[k.conn].bytes
      BY <1>0, <1>1, RowsAre, FactsAre
    <3>3. ASSUME NEW c \in DOMAIN links PROVE Fact(c) \in ResetRows /\ Fact(c).conn = c
      <4>1. links[c].state \in {"active", "closed"}
        BY <1>0, <1>3 DEF PastInv
      <4>2. links[c].state = "closed" => c \in ToSet(replay)
        BY <1>0, <1>1 DEF ReplayInv
      <4> QED
        BY <1>0, <4>1, <4>2, RowsAre, FactsAre
    <3>4. ASSUME NEW c, OldClosed(c), seconds <= ClosedTtl,
                 Cardinality(LaterOld(c)) < EvidenceMax
          PROVE  c \in baseline'.closed
      <4> DEFINE u == links[c].user
                 own == {k \in ResetRows : /\ links[k.conn].user = u /\ k.state = "closed"
                                           /\ seconds - k.at <= ClosedTtl}
                 after == {i \in own : i.at > Fact(c).at
                                         \/ (i.at = Fact(c).at /\ i.conn > Fact(c).conn)}
      <4>1. /\ c \in DOMAIN links /\ links[c].state = "closed" /\ links[c].closedAt = 0
            /\ u \in Users /\ seconds \in Nat
        BY <1>0, <1>3, <3>4, LinksAre DEF OldClosed, PastInv, LinksInv
      <4>2. /\ Fact(c) \in ResetRows /\ Fact(c).conn = c /\ Fact(c).state = "closed"
            /\ Fact(c).at = 0
        BY <1>0, <3>3, <4>1, FactsAre
      <4>3. Fact(c) \in own
        BY <3>4, <4>1, <4>2
      <4>4. after \in SUBSET LaterOld(c)
        <5> SUFFICES ASSUME NEW i \in after PROVE i \in LaterOld(c)
          OBVIOUS
        <5>1. i \in ResetRows /\ i = Fact(i.conn) /\ i.conn \in DOMAIN links
          BY <1>1, <3>2
        <5>2. /\ i.state = links[i.conn].state /\ i.at = links[i.conn].closedAt
              /\ i.state = "closed" /\ links[i.conn].user = u
          BY <1>0, <5>1, FactsAre
        <5>3. i.at = 0 /\ Fact(i.conn) = StartFact(i.conn)
          BY <1>0, <1>3, <5>1, <5>2, RowsAre DEF PastInv, OldClosed
        <5>4. i.conn > c
          BY <4>2, <5>3
        <5> QED
          BY <1>3, <5>1, <5>2, <5>3, <5>4 DEF LaterOld
      <4>5. IsFiniteSet(LaterOld(c))
        <5> DEFINE S == {e \in DOMAIN Start : /\ e > c /\ Start[e].state = "closed"
                                              /\ Start[e].user = Start[c].user}
                   f == [d \in S |-> StartFact(d)]
        <5>1. S \in SUBSET DOMAIN links
          BY <1>3
        <5>2. LaterOld(c) = {f[d] : d \in S}
          BY DEF LaterOld
        <5> HIDE DEF S
        <5>3. DOMAIN f = S /\ f = [d \in S |-> f[d]] /\ IsFiniteSet(S)
          BY <1>0, <5>1, LinksAre, FS_Subset
        <5> HIDE DEF f
        <5> QED
          BY <5>2, <5>3, ImageFinite
      <4>6. Cardinality(after) < EvidenceMax
        <5>1. IsFiniteSet(after) /\ Cardinality(after) <= Cardinality(LaterOld(c))
          BY <4>4, <4>5, FS_Subset
        <5>2. Cardinality(after) \in Nat /\ Cardinality(LaterOld(c)) \in Nat /\ EvidenceMax \in Nat
          BY <4>5, <5>1, FS_CardinalityType, LifecycleAssumption
        <5> HIDE DEF after
        <5> QED
          BY <3>4, <5>1, <5>2
      <4>7. c \in Newest(ResetRows, u, EvidenceMax)
        BY <4>2, <4>3, <4>6 DEF Newest
      <4> QED
        BY <3>1, <4>1, <4>7
    <3> QED
      BY <1>1, <1>4, <3>1, <3>2, <3>3, <3>4 DEF ShotInv
  <2> QED
    BY <2>1, <2>2
<1> QED
  BY <1>5, <1>6, <1>7, <1>8, <1>9, <1>10 DEF LifecycleInv

\* A closure in a later snapshot that the baseline does not list happened
\* after the baseline.
LEMMA NewClosedIsNew ==
    ASSUME LifecycleInv, canary.pc # "baseline", ~baseline.stale,
           NEW g, NEW stale, NEW conflicts,
           NEW c \in NewClosed(g, Shot(collector.known, stale, conflicts))
    PROVE  /\ c \in DOMAIN links /\ InScope(g, c) /\ links[c].state = "closed"
           /\ c \in DOMAIN before => before[c].state = "active"
<1> DEFINE shot == Shot(collector.known, stale, conflicts)
<1>0. LinksInv /\ PastInv /\ ReplayInv /\ KnownInv /\ ShotInv
  BY DEF LifecycleInv
<1>1. c \in shot.closed /\ InScope(g, c) /\ c \notin baseline.closed
  BY DEF NewClosed, ScopeIds
<1>2. PICK u \in Users, n \in {RecentMax, EvidenceMax} : c \in Newest(collector.known, u, n)
  BY <1>1 DEF Shot
<1> DEFINE own == {k \in collector.known : /\ links[k.conn].user = u /\ k.state = "closed"
                                           /\ seconds - k.at <= ClosedTtl}
           after(k) == {i \in own : i.at > k.at \/ (i.at = k.at /\ i.conn > k.conn)}
<1>3. PICK k \in own : k.conn = c /\ Cardinality(after(k)) < n
  BY <1>2 DEF Newest
<1>4. /\ c \in DOMAIN links /\ links[c].state = "closed" /\ k.at = links[c].closedAt
      /\ links[c].user = u /\ seconds - k.at <= ClosedTtl /\ k \in collector.known
  BY <1>0, <1>3 DEF KnownInv
<1>5. ASSUME OldClosed(c) PROVE FALSE
  <2>1. k.at = 0 /\ Start[c].user = u /\ c \in Nat
    BY <1>0, <1>4, <1>5, LinksAre DEF OldClosed, PastInv
  <2>2. LaterOld(c) \in SUBSET after(k)
    <3> SUFFICES ASSUME NEW i \in LaterOld(c) PROVE i \in after(k)
      OBVIOUS
    <3>1. PICK d \in DOMAIN Start : /\ d > c /\ Start[d].state = "closed"
                                    /\ Start[d].user = Start[c].user /\ i = StartFact(d)
      BY DEF LaterOld
    <3>2. OldClosed(d) /\ i \in collector.known
      BY <1>0, <1>3, <1>4, <1>5, <3>1 DEF KnownInv, OldClosed
    <3>3. /\ links[d].user = u /\ Start[d].closedAt = 0
      BY <1>0, <2>1, <3>1 DEF PastInv
    <3>4. i.conn = d /\ i.state = "closed" /\ i.at = 0
      BY <3>1, <3>3 DEF StartFact
    <3> QED
      BY <1>3, <1>4, <2>1, <3>1, <3>2, <3>3, <3>4
  <2>3. IsFiniteSet(after(k))
    <3>1. after(k) \in SUBSET collector.known
      OBVIOUS
    <3> HIDE DEF after
    <3> QED
      BY <1>0, <3>1, FS_Subset DEF KnownInv
  <2> HIDE DEF after
  <2>4. IsFiniteSet(LaterOld(c)) /\ Cardinality(LaterOld(c)) <= Cardinality(after(k))
    BY <2>2, <2>3, FS_Subset
  <2>5. /\ Cardinality(after(k)) \in Nat /\ Cardinality(LaterOld(c)) \in Nat
        /\ RecentMax \in Nat /\ EvidenceMax \in Nat /\ RecentMax <= EvidenceMax
    BY <2>3, <2>4, FS_CardinalityType, LifecycleAssumption
  <2>6. Cardinality(LaterOld(c)) < EvidenceMax
    BY <1>3, <2>4, <2>5
  <2>7. seconds <= ClosedTtl
    BY <1>0, <1>4, <2>1, LifecycleAssumption DEF LinksInv
  <2> QED
    BY <1>0, <1>1, <1>5, <2>6, <2>7 DEF ShotInv
<1>6. c \in DOMAIN before => before[c].state = "active"
  BY <1>0, <1>5 DEF OldClosed, Start, PastInv
<1> QED
  BY <1>1, <1>4, <1>6

\* A total above the baseline's means that a byte was moved after it.
LEMMA DeltaIsMoved ==
    ASSUME LifecycleInv, canary.pc # "baseline", ~baseline.stale,
           NEW g, NEW stale, NEW conflicts,
           TrafficDelta(g, Shot(collector.known, stale, conflicts))
    PROVE  BytesMoved(g)
<1> DEFINE shot == Shot(collector.known, stale, conflicts)
           now == ScopeBytes(g, shot)
           then == ScopeBytes(g, baseline)
<1>0. LinksInv /\ PastInv /\ KnownInv /\ ShotInv
  BY DEF LifecycleInv
<1>1. SUFFICES ASSUME ~BytesMoved(g) PROVE FALSE
  OBVIOUS
<1>2. \A c \in DOMAIN links : InScope(g, c) =>
        ~(links[c].bytes > IF c \in DOMAIN before THEN before[c].bytes ELSE 0)
  BY <1>1 DEF BytesMoved
<1>3. /\ before \in Seq(ConnRecord) /\ MaxTransfer \in Nat
      /\ \A c \in DOMAIN before : c \in DOMAIN links /\ before[c].bytes \in 0 .. MaxTransfer
  <2>1. before \in Seq(ConnRecord) /\ \A c \in DOMAIN before : c \in DOMAIN links
    BY <1>0 DEF PastInv, Start
  <2>2. \A r \in ConnRecord : r.bytes \in 0 .. MaxTransfer
    BY DEF ConnRecord
  <2> QED
    BY <2>1, <2>2, LifecycleAssumption
<1>4. IsFiniteSet(then)
  <2>1. then \in SUBSET ((DOMAIN links) \X (1 .. MaxTransfer))
    <3>1. \A k \in baseline.known : k.conn \in DOMAIN links /\ k.bytes \in 0 .. MaxTransfer
      BY <1>0, <1>3 DEF ShotInv
    <3>2. SUFFICES ASSUME NEW x \in then PROVE x \in (DOMAIN links) \X (1 .. MaxTransfer)
      OBVIOUS
    <3>3. PICK k \in baseline.known : x \in {k.conn} \X (1 .. k.bytes)
      BY DEF ScopeBytes
    <3>4. PICK b \in 1 .. k.bytes : x = <<k.conn, b>>
      BY <3>3
    <3>5. b \in 1 .. MaxTransfer
      BY <1>3, <3>1, <3>4
    <3> QED
      BY <3>1, <3>4, <3>5
  <2>2. IsFiniteSet((DOMAIN links) \X (1 .. MaxTransfer))
    <3>1. 1 \in Int /\ MaxTransfer \in Int
      BY <1>3
    <3>2. IsFiniteSet(1 .. MaxTransfer) /\ IsFiniteSet(DOMAIN links)
      BY <1>0, <3>1, LinksAre, FS_Interval
    <3> QED
      BY <3>2, FS_Product
  <2> HIDE DEF then
  <2> QED
    BY <2>1, <2>2, FS_Subset
<1>5. now \in SUBSET then
  <2> SUFFICES ASSUME NEW x \in now PROVE x \in then
    OBVIOUS
  <2>1. PICK k \in collector.known : InScope(g, k.conn) /\ x \in {k.conn} \X (1 .. k.bytes)
    BY DEF ScopeBytes, Shot
  <2>2. /\ k.conn \in DOMAIN links /\ k.bytes <= links[k.conn].bytes /\ k.bytes \in Nat
        /\ links[k.conn].bytes \in Nat
    BY <1>0, LinksAre DEF KnownInv, CollectorRecord, FactRecord
  <2>3. PICK b \in 1 .. k.bytes : x = <<k.conn, b>>
    BY <2>1
  <2>4. k.conn \in DOMAIN before /\ b \in 1 .. before[k.conn].bytes
    BY <1>2, <1>3, <2>1, <2>2, <2>3
  <2>5. PICK j \in baseline.known : j.conn = k.conn /\ j.bytes = before[k.conn].bytes
    BY <1>0, <2>4 DEF ShotInv
  <2> QED
    BY <2>1, <2>3, <2>4, <2>5 DEF ScopeBytes
<1> HIDE DEF now, then
<1>6. IsFiniteSet(now) /\ Cardinality(now) <= Cardinality(then)
  BY <1>4, <1>5, FS_Subset
<1>7. Cardinality(now) \in Nat /\ Cardinality(then) \in Nat
  BY <1>4, <1>6, FS_CardinalityType
<1>8. Cardinality(now) > Cardinality(then)
  BY DEF TrafficDelta, ScopeTotals, now, then
<1> QED
  BY <1>6, <1>7, <1>8

-----------------------------------------------------------------------------
\* What the verdict on the window rests on.
LEMMA VerdictRests ==
    ASSUME NEW g, NEW final
    PROVE  LET verdict == PrimaryVerdict(g, final)
           IN  /\ verdict \in {"PASS", "FAIL", "GRACE", "INCONCLUSIVE"}
               /\ verdict \in {"PASS", "GRACE"} => ~baseline.stale /\ TrafficDelta(g, final)
               /\ verdict = "PASS" /\ g.closed => NewClosed(g, final) # {}
<1>1. ~TrafficDelta(g, final) => "traffic" \in FailedGates(g, final)
  BY DEF FailedGates
<1>2. g.closed /\ NewClosed(g, final) = {} => "closed" \in FailedGates(g, final)
  BY DEF FailedGates
<1> QED
  BY <1>1, <1>2 DEF PrimaryVerdict

\* A verdict and the collector that goes with it.
LEMMA JudgeStep ==
    ASSUME LifecycleInv, canary.pc \in {"window", "grace"}, canary'.pc \in {"grace", "done"},
           collector' = NoCollector, UNCHANGED <<seconds, links, replay, baseline, before>>,
           CanaryInv', GraceInv', PassIsEarned'
    PROVE  LifecycleInv'
<1>0. LinksInv /\ PastInv /\ ReplayInv /\ ShotInv
  BY DEF LifecycleInv
<1>1. Start' = Start
  BY DEF Start
<1>2. \A c : (OldClosed(c)' <=> OldClosed(c)) /\ LaterOld(c)' = LaterOld(c)
  BY <1>1 DEF OldClosed, LaterOld, StartFact
<1>3. LinksInv' /\ PastInv'
  BY <1>0, <1>1 DEF LinksInv, PastInv
<1>4. ReplayInv'
  BY <1>0, <1>2 DEF ReplayInv, Follows, ToSet
<1>5. ShotInv'
  BY <1>0, <1>2 DEF ShotInv
<1>6. KnownInv'
  <2>1. collector'.known = {} /\ collector' \in CollectorRecord
    BY DEF NoCollector, CollectorRecord
  <2> QED
    BY <2>1, FS_EmptySet DEF KnownInv
<1> QED
  BY <1>3, <1>4, <1>5, <1>6 DEF LifecycleInv

LEMMA WindowStep ==
    ASSUME LifecycleInv, JudgeWindow
    PROVE  LifecycleInv'
<1> DEFINE final == Shot(collector.known, collector.stale, 0)
<1>0. CanaryInv
  BY DEF LifecycleInv
<1>1. /\ canary.pc = "window" /\ collector' = NoCollector
      /\ UNCHANGED <<seconds, links, replay, baseline, before>>
      /\ \E h \in Gates : canary' = Judged(h, final)
  BY DEF JudgeWindow
<1>2. PICK g \in Gates : canary' = Judged(g, final)
  BY <1>1
<1> DEFINE verdict == PrimaryVerdict(g, final)
<1>3. /\ verdict \in {"PASS", "FAIL", "GRACE", "INCONCLUSIVE"}
      /\ verdict \in {"PASS", "GRACE"} => ~baseline.stale /\ TrafficDelta(g, final)
      /\ verdict = "PASS" /\ g.closed => NewClosed(g, final) # {}
  BY VerdictRests
<1>4. canary' = IF verdict = "GRACE" THEN [canary EXCEPT !.pc = "grace", !.gates = g]
                ELSE [pc |-> "done", gates |-> IF verdict = "PASS" THEN g ELSE NoGates,
                      verdict |-> verdict]
  BY <1>2 DEF Judged, Ended
<1> HIDE DEF verdict, final
<1>5. NoGates \in Gates
  BY DEF NoGates, Gates
<1>6. /\ CanaryInv' /\ canary'.pc \in {"grace", "done"}
      /\ canary'.pc = "grace" => verdict = "GRACE" /\ canary'.gates = g
      /\ canary'.verdict = "PASS" => verdict = "PASS" /\ canary'.gates = g
  BY <1>0, <1>1, <1>3, <1>4, <1>5 DEF CanaryInv, Gates
<1>7. verdict \in {"PASS", "GRACE"} => BytesMoved(g)
  BY <1>1, <1>3, DeltaIsMoved DEF final
<1>8. BytesMoved(g) => BytesMoved(g)'
  BY <1>1 DEF BytesMoved, InScope, OfUser
<1>9. GraceInv'
  BY <1>1, <1>3, <1>6, <1>7, <1>8 DEF GraceInv, BytesMoved, InScope, OfUser
<1>10. PassIsEarned'
  <2>1. SUFFICES ASSUME canary'.verdict = "PASS" PROVE PassIsEarned'
    BY DEF PassIsEarned
  <2>2. verdict = "PASS" /\ canary'.gates = g
    BY <1>6, <2>1
  <2>3. \E c \in DOMAIN links :
          /\ InScope(g, c)
          /\ links[c].bytes > IF c \in DOMAIN before THEN before[c].bytes ELSE 0
    BY <1>7, <2>2 DEF BytesMoved
  <2>4. g.closed => \E c \in DOMAIN links : /\ InScope(g, c) /\ links[c].state = "closed"
                                            /\ c \in DOMAIN before => before[c].state = "active"
    BY <1>1, <1>3, <2>2, NewClosedIsNew DEF final
  <2> QED
    BY <1>1, <2>2, <2>3, <2>4 DEF PassIsEarned, InScope, OfUser
<1> QED
  BY <1>1, <1>6, <1>9, <1>10, JudgeStep

LEMMA GraceStep ==
    ASSUME LifecycleInv, NEW conflicts \in 0 .. 1, JudgeGrace(conflicts)
    PROVE  LifecycleInv'
<1> DEFINE shot == Shot(collector.known, collector.stale, conflicts)
           g == canary.gates
           verdict == GraceVerdict(g, shot)
<1>0. CanaryInv /\ GraceInv
  BY DEF LifecycleInv
<1>1. /\ canary.pc = "grace" /\ collector' = NoCollector
      /\ UNCHANGED <<seconds, links, replay, baseline, before>>
      /\ canary' = [pc |-> "done", gates |-> IF verdict = "PASS" THEN g ELSE NoGates,
                    verdict |-> verdict]
  BY DEF JudgeGrace, Ended
<1>2. verdict \in {"PASS", "FAIL"} /\ (verdict = "PASS" => NewClosed(g, shot) # {})
  BY DEF GraceVerdict
<1> HIDE DEF verdict, shot
<1>3. NoGates \in Gates /\ g \in Gates
  BY <1>0 DEF NoGates, Gates, CanaryInv
<1>4. CanaryInv' /\ canary'.pc = "done" /\ GraceInv'
  <2> HIDE DEF g
  <2> QED
    BY <1>1, <1>2, <1>3 DEF CanaryInv, GraceInv, Gates, NoCollector
<1>5. ~baseline.stale /\ BytesMoved(g)
  BY <1>0, <1>1 DEF GraceInv
<1>6. PassIsEarned'
  <2>1. SUFFICES ASSUME canary'.verdict = "PASS" PROVE PassIsEarned'
    BY DEF PassIsEarned
  <2>2. verdict = "PASS" /\ canary'.gates = g
    BY <1>1, <2>1
  <2> HIDE DEF g
  <2>3. \E c \in DOMAIN links :
          /\ InScope(g, c)
          /\ links[c].bytes > IF c \in DOMAIN before THEN before[c].bytes ELSE 0
    BY <1>5 DEF BytesMoved
  <2>4. \E c \in DOMAIN links : /\ InScope(g, c) /\ links[c].state = "closed"
                                /\ c \in DOMAIN before => before[c].state = "active"
    BY <1>1, <1>2, <1>5, <2>2, NewClosedIsNew DEF shot
  <2> QED
    BY <1>1, <2>2, <2>3, <2>4 DEF PassIsEarned, InScope, OfUser
<1> QED
  BY <1>1, <1>4, <1>6, JudgeStep

\* A canary passes only on what happened in its window, for every number of
\* connections, size of the replay and of the caches, lifetime of a closure
\* and scope: whatever sing-box replays, restarts or forgets and whichever
\* stream breaks, a byte beyond the baseline was moved in scope, and the
\* required closure is one that followed the baseline (lifecycle_gate.py,
\* evaluate).
THEOREM PassEarned == LifecycleSpec => []PassIsEarned
<1>1. LifecycleInv /\ [LifecycleNext]_lifecycleVars => LifecycleInv'
  <2> SUFFICES ASSUME LifecycleInv, [LifecycleNext]_lifecycleVars PROVE LifecycleInv'
    OBVIOUS
  <2>1. CASE UNCHANGED lifecycleVars
    <3>1. UNCHANGED <<seconds, links, replay, canary, collector, baseline, before>>
      BY <2>1 DEF lifecycleVars
    <3>2. KnownInv'
      BY <3>1 DEF LifecycleInv, KnownInv, OldClosed, Start, StartFact
    <3>3. CanaryInv'
      BY <3>1 DEF LifecycleInv, CanaryInv, Gates, NoCollector
    <3> QED
      BY <3>1, <3>2, <3>3, CollectorStep
  <2>2. CASE LifecycleNext
    BY <2>2, SecondsStep, WorldSteps, BaselineStep, CollectorSteps, WindowStep, GraceStep
       DEF LifecycleNext
  <2> QED
    BY <2>1, <2>2
<1>2. LifecycleInv => PassIsEarned
  BY DEF LifecycleInv
<1> QED
  BY <1>1, <1>2, LifecycleStarts, PTL DEF LifecycleSpec

=============================================================================
