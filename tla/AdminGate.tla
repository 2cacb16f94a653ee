------------------------------ MODULE AdminGate ------------------------------
(***************************************************************************)
(* Who may administer: passwords, sessions and step-up grants (web/auth.py)*)
(* the recovery flow and its global guard (web/recovery.py), the source    *)
(* whitelist (web/access.py) and the handlers of web/server.py that use    *)
(* them, on concurrent request threads.                                    *)
(*                                                                         *)
(* A secret is the version of the password or recovery key it fits.  The   *)
(* password hash is read under the AuthStore mutex and compared outside it *)
(* (verify_password), or both inside (login); a change writes auth.json,   *)
(* then publishes and drops the sessions, all under the same mutex.  The   *)
(* process may die anywhere; then memory is rebuilt from disk.             *)
(***************************************************************************)
EXTENDS Naturals, Sequences, FiniteSetsExt, Thinning

CONSTANTS
    Clients,            \* request threads, one per browser
    NoClient,           \* nobody holds the AuthStore mutex
    SessionTtl,         \* ttl, the absolute life of a session
    IdleTtl,            \* idle_ttl
    StepUpTtl,          \* step_up_ttl
    MaxFailures,        \* max_failures of both limiters
    FailureWindow,      \* window_seconds of both limiters
    Lockout,            \* lockout_seconds of both limiters
    GuardSlots,         \* max_concurrent of the recovery guard
    GuardAttempts,      \* max_attempts_per_window of the recovery guard
    MaxVersion          \* bound: versions of the password and of the key

ASSUME GateAssumption ==
    /\ Clients # {} /\ IsFiniteSet(Clients) /\ NoClient \notin Clients
    /\ {SessionTtl, IdleTtl, StepUpTtl, MaxFailures, FailureWindow, Lockout,
        GuardSlots, GuardAttempts, MaxVersion} \subseteq Nat \ {0}

VARIABLES
    authDisk,   \* auth.json: versions of the password and the recovery key
    authMem,    \* what AuthStore holds of it
    authMutex,  \* the thread inside the AuthStore mutex across two steps
    sessions,   \* per browser: its session, if any
    limiters,   \* failed attempts and lockout, for passwords and recovery
    guard,      \* recovery verifications running, attempts in the window
    listed,     \* the source address is on the whitelist
    serving     \* per thread: the request it serves

gateVars == <<authDisk, authMem, authMutex, sessions, limiters, guard, listed,
              serving>>

-----------------------------------------------------------------------------
Roots == [password : 1 .. MaxVersion, recovery : 1 .. MaxVersion]
Limited == {"password", "recovery"}

(* Time left until a deadline; 0 is past.                                  *)
Left(deadline) == IF deadline = 0 THEN 0 ELSE deadline - 1

(* A record of SessionStore: what is left of its life, of its idle time    *)
(* and of the step-up grant, and the roots it was granted under.           *)
NoSession == [life |-> 0, idle |-> 0, step |-> 0,
              roots |-> [password |-> 1, recovery |-> 1]]
Alive(s) == s.life > 0 /\ s.idle > 0

(* SessionStore.create(password_verified = True).                          *)
Created == [life |-> SessionTtl, idle |-> Min({IdleTtl, SessionTtl}),
            step |-> SessionTtl, roots |-> authMem]

(* SessionStore.grant_step_up: nothing is granted to a session that is     *)
(* gone by now, and no grant outlives the session.                         *)
Granted(s) == IF Alive(s) THEN [s EXCEPT !.step = Min({StepUpTtl, s.life})] ELSE s

(* SessionStore.activity: renews the idle time, never revives.             *)
Renewed(s) == [s EXCEPT !.idle = Min({IdleTtl, s.life})]

(* AccessPolicy.is_allowed of the peer address.                            *)
Allowed == listed

Waiting == [pc |-> "idle", op |-> "login", secret |-> 0, ok |-> FALSE]

(* One address in LoginRateLimiter: the failures in the window with the    *)
(* time they still count, and the lock with the time it still holds.       *)
Open == [fails |-> <<>>, locked |-> FALSE, lock |-> 0]

GateInit ==
    /\ authDisk = [password |-> 1, recovery |-> 1]
    /\ authMem = authDisk
    /\ authMutex = NoClient
    /\ sessions = [c \in Clients |-> NoSession]
    /\ limiters = [l \in Limited |-> Open]
    /\ guard = [running |-> 0, attempts |-> <<>>]
    /\ listed = TRUE
    /\ serving = [c \in Clients |-> Waiting]

-----------------------------------------------------------------------------
(* LoginRateLimiter.                                                       *)
Admits(l) == limiters[l].lock = 0

(* A lock that has run out takes its failures with it when it is asked.    *)
Checked(l) == [limiters EXCEPT ![l] = IF @.locked /\ @.lock = 0 THEN Open ELSE @]

Failed(l) ==
    LET fails == Append(limiters[l].fails, FailureWindow)
    IN  [limiters EXCEPT ![l] =
           IF Len(fails) >= MaxFailures
           THEN [fails |-> fails, locked |-> TRUE, lock |-> Lockout]
           ELSE [@ EXCEPT !.fails = fails]]

Succeeded(l) == [limiters EXCEPT ![l] = Open]

-----------------------------------------------------------------------------
(* The gates before a handler: whitelist, session, CSRF.  The operations   *)
(* with a password first ask the limiter.                                  *)
NeedsSession == {"change", "rotate", "stepup"}
NeedsPassword == {"login"} \cup NeedsSession

Enter(c, op, secret) ==
    /\ serving[c].pc = "idle"
    /\ Allowed
    /\ op \in NeedsSession => Alive(sessions[c])
    /\ Admits("password")
    /\ limiters' = Checked("password")
    /\ serving' = [serving EXCEPT ![c] =
         [pc |-> "verify", op |-> op, secret |-> secret, ok |-> FALSE]]
    /\ UNCHANGED <<authDisk, authMem, authMutex, sessions, guard, listed>>

(* AuthStore.login: verify and create under one mutex.                     *)
Login(c) ==
    /\ serving[c].pc = "verify" /\ serving[c].op = "login"
    /\ authMutex = NoClient
    /\ IF serving[c].secret = authMem.password
       THEN /\ sessions' = [sessions EXCEPT ![c] = Created]
            /\ serving' = [serving EXCEPT ![c].pc = "count", ![c].ok = TRUE]
       ELSE /\ serving' = [serving EXCEPT ![c].pc = "count"]
            /\ UNCHANGED sessions
    /\ UNCHANGED <<authDisk, authMem, authMutex, limiters, guard, listed>>

(* AuthStore.verify_password and verify_recovery_key: the record is read   *)
(* under the mutex, the verdict is of that record.                         *)
Verify(c) ==
    /\ serving[c].pc = "verify" /\ serving[c].op # "login"
    /\ authMutex = NoClient
    /\ serving' = [serving EXCEPT ![c].pc = "count", ![c].ok =
         serving[c].secret = IF serving[c].op = "recover" THEN authMem.recovery
                             ELSE authMem.password]
    /\ UNCHANGED <<authDisk, authMem, authMutex, sessions, limiters, guard, listed>>

(* The limiter hears the verdict; a wrong secret ends the request.         *)
Count(c) ==
    /\ serving[c].pc = "count" /\ serving[c].op \in NeedsPassword
    /\ limiters' = IF serving[c].ok THEN Succeeded("password")
                   ELSE Failed("password")
    /\ serving' = [serving EXCEPT ![c] =
         IF @.ok /\ @.op \in NeedsSession THEN [@ EXCEPT !.pc = "act"]
         ELSE Waiting]
    /\ UNCHANGED <<authDisk, authMem, authMutex, sessions, guard, listed>>

(* The explicit step-up request, after its password was right.             *)
GrantStepUp(c) ==
    /\ serving[c].pc = "act" /\ serving[c].op = "stepup"
    /\ sessions' = [sessions EXCEPT ![c] = Granted(@)]
    /\ serving' = [serving EXCEPT ![c] = Waiting]
    /\ UNCHANGED <<authDisk, authMem, authMutex, limiters, guard, listed>>

Root(c) == IF serving[c].op = "change" THEN "password" ELSE "recovery"

(* set_password and set_recovery_key: storage first.  A failed write ends  *)
(* the request with nothing changed.                                       *)
WriteRoot(c) ==
    /\ serving[c].pc = "act" /\ serving[c].op \in {"change", "rotate"}
    /\ authMutex = NoClient
    /\ authMem[Root(c)] < MaxVersion
    /\ authMutex' = c
    /\ authDisk' = [authMem EXCEPT ![Root(c)] = @ + 1]
    /\ serving' = [serving EXCEPT ![c].pc = "publish"]
    /\ UNCHANGED <<authMem, sessions, limiters, guard, listed>>

WriteRootFails(c) ==
    /\ serving[c].pc = "act" /\ serving[c].op \in {"change", "rotate"}
    /\ authMutex = NoClient
    /\ serving' = [serving EXCEPT ![c] = Waiting]
    /\ UNCHANGED <<authDisk, authMem, authMutex, sessions, limiters, guard, listed>>

(* Mutant: the caller keeps its session.                                   *)
PublishKeepsCaller(c) ==
    /\ serving[c].pc = "publish"
    /\ authMem' = authDisk
    /\ authMutex' = NoClient
    /\ sessions' = [d \in Clients |-> IF d = c THEN sessions[d] ELSE NoSession]
    /\ serving' = [serving EXCEPT ![c] = Waiting]
    /\ UNCHANGED <<authDisk, limiters, guard, listed>>

(* The new record is published and every session dropped (drop_all).       *)
PublishRoot(c) ==
    /\ serving[c].pc = "publish"
    /\ authMem' = authDisk
    /\ authMutex' = NoClient
    /\ sessions' = [d \in Clients |-> NoSession]
    /\ serving' = [serving EXCEPT ![c] = Waiting]
    /\ UNCHANGED <<authDisk, limiters, guard, listed>>

-----------------------------------------------------------------------------
(* Explicit activity of the page; reads and streams renew nothing.         *)
Activity(c) ==
    /\ Allowed /\ Alive(sessions[c])
    /\ sessions' = [sessions EXCEPT ![c] = Renewed(@)]
    /\ UNCHANGED <<authDisk, authMem, authMutex, limiters, guard, listed, serving>>

(* Logout drops the session and its grant.                                 *)
Logout(c) ==
    /\ Allowed /\ Alive(sessions[c])
    /\ sessions' = [sessions EXCEPT ![c] = NoSession]
    /\ UNCHANGED <<authDisk, authMem, authMutex, limiters, guard, listed, serving>>

(* The caller removes its own address from the whitelist (with confirm);   *)
(* AccessPolicy is storage first, so a failed write changes nothing.       *)
WhitelistRemove(c) ==
    /\ serving[c].pc = "idle"
    /\ Allowed /\ Alive(sessions[c])
    /\ listed' = FALSE
    /\ UNCHANGED <<authDisk, authMem, authMutex, sessions, limiters, guard, serving>>

-----------------------------------------------------------------------------
(* The recovery flow, the one exception to the whitelist: per-address      *)
(* limiter, then the global guard, which counts the attempt before it asks *)
(* for a slot.                                                             *)
RecoverBegin(c, secret) ==
    /\ serving[c].pc = "idle"
    /\ Admits("recovery")
    /\ limiters' = Checked("recovery")
    /\ Len(guard.attempts) < GuardAttempts
    /\ LET slot == guard.running < GuardSlots IN
       /\ guard' = [running |-> guard.running + IF slot THEN 1 ELSE 0,
                    attempts |-> Append(guard.attempts, FailureWindow)]
       /\ serving' = IF slot THEN [serving EXCEPT ![c] =
                       [pc |-> "verify", op |-> "recover", secret |-> secret,
                        ok |-> FALSE]]
                     ELSE serving
    /\ UNCHANGED <<authDisk, authMem, authMutex, sessions, listed>>

(* Mutant: the slot is given back only after a success.                    *)
RecoverEndLeaks(c) ==
    /\ serving[c].pc = "count" /\ serving[c].op = "recover"
    /\ limiters' = IF serving[c].ok THEN Succeeded("recovery")
                   ELSE Failed("recovery")
    /\ listed' \in IF serving[c].ok THEN {TRUE, listed} ELSE {listed}
    /\ guard' = IF serving[c].ok THEN [guard EXCEPT !.running = @ - 1] ELSE guard
    /\ serving' = [serving EXCEPT ![c] = Waiting]
    /\ UNCHANGED <<authDisk, authMem, authMutex, sessions>>

(* The verdict is counted; the right key puts the peer address on the      *)
(* whitelist unless that write fails; the slot is given back in any case.  *)
RecoverEnd(c) ==
    /\ serving[c].pc = "count" /\ serving[c].op = "recover"
    /\ limiters' = IF serving[c].ok THEN Succeeded("recovery")
                   ELSE Failed("recovery")
    /\ listed' \in IF serving[c].ok THEN {TRUE, listed} ELSE {listed}
    /\ guard' = [guard EXCEPT !.running = @ - 1]
    /\ serving' = [serving EXCEPT ![c] = Waiting]
    /\ UNCHANGED <<authDisk, authMem, authMutex, sessions>>

-----------------------------------------------------------------------------
Aged(times) ==
    LET left == [i \in DOMAIN times |-> times[i] - 1]
    IN  Thinned(left, {i \in DOMAIN left : left[i] > 0})

(* One unit of the clock: sessions and grants run down, failures leave     *)
(* their window, locks end.                                                *)
GateTick ==
    /\ sessions' = [c \in Clients |->
         LET s == [sessions[c] EXCEPT !.life = Left(@), !.idle = Left(@),
                                      !.step = Left(@)]
         IN  IF Alive(s) THEN s ELSE NoSession]
    /\ limiters' = [l \in Limited |->
         [limiters[l] EXCEPT !.fails = Aged(@), !.lock = Left(@)]]
    /\ guard' = [guard EXCEPT !.attempts = Aged(@)]
    /\ UNCHANGED <<authDisk, authMem, authMutex, listed, serving>>

(* The web process dies and is started again: AuthStore.load.              *)
Restart ==
    /\ authMem' = authDisk
    /\ authMutex' = NoClient
    /\ sessions' = [c \in Clients |-> NoSession]
    /\ limiters' = [l \in Limited |-> Open]
    /\ guard' = [running |-> 0, attempts |-> <<>>]
    /\ serving' = [c \in Clients |-> Waiting]
    /\ UNCHANGED <<authDisk, listed>>

GateNext ==
    \/ \E c \in Clients :
         \/ \E op \in NeedsPassword, v \in 1 .. MaxVersion : Enter(c, op, v)
         \/ \E v \in 1 .. MaxVersion : RecoverBegin(c, v)
         \/ Login(c) \/ Verify(c) \/ Count(c) \/ GrantStepUp(c)
         \/ WriteRoot(c) \/ WriteRootFails(c) \/ PublishRoot(c)
         \/ Activity(c) \/ Logout(c) \/ WhitelistRemove(c) \/ RecoverEnd(c)
    \/ GateTick
    \/ Restart

GateSpec == GateInit /\ [][GateNext]_gateVars

-----------------------------------------------------------------------------
GateTypeOK ==
    /\ authDisk \in Roots /\ authMem \in Roots
    /\ authMutex \in Clients \cup {NoClient}
    /\ sessions \in [Clients -> [life : 0 .. SessionTtl, idle : 0 .. IdleTtl,
                                 step : 0 .. SessionTtl, roots : Roots]]
    /\ \A l \in Limited : /\ limiters[l].lock \in 0 .. Lockout
                          /\ limiters[l].fails \in Seq(1 .. FailureWindow)
    /\ guard.running \in 0 .. GuardSlots
    /\ guard.attempts \in Seq(1 .. FailureWindow)
    /\ listed \in BOOLEAN
    /\ serving \in [Clients -> [pc : {"idle", "verify", "count", "act", "publish"},
                                op : NeedsPassword \cup {"recover"},
                                secret : 0 .. MaxVersion, ok : BOOLEAN]]

(* A session never outlives the password or the recovery key it was opened *)
(* under: however logins, step-ups, changes, failed writes and restarts    *)
(* interleave, every live session was granted under the records that       *)
(* AuthStore holds, those are the ones on disk unless a change is being    *)
(* published at this moment, and no grant outlives its session.            *)
SessionsCurrent ==
    /\ authMutex = NoClient => authMem = authDisk
    /\ \A c \in Clients : Alive(sessions[c]) =>
         /\ sessions[c].roots = authMem
         /\ sessions[c].step <= sessions[c].life

(* Guessing stays bounded under concurrency: at most MaxFailures - 1       *)
(* failures plus those already under way fit into a window, and every      *)
(* recovery verification under way holds exactly one slot, so that none is *)
(* lost to a failed write or a wrong key.                                  *)
GuessingBounded ==
    /\ \A l \in Limited :
         Len(limiters[l].fails) < MaxFailures + Cardinality(Clients)
    /\ guard.running = Cardinality({c \in Clients :
         serving[c].op = "recover" /\ serving[c].pc \in {"verify", "count"}})
=============================================================================
