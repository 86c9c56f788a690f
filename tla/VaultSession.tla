---------------------------- MODULE VaultSession ----------------------------
(***************************************************************************)
(* The lock state of the browser extension: the reducer and effect runner  *)
(* of background/vault-session, the desktop status it follows by polling   *)
(* and by pushed events, the handlers that unlock and lock, the keys the   *)
(* account store holds in memory, and the recycling of the service worker. *)
(* Time passes in ticks; a lock reason, a revision or an icon is left out. *)
(***************************************************************************)
EXTENDS Integers, Sequences, FiniteSets

CONSTANTS
    Settings,      \* auto-lock timeouts the user may choose, in ticks or Never
    DeskTimeout,   \* the timeout the running desktop app reports
    Sessions,      \* server session ids that may be revoked
    MaxIdle,       \* bound: idle time is not told apart beyond this
    MaxClears,     \* bound: key destructions in flight at once
    MaxPushes,     \* bound: pushed events under way
    MaxFaults      \* bound: lost events, failed steps, recycled workers

Never == -1        \* the timeout that means "do not lock"
Unset == -2        \* a null desktop timeout
Off   == -1        \* a timer or an alarm that is not armed
NoId  == "none"    \* a revocation frame without a session id

\* What a status request finds: no native host; a host that cannot reach the
\* desktop app; an app that is locked, unlocked with no account, unlocked.
Statuses == {"null", "hostonly", "locked", "empty", "unlocked"}
Callers  == {"poll", "user"}

ASSUME SessionAssumption ==
    /\ MaxIdle \in Nat
    /\ Settings # {} /\ Settings \subseteq (1..MaxIdle) \cup {Never}
    /\ DeskTimeout \in (1..MaxIdle) \cup {Never}
    /\ NoId \notin Sessions
    /\ MaxClears \in Nat \ {0}
    /\ MaxPushes \in Nat /\ MaxFaults \in Nat

VARIABLES
    m,          \* the state cell of the machine with the timers it arms
    keys,       \* master unlock keys are in the account store's memory
    stored,     \* a session that can be restored is in storage
    stray,      \* keys were left in memory by an unlock that did not complete
    ending,     \* invalidate_session is queued behind clear_keys
    desk,       \* the desktop app as the native host sees it
    cached,     \* lastDesktopStatus
    subscribed, \* desktop events reach this worker
    pushes,     \* events under way, in order
    check,      \* per caller: "idle", "asked", or the answer under way
    wasLocked,  \* what the poll under way read before it asked
    boot,       \* where the startup routine is
    ui,         \* where the popup's handler is
    faults

vars == <<m, keys, stored, stray, ending, desk, cached, subscribed, pushes, check,
          wasLocked, boot, ui, faults>>
memory == <<keys, stored, stray, ending>>
link   == <<cached, subscribed, pushes, check, wasLocked>>

Owners == {"none", "local", "desktop"}
Delays == {Off} \cup (0..MaxIdle)
Machines == [owner : Owners, muk : BOOLEAN, connected : BOOLEAN,
             locked : BOOLEAN, dtimeout : {Unset, Never} \cup (1..MaxIdle),
             setting : {Never} \cup (1..MaxIdle), idle : 0..MaxIdle,
             revoked : Sessions \cup {NoId}, timer : Delays, alarm : Delays,
             clearing : 0..MaxClears]

TypeOK ==
    /\ m \in Machines
    /\ keys \in BOOLEAN /\ stored \in BOOLEAN /\ stray \in BOOLEAN
    /\ ending \in BOOLEAN
    /\ desk \in Statuses /\ cached \in Statuses
    /\ subscribed \in BOOLEAN /\ wasLocked \in BOOLEAN
    /\ pushes \in Seq({"lock", "unlock", "empty", "close"})
    /\ Len(pushes) <= MaxPushes
    /\ check \in [Callers -> {"idle", "asked"} \cup Statuses]
    /\ boot \in {"cold", "first", "second", "done"}
    /\ ui \in {"idle", "checking", "deriving", "restoring", "storing", "recovering",
               "leaving"}
    /\ faults \in 0..MaxFaults

-----------------------------------------------------------------------------
(* What a status says.                                                     *)

Connected(st) == st # "null"
Locked(st)    == st \in {"hostonly", "locked"}
Available(st) == st \in {"locked", "empty", "unlocked"}
\* Mutant: a host that sends no timeout counts as a timeout of zero.
ReportedTimeout_Zero(st) == CASE st = "null" -> Unset
                              [] st = "hostonly" -> 0
                              [] OTHER -> DeskTimeout
ReportedTimeout(st) == CASE st = "null" -> Unset
                         [] st = "hostonly" -> Never
                         [] OTHER -> DeskTimeout

-----------------------------------------------------------------------------
(* The reducer, each event with the effects it emits.                      *)

\* A fresh state cell; an alarm armed by an earlier worker may still be set.
InitialMachine(setting, alarm) ==
    [owner |-> "none", muk |-> FALSE, connected |-> FALSE, locked |-> FALSE,
     dtimeout |-> Unset, setting |-> setting, idle |-> 0, revoked |-> NoId,
     timer |-> Off, alarm |-> alarm, clearing |-> 0]

\* A connected desktop's timeout wins.
Timeout(x) == IF x.connected /\ x.dtimeout # Unset THEN x.dtimeout ELSE x.setting
Counts(x)  == x.owner = "local" /\ Timeout(x) # Never
Expired(x) == Counts(x) /\ x.idle >= Timeout(x)
Delay(x)   == IF x.idle >= Timeout(x) THEN 0 ELSE Timeout(x) - x.idle

Armed(x, d) == [x EXCEPT !.timer = d, !.alarm = d]

\* Mutant: the whole timeout is armed, whatever idle time has passed.
OwnershipEffects_FullDelay(x) ==
    CASE x.owner = "none" -> x
      [] Counts(x) -> Armed(x, Timeout(x))
      [] OTHER -> Armed(x, Off)
OwnershipEffects(x) ==
    CASE x.owner = "none" -> x
      [] Counts(x) -> Armed(x, Delay(x))
      [] OTHER -> Armed(x, Off)

OneMore(n) == IF n < MaxClears THEN n + 1 ELSE n

\* Mutant: the keys of the account store are not destroyed.
LockTransition_KeepsStore(x) ==
    IF x.owner = "none" THEN x
    ELSE [Armed(x, Off) EXCEPT !.owner = "none", !.muk = FALSE, !.idle = 0]
\* Timers first, key destruction last; nothing at all when already locked.
LockTransition(x) ==
    IF x.owner = "none" THEN x
    ELSE [Armed(x, Off) EXCEPT !.owner = "none", !.muk = FALSE, !.idle = 0,
                               !.clearing = OneMore(@)]

\* Mutant: only the pre-check of the handlers guards an unlock.
UnlockLocally_Trusting(x) ==
    OwnershipEffects([x EXCEPT !.owner = "local", !.muk = TRUE, !.idle = 0])
UnlockLocally(x) ==
    IF x.connected /\ x.locked
    THEN x
    ELSE OwnershipEffects([x EXCEPT !.owner = "local", !.muk = TRUE, !.idle = 0])

\* Mutant: a restored session gets no timer.
StartupRestored_Unarmed(x, restored) ==
    IF x.owner # "none" \/ ~restored THEN x
    ELSE [x EXCEPT !.owner = "local", !.muk = TRUE, !.idle = 0]
StartupRestored(x, restored) ==
    IF x.owner # "none" \/ ~restored THEN x ELSE UnlockLocally(x)

\* Mutant: a lock seen by polling is only recorded.
DesktopObserved_Records(x, st) ==
    OwnershipEffects([x EXCEPT !.connected = Connected(st), !.locked = Locked(st),
                               !.dtimeout = ReportedTimeout(st)])
DesktopObserved(x, st) ==
    LET base == [x EXCEPT !.connected = Connected(st), !.locked = Locked(st),
                          !.dtimeout = ReportedTimeout(st)]
    IN  IF base = x THEN x
        ELSE IF Locked(st) \/ (~Connected(st) /\ x.owner = "desktop")
             THEN LockTransition(base)
             ELSE OwnershipEffects(base)

DesktopUnlockPushed(x) ==
    [Armed(x, Off) EXCEPT !.owner = "desktop", !.muk = FALSE, !.idle = 0,
                          !.connected = TRUE, !.locked = FALSE]

DesktopLockPushed(x) ==
    LockTransition([x EXCEPT !.connected = TRUE, !.locked = TRUE])

DesktopClosed(x) ==
    LET base == [x EXCEPT !.connected = FALSE, !.locked = FALSE,
                          !.dtimeout = Unset]
    IN  IF x.owner = "desktop" THEN LockTransition(base)
        ELSE OwnershipEffects(base)

ActivitySeen(x) ==
    IF x.owner = "none" THEN x
    ELSE LET next == [x EXCEPT !.idle = 0]
         IN  IF x.owner = "desktop" THEN next ELSE OwnershipEffects(next)

TimeoutElapsed(x) ==
    IF x.owner # "local" THEN x
    ELSE IF Expired(x) THEN LockTransition(x) ELSE OwnershipEffects(x)

TimeoutSettingChanged(x, t) ==
    IF t = x.setting THEN x ELSE OwnershipEffects([x EXCEPT !.setting = t])

LockRequested(x, source) ==
    IF source = "popup" /\ x.connected THEN x ELSE LockTransition(x)

SessionRevoked(x, id) ==
    IF id # NoId /\ id = x.revoked THEN x
    ELSE [LockTransition(x) EXCEPT !.revoked = id]

-----------------------------------------------------------------------------
Init ==
    /\ \E t \in Settings : m = InitialMachine(t, Off)
    /\ keys = FALSE /\ stray = FALSE /\ ending = FALSE
    /\ stored \in BOOLEAN
    /\ desk \in {"null", "hostonly", "locked"}
    /\ cached = "null"
    /\ subscribed = FALSE /\ pushes = <<>>
    /\ check = [c \in Callers |-> "idle"] /\ wasLocked = FALSE
    /\ boot = "cold" /\ ui = "idle"
    /\ faults = 0

Ready    == boot = "done"
Spend    == faults < MaxFaults /\ faults' = faults + 1

(* The desktop app: it locks, unlocks, starts and quits, and tells its     *)
(* subscribers.                                                            *)
DesktopMoves(to, event) ==
    /\ desk # "null" /\ desk # to
    /\ desk' = to
    /\ IF subscribed
       THEN Len(pushes) < MaxPushes /\ pushes' = Append(pushes, event)
       ELSE UNCHANGED pushes
    /\ UNCHANGED <<m, memory, cached, subscribed, check, wasLocked, boot, ui, faults>>

DesktopLocks   == desk \in {"empty", "unlocked"} /\ DesktopMoves("locked", "lock")
DesktopUnlocks == \/ desk = "locked" /\ DesktopMoves("unlocked", "unlock")
                  \/ desk = "locked" /\ DesktopMoves("empty", "empty")
DesktopQuits   == desk # "hostonly" /\ DesktopMoves("hostonly", "close")
DesktopStarts  ==
    /\ desk = "hostonly" /\ desk' = "locked"
    /\ UNCHANGED <<m, memory, link, boot, ui, faults>>

\* Event delivery drops.
PushLost ==
    /\ pushes # <<>> /\ Spend /\ pushes' = Tail(pushes)
    /\ UNCHANGED <<m, memory, desk, cached, subscribed, check, wasLocked, boot, ui>>

\* The native host answers a status request, or the request fails.
DesktopAnswers(c) ==
    /\ check[c] = "asked"
    /\ \/ check' = [check EXCEPT ![c] = desk] /\ UNCHANGED faults
       \/ desk # "null" /\ check' = [check EXCEPT ![c] = "null"] /\ Spend
    /\ UNCHANGED <<m, memory, desk, cached, subscribed, pushes, wasLocked, boot, ui>>

-----------------------------------------------------------------------------
(* Startup: restore, then look at the desktop twice, then poll.            *)

BootRestores ==
    /\ boot = "cold"
    /\ \E t \in Settings :
          m' = TimeoutSettingChanged(StartupRestored(m, stored), t)
    /\ keys' = stored
    /\ boot' = "first"
    /\ check' = [check EXCEPT !["poll"] = "asked"]
    /\ UNCHANGED <<stored, stray, desk, cached, subscribed, pushes, wasLocked, ui, faults, ending>>

HandOver(x, st) == IF st = "unlocked" THEN DesktopUnlockPushed(x) ELSE x

BootFirst ==
    /\ boot = "first" /\ check["poll"] \in Statuses
    /\ cached' = check["poll"]
    /\ m' = HandOver(DesktopObserved(m, check["poll"]), check["poll"])
    /\ boot' = "second"
    /\ check' = [check EXCEPT !["poll"] = "asked"]
    /\ UNCHANGED <<memory, desk, subscribed, pushes, wasLocked, ui, faults>>

\* A worker that was in desktop mode shortly before is "recovering": it also
\* takes a desktop without unlocked accounts, and does not listen to a locked
\* one.
BootSecond(recovering) ==
    LET st   == check["poll"]
        seen == DesktopObserved(m, st)
    IN  /\ boot = "second" /\ st \in Statuses
        /\ cached' = st
        /\ m' = IF recovering
                THEN IF Available(st) /\ ~Locked(st) THEN DesktopUnlockPushed(seen)
                                                     ELSE seen
                ELSE HandOver(seen, st)
        /\ subscribed' = (Available(st) /\ (recovering => ~Locked(st)))
        /\ boot' = "done"
        /\ check' = [check EXCEPT !["poll"] = "idle"]
        /\ UNCHANGED <<memory, desk, pushes, wasLocked, ui, faults>>

PollAsks ==
    /\ Ready /\ check["poll"] = "idle"
    /\ wasLocked' = (~Connected(cached) \/ Locked(cached))
    /\ check' = [check EXCEPT !["poll"] = "asked"]
    /\ UNCHANGED <<m, memory, desk, cached, subscribed, pushes, boot, ui, faults>>

\* Only the unlock edge hands ownership over; the reducer sees to the rest.
PollAnswered ==
    LET st == check["poll"]
    IN  /\ Ready /\ st \in Statuses
        /\ cached' = st
        /\ m' = LET seen == DesktopObserved(m, st)
                IN  IF wasLocked THEN HandOver(seen, st) ELSE seen
        /\ check' = [check EXCEPT !["poll"] = "idle"] /\ wasLocked' = FALSE
        /\ UNCHANGED <<memory, desk, subscribed, pushes, boot, ui, faults>>

\* A pushed lock or unlock does not touch the cached status; a close drops it.
PushArrives ==
    LET event == Head(pushes)
    IN  /\ pushes # <<>>
        /\ m' = CASE event = "lock"   -> DesktopLockPushed(m)
                  [] event = "unlock" -> DesktopUnlockPushed(m)
                  [] event = "close"  -> DesktopClosed(m)
                  [] OTHER            -> m
        /\ cached' = IF event = "close" THEN "null" ELSE cached
        /\ subscribed' = (event # "close")
        /\ pushes' = IF event = "close" THEN <<>> ELSE Tail(pushes)
        /\ UNCHANGED <<memory, desk, check, wasLocked, boot, ui, faults>>

-----------------------------------------------------------------------------
(* Reading the session re-evaluates it: getSnapshot().                     *)

Evaluated(x) ==
    LET seen == DesktopObserved(x, cached)
    IN  IF Expired(seen) THEN TimeoutElapsed(seen) ELSE seen

\* isUnlocked() on the path of autofill, passkeys and credentials.
Read ==
    /\ Ready
    /\ m' = Evaluated(m)
    /\ UNCHANGED <<memory, link, boot, ui, desk, faults>>

\* A handler that finds the vault locked takes over an unlocked desktop,
\* asking for a fresh status unless the cached one already says so.
Recover ==
    LET x == Evaluated(m)
    IN  /\ Ready /\ ui = "idle"
        /\ x.owner = "none"
        /\ IF cached = "unlocked"
           THEN m' = DesktopUnlockPushed(x) /\ UNCHANGED <<check, ui>>
           ELSE /\ m' = x /\ ui' = "recovering"
                /\ check' = [check EXCEPT !["user"] = "asked"]
        /\ UNCHANGED <<memory, desk, cached, subscribed, pushes, wasLocked, boot, faults>>

RecoverAnswered ==
    LET st == check["user"]
    IN  /\ ui = "recovering" /\ st \in Statuses
        /\ cached' = st
        /\ m' = HandOver(DesktopObserved(m, st), st)
        /\ check' = [check EXCEPT !["user"] = "idle"] /\ ui' = "idle"
        /\ UNCHANGED <<memory, desk, subscribed, pushes, wasLocked, boot, faults>>

-----------------------------------------------------------------------------
(* Unlocking with the password: requireDesktopUnlock() first, then the key *)
(* is derived, stored with the session, and installed.                     *)

OwnsUnlock(st) == Available(st) /\ Locked(st)

QuickUnlock ==
    /\ Ready /\ ui = "idle"
    /\ IF cached = "null"
       THEN ui' = "checking" /\ check' = [check EXCEPT !["user"] = "asked"]
       ELSE ~OwnsUnlock(cached) /\ ui' = "deriving" /\ UNCHANGED check
    /\ UNCHANGED <<m, memory, desk, cached, subscribed, pushes, wasLocked, boot, faults>>

UnlockChecked ==
    LET st == check["user"]
    IN  /\ ui = "checking" /\ st \in Statuses
        /\ cached' = st /\ m' = DesktopObserved(m, st)
        /\ check' = [check EXCEPT !["user"] = "idle"]
        /\ ui' = IF OwnsUnlock(st) THEN "idle" ELSE "deriving"
        /\ UNCHANGED <<memory, desk, subscribed, pushes, wasLocked, boot, faults>>

\* A full sign-in asks no desktop.
SignIn ==
    /\ Ready /\ ui = "idle" /\ ui' = "deriving"
    /\ UNCHANGED <<m, memory, desk, link, boot, faults>>

UnlockStores ==
    /\ ui = "deriving"
    /\ keys' = TRUE /\ stored' = TRUE /\ ui' = "storing"
    /\ UNCHANGED <<m, stray, desk, link, boot, faults, ending>>

\* CHECK_AUTH restores a stored session when it reads "locked".
CheckAuth ==
    /\ Ready /\ ui = "idle"
    /\ m' = Evaluated(m)
    /\ ui' = IF stored /\ m'.owner = "none" THEN "restoring" ELSE "idle"
    /\ UNCHANGED <<memory, desk, link, boot, faults>>

CheckAuthRestores ==
    /\ ui = "restoring"
    /\ keys' = (keys \/ stored)
    /\ ui' = IF stored THEN "storing" ELSE "idle"
    /\ UNCHANGED <<m, stored, stray, desk, link, boot, faults, ending>>

\* setMasterUnlockKey(): a refusal leaves the stored keys where they are.
UnlockInstalls ==
    /\ ui = "storing" /\ ui' = "idle"
    /\ m' = UnlockLocally(m)
    /\ stray' = (stray \/ (keys /\ m'.owner = "none"))
    /\ UNCHANGED <<keys, stored, desk, link, boot, faults, ending>>

UnlockFails ==
    /\ ui \in {"deriving", "storing"} /\ ui' = "idle" /\ Spend
    /\ stray' = (stray \/ (keys /\ m.owner = "none"))
    /\ UNCHANGED <<m, keys, stored, desk, link, boot, ending>>

-----------------------------------------------------------------------------
(* Locking, activity and time.                                             *)

PopupLocks ==
    /\ Ready
    /\ m' = LockRequested(m, "popup")
    /\ UNCHANGED <<memory, link, boot, ui, desk, faults>>

\* Logging out ends the session in storage and memory, then locks.
LogsOut ==
    /\ Ready /\ ui = "idle" /\ ui' = "leaving"
    /\ keys' = FALSE /\ stored' = FALSE /\ stray' = FALSE
    /\ UNCHANGED <<m, ending, desk, link, boot, faults>>

LogoutLocks ==
    /\ ui = "leaving" /\ ui' = "idle"
    /\ m' = LockRequested(m, "logout")
    /\ UNCHANGED <<memory, desk, link, boot, faults>>

\* The server revokes a session; a frame seen before changes nothing.
RevocationArrives(id) ==
    /\ Ready
    /\ m' = SessionRevoked(m, id)
    /\ ending' = (ending \/ id = NoId \/ id # m.revoked)
    /\ UNCHANGED <<keys, stored, stray, desk, link, boot, ui, faults>>

InvalidationEnds ==
    /\ ending /\ m.clearing = 0 /\ ending' = FALSE
    /\ keys' = FALSE /\ stored' = FALSE /\ stray' = FALSE
    /\ UNCHANGED <<m, desk, link, boot, ui, faults>>

\* updateActivity(): the timeout is read again, then the time is stamped.
Activity ==
    /\ Ready
    /\ \E t \in Settings : m' = ActivitySeen(TimeoutSettingChanged(m, t))
    /\ UNCHANGED <<memory, link, boot, ui, desk, faults>>

TimerFires ==
    /\ m.timer = 0
    /\ m' = TimeoutElapsed([m EXCEPT !.timer = Off])
    /\ UNCHANGED <<memory, link, boot, ui, desk, faults>>

\* The alarm does not wait for the startup routine.
AlarmFires ==
    /\ m.alarm = 0
    /\ \E t \in Settings :
          m' = TimeoutElapsed(TimeoutSettingChanged([m EXCEPT !.alarm = Off], t))
    /\ UNCHANGED <<memory, link, boot, ui, desk, faults>>

Sooner(d) == IF d > 0 THEN d - 1 ELSE d

Tick ==
    /\ m' = [m EXCEPT !.timer = Sooner(@), !.alarm = Sooner(@),
                      !.idle = IF m.owner = "local" /\ @ < MaxIdle THEN @ + 1 ELSE @]
    /\ UNCHANGED <<memory, link, boot, ui, desk, faults>>

\* A detached lockAll() ends; a failure is only logged.
ClearEnds ==
    /\ m.clearing > 0
    /\ m' = [m EXCEPT !.clearing = @ - 1]
    /\ \/ keys' = FALSE /\ stray' = FALSE /\ UNCHANGED faults
       \/ keys' = keys /\ Spend /\ stray' = (stray \/ keys)
    /\ UNCHANGED <<stored, desk, link, boot, ui, ending>>

\* The browser recycles the worker: memory is lost, alarm and storage stay.
Recycle ==
    /\ Spend
    /\ \E t \in Settings : m' = InitialMachine(t, m.alarm)
    /\ keys' = FALSE /\ stray' = FALSE /\ ending' = FALSE
    /\ cached' = "null" /\ subscribed' = FALSE /\ pushes' = <<>>
    /\ check' = [c \in Callers |-> "idle"] /\ wasLocked' = FALSE
    /\ boot' = "cold" /\ ui' = "idle"
    /\ UNCHANGED <<stored, desk>>

Next ==
    \/ DesktopLocks \/ DesktopUnlocks \/ DesktopQuits \/ DesktopStarts
    \/ PushLost \/ PushArrives
    \/ \E c \in Callers : DesktopAnswers(c)
    \/ BootRestores \/ BootFirst \/ \E r \in BOOLEAN : BootSecond(r)
    \/ PollAsks \/ PollAnswered
    \/ Read \/ Recover \/ RecoverAnswered
    \/ QuickUnlock \/ UnlockChecked \/ SignIn \/ UnlockStores
    \/ CheckAuth \/ CheckAuthRestores \/ UnlockInstalls \/ UnlockFails
    \/ PopupLocks \/ LogsOut \/ LogoutLocks
    \/ \E id \in Sessions \cup {NoId} : RevocationArrives(id)
    \/ InvalidationEnds
    \/ Activity \/ TimerFires \/ AlarmFires \/ Tick \/ ClearEnds \/ Recycle

Spec == Init /\ [][Next]_vars

\* Starting up and polling are one sequential activity of the worker.
Polling ==
    \/ DesktopAnswers("poll") \/ BootRestores \/ BootFirst
    \/ \E r \in BOOLEAN : BootSecond(r)
    \/ PollAsks \/ PollAnswered

FairSpec ==
    /\ Spec
    /\ WF_vars(Polling) /\ WF_vars(ClearEnds)
    /\ WF_vars(Tick) /\ WF_vars(TimerFires)

-----------------------------------------------------------------------------
(* Properties.                                                             *)

\* ADR 0004: next to a connected desktop that is locked nothing is unlocked,
\* and a session is the desktop's only while it is connected and unlocked,
\* whatever order polls, pushes, handlers and restarts come in.
DesktopOwns ==
    /\ m.connected /\ m.locked => m.owner = "none"
    /\ m.owner = "desktop" => m.connected /\ ~m.locked

\* The key is in the state cell exactly while the session is local, and the
\* account store's keys outlive a lock only while their destruction is under
\* way, while a handler is about to install them, or where an unlock was
\* refused or a destruction failed.
KeysFollow ==
    /\ m.muk = (m.owner = "local")
    /\ m.owner = "none" /\ keys =>
          m.clearing > 0 \/ ending \/ ui = "storing" \/ stray

\* Through every change of activity, setting, desktop and owner, a session
\* that counts down has timer and alarm armed for no later than its deadline,
\* and no timer runs for any other.
DeadlineArmed ==
    IF Counts(m) THEN m.timer \in 0..Delay(m) /\ m.alarm \in 0..Delay(m)
                 ELSE m.timer = Off

\* ADR 0006: where the desktop was last heard to be locked, by an answer or by a pushed
\* event, neither a read nor the recovery that follows it serves a session.
ReadsFailClosed ==
    [][(Read \/ Recover) /\ m.connected /\ m.locked => m'.owner = "none"]_vars

\* A desktop that stays locked, or gone, in the end keeps the extension locked:
\* late answers, stale pushes and unlocks under way are all overtaken by polls.
FollowsDesktop ==
    <>[](desk \in {"locked", "hostonly"}) => <>[](m.owner = "none")

\* A session that counts down does not stay idle for ever.
AutoLocks == []<>(~Counts(m) \/ m.idle = 0)

\* ADR 0004's escape hatch: with the desktop app quit, and known to be quit, an
\* unlock that has gone through leaves the extension unlocked.
QuitFreesUnlock ==
    [][UnlockInstalls /\ ~Available(desk) /\ cached = desk
          => m'.owner = "local"]_vars
=============================================================================
