------------------------- MODULE VaultSessionProofs -------------------------
(***************************************************************************)
(* The safety of the vault session for every timeout, session id and       *)
(* bound. Each event of the reducer is a function from one state cell to   *)
(* the next, so the proof is a lemma per event, saying that it leads from  *)
(* a good cell to a good one, and an induction over the actions that       *)
(* compose them.                                                           *)
(***************************************************************************)
EXTENDS VaultSession, TLAPS

\* A well-typed cell that obeys the desktop and holds the key iff local.
Sound(x) ==
    /\ x \in Machines
    /\ x.muk = (x.owner = "local")
    /\ x.connected /\ x.locked => x.owner = "none"
    /\ x.owner = "desktop" => x.connected /\ ~x.locked

\* Its timers agree with its deadline.
Timed(x) ==
    IF Counts(x) THEN x.timer \in 0..Delay(x) /\ x.alarm \in 0..Delay(x)
                 ELSE x.timer = Off

Good(x) == Sound(x) /\ Timed(x)

\* A cell that is locked with nothing being destroyed came from such a cell.
Covers(x, y) == y.owner = "none" /\ y.clearing = 0
                   => x.owner = "none" /\ x.clearing = 0

\* A delay is a time no longer than the bound on idleness.
LEMMA DelayType ==
    ASSUME NEW x \in Machines, Counts(x)
    PROVE  /\ Delay(x) \in 0..MaxIdle
           /\ Timeout(x) \in 1..MaxIdle
  BY SessionAssumption DEF Machines, Counts, Delay, Timeout, Never, Unset, Delays, Off

\* Re-arming makes the timers of any sound cell agree with its deadline, from
\* whatever they were (ownershipEffects).
LEMMA OwnershipGood ==
    ASSUME NEW x, Sound(x), x.owner = "none" => x.timer = Off
    PROVE  Good(OwnershipEffects(x)) /\ Covers(x, OwnershipEffects(x))
<1>1. x \in Machines
  BY DEF Sound
<1>2. CASE x.owner = "none"
  BY <1>1, <1>2 DEF OwnershipEffects, Good, Timed, Counts, Covers
<1>3. CASE x.owner # "none" /\ Counts(x)
  <2> DEFINE y == [x EXCEPT !.timer = Delay(x), !.alarm = Delay(x)]
  <2>1. OwnershipEffects(x) = y
    BY <1>3 DEF OwnershipEffects, Armed
  <2>2. Delay(x) \in 0..MaxIdle
    BY <1>1, <1>3, DelayType
  <2>3. y \in Machines
    BY <1>1, <2>2 DEF Machines, Delays
  <2>4. /\ y.owner = x.owner /\ y.muk = x.muk /\ y.connected = x.connected
        /\ y.locked = x.locked /\ y.dtimeout = x.dtimeout /\ y.idle = x.idle
        /\ y.setting = x.setting /\ y.clearing = x.clearing
        /\ y.timer = Delay(x) /\ y.alarm = Delay(x)
    BY <1>1 DEF Machines
  <2> HIDE DEF y
  <2>5. Delay(y) = Delay(x) /\ Counts(y)
    BY <1>3, <2>4 DEF Delay, Counts, Timeout
  <2>6. Sound(y) /\ Covers(x, y)
    BY <2>3, <2>4 DEF Sound, Covers
  <2>7. Timed(y)
    BY <2>2, <2>4, <2>5 DEF Timed
  <2> QED  BY <2>1, <2>6, <2>7 DEF Good
<1>4. CASE x.owner # "none" /\ ~Counts(x)
  <2> DEFINE y == [x EXCEPT !.timer = Off, !.alarm = Off]
  <2>1. OwnershipEffects(x) = y
    BY <1>4 DEF OwnershipEffects, Armed
  <2>3. y \in Machines
    BY <1>1 DEF Machines, Delays
  <2>4. /\ y.owner = x.owner /\ y.muk = x.muk /\ y.connected = x.connected
        /\ y.locked = x.locked /\ y.dtimeout = x.dtimeout
        /\ y.setting = x.setting /\ y.clearing = x.clearing
        /\ y.timer = Off
    BY <1>1 DEF Machines
  <2> HIDE DEF y
  <2>5. ~Counts(y)
    BY <1>4, <2>4 DEF Counts, Timeout
  <2>6. Sound(y) /\ Covers(x, y)
    BY <2>3, <2>4 DEF Sound, Covers
  <2> QED  BY <2>1, <2>4, <2>5, <2>6 DEF Good, Timed
<1> QED  BY <1>2, <1>3, <1>4

\* Locking makes a good cell of any that is good where it was locked already
\* (lockTransition).
LEMMA LockGood ==
    ASSUME NEW x \in Machines, x.owner = "none" => ~x.muk /\ x.timer = Off
    PROVE  /\ Good(LockTransition(x))
           /\ LockTransition(x).owner = "none"
           /\ Covers(x, LockTransition(x))
<1>1. CASE x.owner = "none"
  BY <1>1 DEF LockTransition, Good, Sound, Timed, Counts, Covers, Machines
<1>2. CASE x.owner # "none"
  <2> DEFINE y == LockTransition(x)
  <2>1. y = [x EXCEPT !.timer = Off, !.alarm = Off, !.owner = "none",
                      !.muk = FALSE, !.idle = 0,
                      !.clearing = OneMore(x.clearing)]
    BY <1>2 DEF LockTransition, Armed, Machines
  <2>2. OneMore(x.clearing) \in 1..MaxClears
    BY SessionAssumption DEF OneMore, Machines
  <2>3. y \in Machines
    <3>1. OneMore(x.clearing) \in 0..MaxClears /\ 0 \in 0..MaxIdle
      BY <2>2, SessionAssumption
    <3> QED  BY <2>1, <3>1 DEF Machines, Delays, Owners
  <2>4. /\ y.owner = "none" /\ y.muk = FALSE /\ y.timer = Off
        /\ y.clearing = OneMore(x.clearing)
    BY <2>1 DEF Machines
  <2> HIDE DEF y
  <2>5. Sound(y)
    BY <2>3, <2>4 DEF Sound
  <2>6. Timed(y)
    BY <2>4 DEF Timed, Counts
  <2>7. Covers(x, y)
    BY <2>2, <2>4, SessionAssumption DEF Covers
  <2> QED  BY <2>4, <2>5, <2>6, <2>7 DEF y, Good
<1> QED  BY <1>1, <1>2

-----------------------------------------------------------------------------
(* One lemma per event.                                                    *)

\* A local unlock is refused or arms the new session.
LEMMA UnlockGood ==
    ASSUME NEW x, Good(x)
    PROVE  Good(UnlockLocally(x)) /\ Covers(x, UnlockLocally(x))
<1>0. x \in Machines
  BY DEF Good, Sound
<1>1. CASE x.connected /\ x.locked
  BY <1>1 DEF UnlockLocally, Covers
<1>2. CASE ~(x.connected /\ x.locked)
  <2> DEFINE y == [x EXCEPT !.owner = "local", !.muk = TRUE, !.idle = 0]
  <2>0. 0 \in 0..MaxIdle
    BY SessionAssumption
  <2>1. y \in Machines
    BY <1>0, <2>0 DEF Machines, Owners
  <2>2. /\ y.owner = "local" /\ y.muk = TRUE /\ y.clearing = x.clearing
        /\ y.connected = x.connected /\ y.locked = x.locked
    BY <1>0 DEF Machines
  <2>3. UnlockLocally(x) = OwnershipEffects(y)
    BY <1>2 DEF UnlockLocally
  <2> HIDE DEF y
  <2>4. Sound(y)
    BY <1>2, <2>1, <2>2 DEF Sound
  <2>5. Good(OwnershipEffects(y)) /\ Covers(y, OwnershipEffects(y))
    BY <2>2, <2>4, OwnershipGood
  <2>6. Covers(x, OwnershipEffects(y))
    BY <2>2, <2>5 DEF Covers
  <2> QED  BY <2>3, <2>5, <2>6
<1> QED  BY <1>1, <1>2

LEMMA StartupGood ==
    ASSUME NEW x, Good(x), NEW r
    PROVE  Good(StartupRestored(x, r)) /\ Covers(x, StartupRestored(x, r))
BY UnlockGood DEF StartupRestored, Covers

\* What a status says is well typed, and a status that is locked is connected.
LEMMA StatusType ==
    ASSUME NEW st \in Statuses
    PROVE  /\ Connected(st) \in BOOLEAN /\ Locked(st) \in BOOLEAN
           /\ ReportedTimeout(st) \in {Unset, Never} \cup (1..MaxIdle)
           /\ Locked(st) => Connected(st)
BY SessionAssumption DEF Statuses, Connected, Locked, ReportedTimeout

\* Observing the desktop leaves a good cell that agrees with what was seen.
LEMMA ObservedGood ==
    ASSUME NEW x, Good(x), NEW st \in Statuses
    PROVE  /\ Good(DesktopObserved(x, st)) /\ Covers(x, DesktopObserved(x, st))
           /\ DesktopObserved(x, st).connected = Connected(st)
           /\ DesktopObserved(x, st).locked = Locked(st)
<1> DEFINE b == [x EXCEPT !.connected = Connected(st), !.locked = Locked(st),
                          !.dtimeout = ReportedTimeout(st)]
<1>0. x \in Machines /\ x.muk = (x.owner = "local")
      /\ (x.owner = "none" => x.timer = Off)
  BY DEF Good, Sound, Timed, Counts
<1>1. b \in Machines
  BY <1>0, StatusType DEF Machines
<1>2. /\ b.owner = x.owner /\ b.muk = x.muk /\ b.timer = x.timer
      /\ b.clearing = x.clearing
      /\ b.connected = Connected(st) /\ b.locked = Locked(st)
  BY <1>0 DEF Machines
<1>3. DesktopObserved(x, st) =
        IF b = x THEN x
        ELSE IF Locked(st) \/ (~Connected(st) /\ x.owner = "desktop")
             THEN LockTransition(b) ELSE OwnershipEffects(b)
  BY DEF DesktopObserved
<1> HIDE DEF b
<1>4. CASE b = x
  BY <1>2, <1>3, <1>4 DEF Covers
<1>5. CASE b # x /\ (Locked(st) \/ (~Connected(st) /\ x.owner = "desktop"))
  <2>1. b.owner = "none" => ~b.muk /\ b.timer = Off
    BY <1>0, <1>2
  <2>2. Good(LockTransition(b)) /\ Covers(b, LockTransition(b))
    BY <1>1, <2>1, LockGood
  <2>3. /\ LockTransition(b).connected = b.connected
        /\ LockTransition(b).locked = b.locked
    BY <1>1 DEF LockTransition, Armed, Machines
  <2>4. Covers(x, LockTransition(b))
    BY <1>2, <2>2 DEF Covers
  <2> QED  BY <1>2, <1>3, <1>5, <2>2, <2>3, <2>4
<1>6. CASE b # x /\ ~(Locked(st) \/ (~Connected(st) /\ x.owner = "desktop"))
  <2>1. Sound(b)
    BY <1>0, <1>1, <1>2, <1>6 DEF Sound
  <2>2. Good(OwnershipEffects(b)) /\ Covers(b, OwnershipEffects(b))
    BY <1>0, <1>2, <2>1, OwnershipGood
  <2>3. /\ OwnershipEffects(b).connected = b.connected
        /\ OwnershipEffects(b).locked = b.locked
    BY <1>1 DEF OwnershipEffects, Armed, Machines
  <2>4. Covers(x, OwnershipEffects(b))
    BY <1>2, <2>2 DEF Covers
  <2> QED  BY <1>2, <1>3, <1>6, <2>2, <2>3, <2>4
<1> QED  BY <1>4, <1>5, <1>6

\* The desktop takes the session over: no key, no timer.
LEMMA UnlockPushedGood ==
    ASSUME NEW x, Good(x)
    PROVE  /\ Good(DesktopUnlockPushed(x))
           /\ Covers(x, DesktopUnlockPushed(x))
<1> DEFINE y == DesktopUnlockPushed(x)
<1>0. x \in Machines
  BY DEF Good, Sound
<1>1. y = [x EXCEPT !.timer = Off, !.alarm = Off, !.owner = "desktop",
                    !.muk = FALSE, !.idle = 0, !.connected = TRUE,
                    !.locked = FALSE]
  BY <1>0 DEF DesktopUnlockPushed, Armed, Machines
<1>2. 0 \in 0..MaxIdle
  BY SessionAssumption
<1>3. y \in Machines
  BY <1>0, <1>1, <1>2 DEF Machines, Delays, Owners
<1>4. /\ y.owner = "desktop" /\ y.muk = FALSE /\ y.connected = TRUE
      /\ y.locked = FALSE /\ y.timer = Off
  BY <1>0, <1>1 DEF Machines
<1> HIDE DEF y
<1>5. Sound(y)
  BY <1>3, <1>4 DEF Sound
<1>6. Timed(y) /\ Covers(x, y)
  BY <1>4 DEF Timed, Counts, Covers
<1> QED  BY <1>5, <1>6 DEF y, Good

LEMMA LockPushedGood ==
    ASSUME NEW x, Good(x)
    PROVE  Good(DesktopLockPushed(x)) /\ Covers(x, DesktopLockPushed(x))
<1> DEFINE b == [x EXCEPT !.connected = TRUE, !.locked = TRUE]
<1>0. x \in Machines /\ x.muk = (x.owner = "local")
      /\ (x.owner = "none" => x.timer = Off)
  BY DEF Good, Sound, Timed, Counts
<1>1. b \in Machines /\ b.owner = x.owner /\ b.muk = x.muk
      /\ b.timer = x.timer /\ b.clearing = x.clearing
  BY <1>0 DEF Machines
<1>2. DesktopLockPushed(x) = LockTransition(b)
  BY DEF DesktopLockPushed
<1> HIDE DEF b
<1>3. b.owner = "none" => ~b.muk /\ b.timer = Off
  BY <1>0, <1>1
<1>4. Good(LockTransition(b)) /\ Covers(b, LockTransition(b))
  BY <1>1, <1>3, LockGood
<1>5. Covers(x, LockTransition(b))
  BY <1>1, <1>4 DEF Covers
<1> QED  BY <1>2, <1>4, <1>5

LEMMA ClosedGood ==
    ASSUME NEW x, Good(x)
    PROVE  Good(DesktopClosed(x)) /\ Covers(x, DesktopClosed(x))
<1> DEFINE b == [x EXCEPT !.connected = FALSE, !.locked = FALSE,
                          !.dtimeout = Unset]
<1>0. x \in Machines /\ x.muk = (x.owner = "local")
      /\ (x.owner = "none" => x.timer = Off)
  BY DEF Good, Sound, Timed, Counts
<1>1. /\ b \in Machines /\ b.owner = x.owner /\ b.muk = x.muk
      /\ b.timer = x.timer /\ b.clearing = x.clearing
      /\ b.connected = FALSE /\ b.locked = FALSE
  BY <1>0 DEF Machines
<1>2. DesktopClosed(x) = IF x.owner = "desktop" THEN LockTransition(b)
                         ELSE OwnershipEffects(b)
  BY DEF DesktopClosed
<1> HIDE DEF b
<1>3. CASE x.owner = "desktop"
  <2>1. b.owner = "none" => ~b.muk /\ b.timer = Off
    BY <1>0, <1>1
  <2>2. Good(LockTransition(b)) /\ Covers(b, LockTransition(b))
    BY <1>1, <2>1, LockGood
  <2>3. Covers(x, LockTransition(b))
    BY <1>1, <2>2 DEF Covers
  <2> QED  BY <1>2, <1>3, <2>2, <2>3
<1>4. CASE x.owner # "desktop"
  <2>1. Sound(b)
    BY <1>0, <1>1, <1>4 DEF Sound
  <2>2. Good(OwnershipEffects(b)) /\ Covers(b, OwnershipEffects(b))
    BY <1>0, <1>1, <2>1, OwnershipGood
  <2>3. Covers(x, OwnershipEffects(b))
    BY <1>1, <2>2 DEF Covers
  <2> QED  BY <1>2, <1>4, <2>2, <2>3
<1> QED  BY <1>3, <1>4

LEMMA ActivityGood ==
    ASSUME NEW x, Good(x)
    PROVE  Good(ActivitySeen(x)) /\ Covers(x, ActivitySeen(x))
<1> DEFINE y == [x EXCEPT !.idle = 0]
<1>0. Sound(x) /\ x \in Machines
  BY DEF Good, Sound
<1>1. 0 \in 0..MaxIdle
  BY SessionAssumption
<1>2. /\ y \in Machines /\ y.owner = x.owner /\ y.muk = x.muk
      /\ y.connected = x.connected /\ y.locked = x.locked
      /\ y.timer = x.timer /\ y.clearing = x.clearing
  BY <1>0, <1>1 DEF Machines
<1>3. ActivitySeen(x) = IF x.owner = "none" THEN x
                        ELSE IF x.owner = "desktop" THEN y
                        ELSE OwnershipEffects(y)
  BY DEF ActivitySeen
<1> HIDE DEF y
<1>4. Sound(y) /\ Covers(x, y)
  BY <1>0, <1>2 DEF Sound, Covers
<1>5. CASE x.owner = "none"
  BY <1>3, <1>5 DEF Covers
<1>6. CASE x.owner = "desktop"
  <2>1. Timed(y)
    BY <1>2, <1>6 DEF Good, Timed, Counts
  <2> QED  BY <1>3, <1>4, <1>6, <2>1 DEF Good
<1>7. CASE x.owner # "none" /\ x.owner # "desktop"
  <2>1. Good(OwnershipEffects(y)) /\ Covers(y, OwnershipEffects(y))
    BY <1>2, <1>4, <1>7, OwnershipGood
  <2> QED  BY <1>3, <1>4, <1>7, <2>1 DEF Covers
<1> QED  BY <1>5, <1>6, <1>7

\* A timer that fires finds its cell sound, its own timer spent.
LEMMA ElapsedGood ==
    ASSUME NEW x, Sound(x), x.owner # "local" => x.timer = Off
    PROVE  /\ Good(TimeoutElapsed(x)) /\ Covers(x, TimeoutElapsed(x))
           /\ Expired(x) => TimeoutElapsed(x).owner = "none"
<1>0. x \in Machines /\ x.muk = (x.owner = "local")
  BY DEF Sound
<1>1. CASE x.owner # "local"
  BY <1>1 DEF TimeoutElapsed, Good, Timed, Counts, Covers, Expired
<1>2. CASE x.owner = "local" /\ Expired(x)
  BY <1>0, <1>2, LockGood DEF TimeoutElapsed
<1>3. CASE x.owner = "local" /\ ~Expired(x)
  BY <1>3, OwnershipGood DEF TimeoutElapsed
<1> QED  BY <1>1, <1>2, <1>3

\* A new timeout setting is re-armed for; the timers of the old cell may be
\* spent or stale as long as a locked one has none.
LEMMA SettingSound ==
    ASSUME NEW x, Sound(x), x.owner # "local" => x.timer = Off, NEW t \in Settings
    PROVE  /\ Sound(TimeoutSettingChanged(x, t))
           /\ Covers(x, TimeoutSettingChanged(x, t))
           /\ TimeoutSettingChanged(x, t).owner # "local"
                 => TimeoutSettingChanged(x, t).timer = Off
           /\ Timed(x) => Timed(TimeoutSettingChanged(x, t))
<1> DEFINE y == [x EXCEPT !.setting = t]
<1>0. x \in Machines
  BY DEF Sound
<1>1. t \in {Never} \cup (1..MaxIdle)
  BY SessionAssumption
<1>2. /\ y \in Machines /\ y.owner = x.owner /\ y.muk = x.muk
      /\ y.connected = x.connected /\ y.locked = x.locked
      /\ y.timer = x.timer /\ y.clearing = x.clearing
  BY <1>0, <1>1 DEF Machines
<1>3. TimeoutSettingChanged(x, t) = IF t = x.setting THEN x
                                    ELSE OwnershipEffects(y)
  BY DEF TimeoutSettingChanged
<1> HIDE DEF y
<1>4. CASE t = x.setting
  BY <1>3, <1>4 DEF Covers
<1>5. CASE t # x.setting
  <2>1. Sound(y) /\ (y.owner = "none" => y.timer = Off)
    BY <1>2 DEF Sound
  <2>2. Good(OwnershipEffects(y)) /\ Covers(y, OwnershipEffects(y))
    BY <2>1, OwnershipGood
  <2>3. OwnershipEffects(y).owner # "local" => OwnershipEffects(y).timer = Off
    BY <2>2 DEF Good, Timed, Counts
  <2> QED  BY <1>2, <1>3, <1>5, <2>2, <2>3 DEF Good, Covers
<1> QED  BY <1>4, <1>5

LEMMA SettingGood ==
    ASSUME NEW x, Good(x), NEW t \in Settings
    PROVE  /\ Good(TimeoutSettingChanged(x, t))
           /\ Covers(x, TimeoutSettingChanged(x, t))
<1>1. x.owner # "local" => x.timer = Off
  BY DEF Good, Timed, Counts
<1> QED  BY <1>1, SettingSound DEF Good

\* Locking a good cell.
LEMMA LockOfGood ==
    ASSUME NEW x, Good(x)
    PROVE  Good(LockTransition(x)) /\ Covers(x, LockTransition(x))
           /\ LockTransition(x).owner = "none"
<1>1. x \in Machines /\ x.muk = (x.owner = "local")
      /\ (x.owner = "none" => x.timer = Off)
  BY DEF Good, Sound, Timed, Counts
<1>2. x.owner = "none" => ~x.muk /\ x.timer = Off
  BY <1>1
<1> QED  BY <1>1, <1>2, LockGood

LEMMA RequestGood ==
    ASSUME NEW x, Good(x), NEW source
    PROVE  Good(LockRequested(x, source)) /\ Covers(x, LockRequested(x, source))
BY LockOfGood DEF LockRequested, Covers

LEMMA RevokedGood ==
    ASSUME NEW x, Good(x), NEW id \in Sessions \cup {NoId}
    PROVE  Good(SessionRevoked(x, id)) /\ Covers(x, SessionRevoked(x, id))
<1> DEFINE z == LockTransition(x)
           y == [z EXCEPT !.revoked = id]
<1>1. Good(z) /\ Covers(x, z)
  BY LockOfGood
<1>2. SessionRevoked(x, id) = IF id # NoId /\ id = x.revoked THEN x ELSE y
  BY DEF SessionRevoked
<1> HIDE DEF z
<1>3. z \in Machines
  BY <1>1 DEF Good, Sound
<1>4. /\ y \in Machines /\ y.owner = z.owner /\ y.muk = z.muk
      /\ y.connected = z.connected /\ y.locked = z.locked
      /\ y.timer = z.timer /\ y.alarm = z.alarm /\ y.clearing = z.clearing
      /\ y.idle = z.idle /\ y.setting = z.setting /\ y.dtimeout = z.dtimeout
  BY <1>3 DEF Machines
<1> HIDE DEF y
<1>5. Sound(y)
  BY <1>1, <1>4 DEF Good, Sound
<1>6. Timed(y) /\ Covers(x, y)
  BY <1>1, <1>4 DEF Good, Timed, Counts, Delay, Timeout, Covers
<1> QED  BY <1>2, <1>5, <1>6 DEF Good, Covers

\* Taking over from an unlocked desktop.
LEMMA HandOverGood ==
    ASSUME NEW x, Good(x), NEW st
    PROVE  Good(HandOver(x, st)) /\ Covers(x, HandOver(x, st))
BY UnlockPushedGood DEF HandOver, Covers

LEMMA ObservedHandOver ==
    ASSUME NEW x, Good(x), NEW st \in Statuses
    PROVE  /\ Good(HandOver(DesktopObserved(x, st), st))
           /\ Covers(x, HandOver(DesktopObserved(x, st), st))
<1> DEFINE s == DesktopObserved(x, st)
<1>1. Good(s) /\ Covers(x, s)
  BY ObservedGood
<1> HIDE DEF s
<1>2. Good(HandOver(s, st)) /\ Covers(s, HandOver(s, st))
  BY <1>1, HandOverGood
<1> QED  BY <1>1, <1>2 DEF Covers, s

\* A read re-evaluates the desktop and the deadline (getSnapshot).
LEMMA EvaluatedGood ==
    ASSUME Good(m), cached \in Statuses
    PROVE  Good(Evaluated(m)) /\ Covers(m, Evaluated(m))
<1> DEFINE s == DesktopObserved(m, cached)
<1>1. /\ Good(s) /\ Covers(m, s)
      /\ s.connected = Connected(cached) /\ s.locked = Locked(cached)
  BY ObservedGood
<1>2. Evaluated(m) = IF Expired(s) THEN TimeoutElapsed(s) ELSE s
  BY DEF Evaluated
<1> HIDE DEF s
<1>3. Sound(s) /\ (s.owner # "local" => s.timer = Off)
  BY <1>1 DEF Good, Timed, Counts
<1>4. CASE Expired(s)
  <2>1. /\ Good(TimeoutElapsed(s)) /\ Covers(s, TimeoutElapsed(s))
        /\ TimeoutElapsed(s).owner = "none"
    BY <1>3, <1>4, ElapsedGood
  <2> QED  BY <1>1, <1>2, <1>4, <2>1 DEF Covers
<1>5. CASE ~Expired(s)
  BY <1>1, <1>2, <1>5
<1> QED  BY <1>4, <1>5

-----------------------------------------------------------------------------
(* The inductive invariant.                                                *)

\* The types of everything but the state cell.
RestOK ==
    /\ keys \in BOOLEAN /\ stored \in BOOLEAN /\ stray \in BOOLEAN
    /\ ending \in BOOLEAN
    /\ desk \in Statuses /\ cached \in Statuses
    /\ subscribed \in BOOLEAN /\ wasLocked \in BOOLEAN
    /\ pushes \in Seq({"lock", "unlock", "empty", "close"})
    /\ Len(pushes) <= MaxPushes
    /\ check \in [Callers -> {"idle", "asked"} \cup Statuses]
    /\ boot \in {"cold", "first", "second", "done"}
    /\ ui \in {"idle", "checking", "deriving", "restoring", "storing", "recovering",
               "leaving"}
    /\ faults \in 0..MaxFaults

\* Keys in memory while locked are on their way out, or accounted for.
Accounted ==
    m.owner = "none" /\ keys => m.clearing > 0 \/ ending \/ ui = "storing" \/ stray

\* Before its startup routine a worker knows of no desktop and runs no handler.
ColdStart ==
    boot = "cold" => ~m.connected /\ ~subscribed /\ pushes = <<>> /\ ui = "idle"

IInv == RestOK /\ Good(m) /\ Accounted /\ ColdStart

LEMMA InitialGood ==
    ASSUME NEW t \in Settings, NEW a \in Delays
    PROVE  Good(InitialMachine(t, a)) /\ ~InitialMachine(t, a).connected
<1> DEFINE y == InitialMachine(t, a)
<1>0. /\ t \in {Never} \cup (1..MaxIdle) /\ 0 \in 0..MaxIdle
      /\ 0 \in 0..MaxClears /\ Off \in Delays
  BY SessionAssumption DEF Delays
<1>1. y \in Machines
  BY <1>0 DEF InitialMachine, Machines, Owners
<1>2. /\ y.owner = "none" /\ y.muk = FALSE /\ y.connected = FALSE
      /\ y.timer = Off
  BY DEF InitialMachine
<1> HIDE DEF y
<1>3. Sound(y)
  BY <1>1, <1>2 DEF Sound
<1>4. Timed(y)
  BY <1>2 DEF Timed, Counts
<1> QED  BY <1>2, <1>3, <1>4 DEF y, Good

\* The initial states satisfy the invariant.
LEMMA InitInv == Init => IInv
<1> SUFFICES ASSUME Init PROVE IInv
  OBVIOUS
<1>1. PICK t \in Settings : m = InitialMachine(t, Off)
  BY DEF Init
<1>2. Off \in Delays
  BY DEF Delays
<1>3. Good(m) /\ ~m.connected
  BY <1>1, <1>2, InitialGood
<1>4. pushes \in Seq({"lock", "unlock", "empty", "close"}) /\ Len(pushes) = 0
  BY DEF Init
<1>5. check \in [Callers -> {"idle", "asked"} \cup Statuses]
  BY DEF Init
<1>6. RestOK
  <2>1. faults \in 0..MaxFaults /\ Len(pushes) <= MaxPushes
    BY <1>4, SessionAssumption DEF Init
  <2> QED  BY <1>4, <1>5, <2>1 DEF Init, RestOK, Statuses
<1>7. Accounted /\ ColdStart
  BY <1>3 DEF Init, Accounted, ColdStart
<1> QED  BY <1>3, <1>6, <1>7 DEF IInv

\* A step that only moves the cell along keeps the keys accounted for.
LEMMA Accounting ==
    ASSUME IInv, Good(m'), Covers(m, m'), keys' = keys, stray' = stray,
           ending => ending', ui = "storing" => ui' = "storing"
    PROVE  Accounted'
<1>1. m'.clearing \in Nat /\ m.clearing \in Nat
  BY SessionAssumption DEF IInv, Good, Sound, Machines
<1> QED  BY <1>1 DEF IInv, Accounted, Covers

\* Unlocking a cell next to no locked desktop unlocks it, and so does starting
\* up with a session to restore.
LEMMA RestoreUnlocks ==
    ASSUME NEW x, Good(x), ~x.connected, NEW t \in Settings
    PROVE  TimeoutSettingChanged(StartupRestored(x, TRUE), t).owner # "none"
<1>1. ASSUME NEW z \in Machines
      PROVE  OwnershipEffects(z).owner = z.owner
  BY <1>1 DEF OwnershipEffects, Armed, Machines
<1> DEFINE r == StartupRestored(x, TRUE)
<1>2. Good(r)
  BY StartupGood
<1>3. x \in Machines /\ r \in Machines
  BY <1>2 DEF Good, Sound
<1>4. r.owner # "none"
  <2>1. CASE x.owner # "none"
    BY <2>1 DEF StartupRestored
  <2>2. CASE x.owner = "none"
    <3> DEFINE y == [x EXCEPT !.owner = "local", !.muk = TRUE, !.idle = 0]
    <3>1. r = OwnershipEffects(y)
      BY <2>2 DEF StartupRestored, UnlockLocally
    <3>2. 0 \in 0..MaxIdle
      BY SessionAssumption
    <3>3. y \in Machines /\ y.owner = "local"
      BY <1>3, <3>2 DEF Machines, Owners
    <3> HIDE DEF y
    <3> QED  BY <1>1, <3>1, <3>3
  <2> QED  BY <2>1, <2>2
<1> HIDE DEF r
<1>5. t \in {Never} \cup (1..MaxIdle)
  BY SessionAssumption
<1> DEFINE y == [r EXCEPT !.setting = t]
<1>6. y \in Machines /\ y.owner = r.owner
  BY <1>3, <1>5 DEF Machines
<1>7. TimeoutSettingChanged(r, t) = IF t = r.setting THEN r ELSE OwnershipEffects(y)
  BY DEF TimeoutSettingChanged
<1> HIDE DEF y
<1> QED  BY <1>1, <1>4, <1>6, <1>7 DEF r

\* A spent timer or alarm leaves the cell sound.
LEMMA SpentSound ==
    ASSUME Good(m), NEW x,
           \/ x = [m EXCEPT !.timer = Off]
           \/ x = [m EXCEPT !.alarm = Off]
    PROVE  /\ Sound(x) /\ Covers(m, x)
           /\ x.owner # "local" => x.timer = Off
<1>1. m \in Machines /\ Sound(m) /\ (m.owner # "local" => m.timer = Off)
  BY DEF Good, Sound, Timed, Counts
<1>2. x \in Machines
  BY <1>1 DEF Machines, Delays
<1>3. /\ x.owner = m.owner /\ x.muk = m.muk /\ x.connected = m.connected
      /\ x.locked = m.locked /\ x.clearing = m.clearing
      /\ x.timer = m.timer \/ x.timer = Off
  BY <1>1 DEF Machines
<1> QED  BY <1>1, <1>2, <1>3 DEF Sound, Covers

\* Time passes for the timers and for the idle session alike.
LEMMA TickGood ==
    ASSUME Good(m), Tick
    PROVE  Good(m') /\ Covers(m, m') /\ m'.connected = m.connected
<1> DEFINE i == IF m.owner = "local" /\ m.idle < MaxIdle THEN m.idle + 1 ELSE m.idle
<1>1. m \in Machines /\ Sound(m)
  BY DEF Good, Sound
<1>2. m' = [m EXCEPT !.timer = Sooner(m.timer), !.alarm = Sooner(m.alarm),
                     !.idle = i]
  BY <1>1 DEF Tick, Machines
<1>3. Sooner(m.timer) \in Delays /\ Sooner(m.alarm) \in Delays
  BY <1>1, SessionAssumption DEF Sooner, Delays, Machines, Off
<1>4. i \in 0..MaxIdle
  BY <1>1, SessionAssumption DEF Machines
<1>5. m' \in Machines
  BY <1>1, <1>2, <1>3, <1>4 DEF Machines
<1>6. /\ m'.owner = m.owner /\ m'.muk = m.muk /\ m'.connected = m.connected
      /\ m'.locked = m.locked /\ m'.dtimeout = m.dtimeout
      /\ m'.setting = m.setting /\ m'.clearing = m.clearing /\ m'.idle = i
      /\ m'.timer = Sooner(m.timer) /\ m'.alarm = Sooner(m.alarm)
  BY <1>1, <1>2 DEF Machines
<1>7. Sound(m') /\ Covers(m, m')
  BY <1>1, <1>5, <1>6 DEF Sound, Covers
<1>8. Counts(m') = Counts(m) /\ Timeout(m') = Timeout(m)
  BY <1>6 DEF Counts, Timeout
<1>9. CASE Counts(m)
  <2>1. Timeout(m) \in 1..MaxIdle
    BY <1>1, <1>9, DelayType
  <2>2. m.idle \in 0..MaxIdle /\ m.owner = "local"
    BY <1>1, <1>9 DEF Machines, Counts
  <2>3. m.timer \in 0..Delay(m) /\ m.alarm \in 0..Delay(m)
    BY <1>9 DEF Good, Timed
  <2>4. i = IF m.idle < MaxIdle THEN m.idle + 1 ELSE m.idle
    BY <2>2
  <2>5. ASSUME NEW d \in 0..Delay(m)
        PROVE  Sooner(d) \in 0..Delay(m')
    BY <1>6, <1>8, <2>1, <2>2, <2>4, SessionAssumption DEF Sooner, Delay
  <2>6. m'.timer \in 0..Delay(m') /\ m'.alarm \in 0..Delay(m')
    BY <1>6, <2>3, <2>5
  <2>7. Timed(m')
    BY <1>8, <1>9, <2>6 DEF Timed
  <2> QED  BY <1>6, <1>7, <2>7 DEF Good
<1>10. CASE ~Counts(m)
  <2>1. m.timer = Off
    BY <1>10 DEF Good, Timed
  <2>2. m'.timer = Off
    BY <1>6, <2>1 DEF Sooner, Off
  <2> QED  BY <1>6, <1>7, <1>8, <1>10, <2>2 DEF Good, Timed
<1> QED  BY <1>6, <1>7, <1>9, <1>10

\* One key destruction less.
LEMMA ClearedGood ==
    ASSUME Good(m), m.clearing > 0, m' = [m EXCEPT !.clearing = @ - 1]
    PROVE  Good(m') /\ m'.connected = m.connected /\ m'.owner = m.owner
<1>1. m \in Machines /\ Sound(m) /\ Timed(m)
  BY DEF Good, Sound
<1>2. m.clearing - 1 \in 0..MaxClears
  BY <1>1, SessionAssumption DEF Machines
<1>3. m' \in Machines
  BY <1>1, <1>2 DEF Machines
<1>4. /\ m'.owner = m.owner /\ m'.muk = m.muk /\ m'.connected = m.connected
      /\ m'.locked = m.locked /\ m'.dtimeout = m.dtimeout
      /\ m'.setting = m.setting /\ m'.idle = m.idle
      /\ m'.timer = m.timer /\ m'.alarm = m.alarm
  BY <1>1 DEF Machines
<1>5. Sound(m')
  BY <1>1, <1>3, <1>4 DEF Sound
<1>6. Timed(m')
  BY <1>1, <1>4 DEF Timed, Counts, Delay, Timeout
<1> QED  BY <1>4, <1>5, <1>6 DEF Good

\* Neither a timer nor a new setting changes what is known of the desktop.
LEMMA SameDesktop ==
    ASSUME NEW x \in Machines, NEW t \in Settings
    PROVE  /\ TimeoutElapsed(x).connected = x.connected
           /\ TimeoutSettingChanged(x, t).connected = x.connected
<1>1. ASSUME NEW z \in Machines
      PROVE  /\ OwnershipEffects(z).connected = z.connected
             /\ LockTransition(z).connected = z.connected
  BY <1>1 DEF OwnershipEffects, LockTransition, Armed, Machines
<1>2. t \in {Never} \cup (1..MaxIdle)
  BY SessionAssumption
<1> DEFINE y == [x EXCEPT !.setting = t]
<1>3. y \in Machines /\ y.connected = x.connected
  BY <1>2 DEF Machines
<1>4. TimeoutSettingChanged(x, t) = IF t = x.setting THEN x ELSE OwnershipEffects(y)
  BY DEF TimeoutSettingChanged
<1> HIDE DEF y
<1> QED  BY <1>1, <1>3, <1>4 DEF TimeoutElapsed

\* Every step of every action preserves the invariant.
LEMMA StepInv ==
    ASSUME IInv, [Next]_vars
    PROVE  IInv'
<1> USE DEF memory, link
<1>0. /\ RestOK /\ Good(m) /\ Accounted /\ ColdStart
      /\ m \in Machines /\ Covers(m, m)
  BY DEF IInv, Good, Sound, Covers
<1>1. ASSUME m' = m, RestOK', ColdStart', keys' = keys, stray' = stray,
             ending' = ending, ui = "storing" => ui' = "storing"
      PROVE  IInv'
  <2>1. Good(m') /\ Covers(m, m')
    BY <1>0, <1>1
  <2> QED  BY <1>1, <2>1, Accounting DEF IInv
<1>2. ASSUME Good(m'), Covers(m, m'), RestOK', ColdStart', keys' = keys,
             stray' = stray, ending => ending', ui = "storing" => ui' = "storing"
      PROVE  IInv'
  BY <1>2, Accounting DEF IInv
<1>3. ASSUME NEW to \in Statuses, NEW e \in {"lock", "unlock", "empty", "close"},
             DesktopMoves(to, e)
      PROVE  IInv'
  <2>1. pushes' \in Seq({"lock", "unlock", "empty", "close"})
        /\ Len(pushes') <= MaxPushes
    BY <1>0, <1>3, SessionAssumption DEF DesktopMoves, RestOK
  <2>2. RestOK'
    BY <1>0, <1>3, <2>1 DEF DesktopMoves, RestOK
  <2>3. ColdStart'
    BY <1>0, <1>3 DEF DesktopMoves, ColdStart
  <2> QED  BY <1>1, <1>3, <2>2, <2>3 DEF DesktopMoves
<1>4. CASE DesktopLocks \/ DesktopUnlocks \/ DesktopQuits
  BY <1>3, <1>4 DEF DesktopLocks, DesktopUnlocks, DesktopQuits, Statuses
<1>5. CASE DesktopStarts
  <2>1. RestOK' /\ ColdStart'
    BY <1>0, <1>5 DEF DesktopStarts, RestOK, ColdStart, Statuses
  <2> QED  BY <1>1, <1>5, <2>1 DEF DesktopStarts
<1>6. CASE PushLost
  <2>1. pushes' \in Seq({"lock", "unlock", "empty", "close"})
        /\ Len(pushes') <= MaxPushes
    BY <1>0, <1>6, SessionAssumption DEF PushLost, RestOK
  <2>2. faults' \in 0..MaxFaults
    BY <1>0, <1>6, SessionAssumption DEF PushLost, Spend, RestOK
  <2>3. RestOK'
    BY <1>0, <1>6, <2>1, <2>2 DEF PushLost, RestOK
  <2>4. ColdStart'
    BY <1>0, <1>6 DEF PushLost, ColdStart
  <2> QED  BY <1>1, <1>6, <2>3, <2>4 DEF PushLost
<1>7. CASE PushArrives
  <2> DEFINE event == Head(pushes)
  <2>1. pushes' \in Seq({"lock", "unlock", "empty", "close"})
        /\ Len(pushes') <= MaxPushes
    BY <1>0, <1>7, SessionAssumption DEF PushArrives, RestOK
  <2>2. RestOK'
    BY <1>0, <1>7, <2>1 DEF PushArrives, RestOK, Statuses
  <2>3. ColdStart'
    BY <1>0, <1>7 DEF PushArrives, ColdStart
  <2>4. \/ m' = DesktopLockPushed(m) \/ m' = DesktopUnlockPushed(m)
        \/ m' = DesktopClosed(m) \/ m' = m
    BY <1>7 DEF PushArrives
  <2>5. Good(m') /\ Covers(m, m')
    BY <1>0, <2>4, LockPushedGood, UnlockPushedGood, ClosedGood
  <2> QED  BY <1>2, <1>7, <2>2, <2>3, <2>5 DEF PushArrives
<1>8. ASSUME NEW c \in Callers, DesktopAnswers(c)
      PROVE  IInv'
  <2>1. faults' \in 0..MaxFaults
    BY <1>0, <1>8, SessionAssumption DEF DesktopAnswers, Spend, RestOK
  <2>2. check' \in [Callers -> {"idle", "asked"} \cup Statuses]
    BY <1>0, <1>8 DEF DesktopAnswers, RestOK, Statuses
  <2>3. RestOK'
    BY <1>0, <1>8, <2>1, <2>2 DEF DesktopAnswers, RestOK
  <2>4. ColdStart'
    BY <1>0, <1>8 DEF DesktopAnswers, ColdStart
  <2> QED  BY <1>1, <1>8, <2>3, <2>4 DEF DesktopAnswers
<1>9. CASE BootRestores
  <2>1. PICK t \in Settings :
           m' = TimeoutSettingChanged(StartupRestored(m, stored), t)
    BY <1>9 DEF BootRestores
  <2>2. Good(StartupRestored(m, stored))
    BY <1>0, StartupGood
  <2>3. Good(m')
    BY <2>1, <2>2, SettingGood
  <2>4. RestOK' /\ ColdStart'
    BY <1>0, <1>9 DEF BootRestores, RestOK, ColdStart, Callers
  <2>5. ~m.connected
    BY <1>0, <1>9 DEF BootRestores, ColdStart
  <2>6. stored = TRUE => m'.owner # "none"
    BY <1>0, <2>1, <2>5, RestoreUnlocks
  <2>7. keys' = stored /\ stored \in BOOLEAN
    BY <1>0, <1>9 DEF BootRestores, RestOK
  <2>8. Accounted'
    BY <2>6, <2>7 DEF Accounted
  <2> QED  BY <2>3, <2>4, <2>8 DEF IInv
<1>10. CASE BootFirst
  <2>1. Good(m') /\ Covers(m, m')
    BY <1>0, <1>10, ObservedHandOver DEF BootFirst
  <2>2. RestOK' /\ ColdStart'
    BY <1>0, <1>10 DEF BootFirst, RestOK, ColdStart, Callers
  <2> QED  BY <1>2, <1>10, <2>1, <2>2 DEF BootFirst
<1>11. ASSUME NEW r \in BOOLEAN, BootSecond(r)
       PROVE  IInv'
  <2> DEFINE st   == check["poll"]
             seen == DesktopObserved(m, st)
  <2>1. st \in Statuses
    BY <1>11 DEF BootSecond
  <2>2. Good(seen) /\ Covers(m, seen)
    BY <1>0, <2>1, ObservedGood
  <2>3. /\ Good(DesktopUnlockPushed(seen))
        /\ Covers(seen, DesktopUnlockPushed(seen))
    BY <2>2, UnlockPushedGood
  <2>4. Good(HandOver(seen, st)) /\ Covers(m, HandOver(seen, st))
    BY <1>0, <2>1, ObservedHandOver
  <2>5. m' = DesktopUnlockPushed(seen) \/ m' = seen \/ m' = HandOver(seen, st)
    BY <1>11 DEF BootSecond
  <2> HIDE DEF seen
  <2>6. Good(m') /\ Covers(m, m')
    BY <2>2, <2>3, <2>4, <2>5 DEF Covers
  <2>7. subscribed' \in BOOLEAN
    BY <1>11 DEF BootSecond, Available
  <2>8. RestOK' /\ ColdStart'
    BY <1>0, <1>11, <2>1, <2>7 DEF BootSecond, RestOK, ColdStart, Callers
  <2> QED  BY <1>2, <1>11, <2>6, <2>8 DEF BootSecond
<1>12. CASE PollAsks
  <2>1. wasLocked' \in BOOLEAN
    BY <1>12 DEF PollAsks, Connected, Locked
  <2>2. RestOK' /\ ColdStart'
    BY <1>0, <1>12, <2>1 DEF PollAsks, Ready, RestOK, ColdStart, Callers
  <2> QED  BY <1>1, <1>12, <2>2 DEF PollAsks
<1>13. CASE PollAnswered
  <2>1. Good(m') /\ Covers(m, m')
    BY <1>0, <1>13, ObservedGood, ObservedHandOver DEF PollAnswered
  <2>2. RestOK' /\ ColdStart'
    BY <1>0, <1>13 DEF PollAnswered, Ready, RestOK, ColdStart, Callers
  <2> QED  BY <1>2, <1>13, <2>1, <2>2 DEF PollAnswered
<1>14. CASE Read \/ PopupLocks \/ Activity
  <2>1. Good(Evaluated(m)) /\ Covers(m, Evaluated(m))
    BY <1>0, EvaluatedGood DEF RestOK
  <2>2. ASSUME NEW t \in Settings
        PROVE  /\ Good(ActivitySeen(TimeoutSettingChanged(m, t)))
               /\ Covers(m, ActivitySeen(TimeoutSettingChanged(m, t)))
    <3> DEFINE s == TimeoutSettingChanged(m, t)
    <3>1. Good(s) /\ Covers(m, s)
      BY <1>0, SettingGood
    <3> HIDE DEF s
    <3>2. Good(ActivitySeen(s)) /\ Covers(s, ActivitySeen(s))
      BY <3>1, ActivityGood
    <3> QED  BY <3>1, <3>2 DEF Covers, s
  <2>3. Good(m') /\ Covers(m, m')
    BY <1>0, <1>14, <2>1, <2>2, RequestGood DEF Read, PopupLocks, Activity
  <2>4. RestOK' /\ ColdStart'
    BY <1>0, <1>14 DEF Read, PopupLocks, Activity, Ready, RestOK, ColdStart
  <2> QED  BY <1>2, <1>14, <2>3, <2>4 DEF Read, PopupLocks, Activity
<1>15. CASE Recover
  <2> DEFINE x == Evaluated(m)
  <2>1. Good(x) /\ Covers(m, x)
    BY <1>0, EvaluatedGood DEF RestOK
  <2>2. m' = x \/ m' = DesktopUnlockPushed(x)
    BY <1>15 DEF Recover
  <2> HIDE DEF x
  <2>3. Good(DesktopUnlockPushed(x)) /\ Covers(x, DesktopUnlockPushed(x))
    BY <2>1, UnlockPushedGood
  <2>4. Good(m') /\ Covers(m, m')
    BY <2>1, <2>2, <2>3 DEF Covers
  <2>5. RestOK' /\ ColdStart'
    BY <1>0, <1>15 DEF Recover, Ready, RestOK, ColdStart, Callers
  <2> QED  BY <1>2, <1>15, <2>4, <2>5 DEF Recover
<1>16. CASE RecoverAnswered
  <2>1. Good(m') /\ Covers(m, m')
    BY <1>0, <1>16, ObservedHandOver DEF RecoverAnswered
  <2>2. RestOK' /\ ColdStart'
    BY <1>0, <1>16 DEF RecoverAnswered, RestOK, ColdStart, Callers
  <2> QED  BY <1>2, <1>16, <2>1, <2>2 DEF RecoverAnswered
<1>17. CASE QuickUnlock \/ SignIn
  <2>1. RestOK' /\ ColdStart'
    BY <1>0, <1>17 DEF QuickUnlock, SignIn, Ready, RestOK, ColdStart, Callers
  <2> QED  BY <1>1, <1>17, <2>1 DEF QuickUnlock, SignIn
<1>18. CASE UnlockChecked
  <2>1. Good(m') /\ Covers(m, m')
    BY <1>0, <1>18, ObservedGood DEF UnlockChecked
  <2>2. RestOK' /\ ColdStart'
    BY <1>0, <1>18 DEF UnlockChecked, RestOK, ColdStart, Callers
  <2> QED  BY <1>2, <1>18, <2>1, <2>2 DEF UnlockChecked
<1>19. CASE UnlockStores \/ CheckAuthRestores
  <2>1. RestOK' /\ ColdStart'
    BY <1>0, <1>19 DEF UnlockStores, CheckAuthRestores, RestOK, ColdStart
  <2>2. Accounted'
    BY <1>0, <1>19 DEF UnlockStores, CheckAuthRestores, Accounted, RestOK
  <2>3. Good(m')
    BY <1>0, <1>19 DEF UnlockStores, CheckAuthRestores
  <2> QED  BY <2>1, <2>2, <2>3 DEF IInv
<1>20. CASE CheckAuth
  <2>1. Good(m') /\ Covers(m, m')
    BY <1>0, <1>20, EvaluatedGood DEF CheckAuth, RestOK
  <2>2. RestOK' /\ ColdStart'
    BY <1>0, <1>20 DEF CheckAuth, Ready, RestOK, ColdStart
  <2> QED  BY <1>2, <1>20, <2>1, <2>2 DEF CheckAuth
<1>21. CASE UnlockInstalls
  <2>1. Good(m')
    BY <1>0, <1>21, UnlockGood DEF UnlockInstalls
  <2>2. stray' \in BOOLEAN
    BY <1>0, <1>21 DEF UnlockInstalls, RestOK
  <2>3. RestOK' /\ ColdStart'
    BY <1>0, <1>21, <2>2 DEF UnlockInstalls, RestOK, ColdStart
  <2>4. Accounted'
    BY <1>21 DEF UnlockInstalls, Accounted
  <2> QED  BY <2>1, <2>3, <2>4 DEF IInv
<1>22. CASE UnlockFails
  <2>1. faults' \in 0..MaxFaults
    BY <1>0, <1>22, SessionAssumption DEF UnlockFails, Spend, RestOK
  <2>2. stray' \in BOOLEAN
    BY <1>0, <1>22 DEF UnlockFails, RestOK
  <2>3. RestOK' /\ ColdStart'
    BY <1>0, <1>22, <2>1, <2>2 DEF UnlockFails, RestOK, ColdStart
  <2>4. Accounted' /\ Good(m')
    BY <1>0, <1>22 DEF UnlockFails, Accounted
  <2> QED  BY <2>3, <2>4 DEF IInv
<1>23. CASE LogsOut
  <2>1. RestOK' /\ ColdStart'
    BY <1>0, <1>23 DEF LogsOut, Ready, RestOK, ColdStart
  <2>2. Accounted' /\ Good(m')
    BY <1>0, <1>23 DEF LogsOut, Accounted
  <2> QED  BY <2>1, <2>2 DEF IInv
<1>24. CASE LogoutLocks
  <2>1. Good(m') /\ Covers(m, m')
    BY <1>0, <1>24, RequestGood DEF LogoutLocks
  <2>2. RestOK' /\ ColdStart'
    BY <1>0, <1>24 DEF LogoutLocks, RestOK, ColdStart
  <2> QED  BY <1>2, <1>24, <2>1, <2>2 DEF LogoutLocks
<1>25. ASSUME NEW id \in Sessions \cup {NoId}, RevocationArrives(id)
       PROVE  IInv'
  <2>1. Good(m') /\ Covers(m, m')
    BY <1>0, <1>25, RevokedGood DEF RevocationArrives
  <2>2. ending' \in BOOLEAN /\ (ending => ending')
    BY <1>0, <1>25 DEF RevocationArrives, RestOK
  <2>3. RestOK' /\ ColdStart'
    BY <1>0, <1>25, <2>2 DEF RevocationArrives, Ready, RestOK, ColdStart
  <2> QED  BY <1>2, <1>25, <2>1, <2>2, <2>3 DEF RevocationArrives
<1>26. CASE InvalidationEnds
  <2>1. RestOK' /\ ColdStart'
    BY <1>0, <1>26 DEF InvalidationEnds, RestOK, ColdStart
  <2>2. Accounted' /\ Good(m')
    BY <1>0, <1>26 DEF InvalidationEnds, Accounted
  <2> QED  BY <2>1, <2>2 DEF IInv
<1>27. CASE TimerFires
  <2> DEFINE x == [m EXCEPT !.timer = Off]
  <2>1. /\ Sound(x) /\ Covers(m, x) /\ (x.owner # "local" => x.timer = Off)
    BY <1>0, SpentSound
  <2>2. m' = TimeoutElapsed(x)
    BY <1>27 DEF TimerFires
  <2>3. x.connected = m.connected
    BY <1>0 DEF Machines
  <2> HIDE DEF x
  <2>4. Good(m') /\ Covers(m, m')
    BY <2>1, <2>2, ElapsedGood DEF Covers
  <2>5. PICK t \in Settings : TRUE
    BY SessionAssumption
  <2>6. m'.connected = m.connected
    BY <2>1, <2>2, <2>3, <2>5, SameDesktop DEF Sound
  <2>7. RestOK' /\ ColdStart'
    BY <1>0, <1>27, <2>6 DEF TimerFires, RestOK, ColdStart
  <2> QED  BY <1>2, <1>27, <2>4, <2>7 DEF TimerFires
<1>28. CASE AlarmFires
  <2> DEFINE x == [m EXCEPT !.alarm = Off]
  <2>1. /\ Sound(x) /\ Covers(m, x) /\ (x.owner # "local" => x.timer = Off)
    BY <1>0, SpentSound
  <2>2. PICK t \in Settings : m' = TimeoutElapsed(TimeoutSettingChanged(x, t))
    BY <1>28 DEF AlarmFires
  <2>3. x.connected = m.connected
    BY <1>0 DEF Machines
  <2> DEFINE y == TimeoutSettingChanged(x, t)
  <2> HIDE DEF x
  <2>4. Sound(y) /\ Covers(x, y) /\ (y.owner # "local" => y.timer = Off)
    BY <2>1, SettingSound
  <2>5. y.connected = x.connected
    BY <2>1, SameDesktop DEF Sound
  <2> HIDE DEF y
  <2>6. Good(TimeoutElapsed(y)) /\ Covers(y, TimeoutElapsed(y))
    BY <2>4, ElapsedGood
  <2>7. TimeoutElapsed(y).connected = y.connected
    BY <2>4, SameDesktop DEF Sound
  <2>8. m' = TimeoutElapsed(y)
    BY <2>2 DEF y
  <2>9. Good(m') /\ Covers(m, m') /\ m'.connected = m.connected
    BY <2>1, <2>3, <2>4, <2>5, <2>6, <2>7, <2>8 DEF Covers
  <2>10. RestOK' /\ ColdStart'
    BY <1>0, <1>28, <2>9 DEF AlarmFires, RestOK, ColdStart
  <2> QED  BY <1>2, <1>28, <2>9, <2>10 DEF AlarmFires
<1>29. CASE Tick
  <2>1. Good(m') /\ Covers(m, m') /\ m'.connected = m.connected
    BY <1>0, <1>29, TickGood
  <2>2. RestOK' /\ ColdStart'
    BY <1>0, <1>29, <2>1 DEF Tick, RestOK, ColdStart
  <2> QED  BY <1>2, <1>29, <2>1, <2>2 DEF Tick
<1>30. CASE ClearEnds
  <2>1. Good(m') /\ m'.connected = m.connected
    BY <1>0, <1>30, ClearedGood DEF ClearEnds
  <2>2. faults' \in 0..MaxFaults
    BY <1>0, <1>30, SessionAssumption DEF ClearEnds, Spend, RestOK
  <2>3. stray' \in BOOLEAN /\ keys' \in BOOLEAN
    BY <1>0, <1>30 DEF ClearEnds, RestOK
  <2>4. RestOK' /\ ColdStart'
    BY <1>0, <1>30, <2>1, <2>2, <2>3 DEF ClearEnds, RestOK, ColdStart
  <2>5. Accounted'
    BY <1>0, <1>30 DEF ClearEnds, Accounted, RestOK
  <2> QED  BY <2>1, <2>4, <2>5 DEF IInv
<1>31. CASE Recycle
  <2>1. PICK t \in Settings : m' = InitialMachine(t, m.alarm)
    BY <1>31 DEF Recycle
  <2>2. m.alarm \in Delays
    BY <1>0 DEF Machines
  <2>3. Good(m') /\ ~m'.connected
    BY <2>1, <2>2, InitialGood
  <2>4. faults' \in 0..MaxFaults
    BY <1>0, <1>31, SessionAssumption DEF Recycle, Spend, RestOK
  <2>5. check' \in [Callers -> {"idle", "asked"} \cup Statuses]
    BY <1>31 DEF Recycle
  <2>6. pushes' \in Seq({"lock", "unlock", "empty", "close"})
        /\ Len(pushes') <= MaxPushes
    BY <1>31, SessionAssumption DEF Recycle
  <2>7. RestOK'
    BY <1>0, <1>31, <2>4, <2>5, <2>6 DEF Recycle, RestOK, Statuses
  <2>8. Accounted' /\ ColdStart'
    BY <1>31, <2>3 DEF Recycle, Accounted, ColdStart
  <2> QED  BY <2>3, <2>7, <2>8 DEF IInv
<1>32. CASE UNCHANGED vars
  BY <1>0, <1>32 DEF vars, IInv, RestOK, Accounted, ColdStart
<1> QED
  BY <1>4, <1>5, <1>6, <1>7, <1>8, <1>9, <1>10, <1>11, <1>12, <1>13, <1>14,
     <1>15, <1>16, <1>17, <1>18, <1>19, <1>20, <1>21, <1>22, <1>23, <1>24,
     <1>25, <1>26, <1>27, <1>28, <1>29, <1>30, <1>31, <1>32 DEF Next

-----------------------------------------------------------------------------
\* The invariant holds in every reachable state.
THEOREM Invariance == Spec => []IInv
BY InitInv, StepInv, PTL DEF Spec

\* Every reachable state of the vault session is well typed.
THEOREM TypeCorrect == Spec => []TypeOK
<1>1. IInv => TypeOK
  BY DEF IInv, RestOK, Good, Sound, TypeOK
<1> QED  BY <1>1, Invariance, PTL

\* For all timeouts and all orders of polls, pushes, handlers and restarts,
\* nothing is unlocked next to a desktop known to be locked (unlockLocally,
\* lockTransition).
THEOREM DesktopAlwaysOwns == Spec => []DesktopOwns
<1>1. IInv => DesktopOwns
  BY DEF IInv, Good, Sound, DesktopOwns
<1> QED  BY <1>1, Invariance, PTL

\* Keys outlive a lock only where KeysFollow says so (clear_keys, STARTUP_RESTORED).
THEOREM KeysAlwaysFollow == Spec => []KeysFollow
<1>1. IInv => KeysFollow
  BY DEF IInv, Good, Sound, Accounted, KeysFollow
<1> QED  BY <1>1, Invariance, PTL

\* Every session that counts down is armed for its deadline (ownershipEffects).
THEOREM DeadlineAlwaysArmed == Spec => []DeadlineArmed
<1>1. IInv => DeadlineArmed
  BY DEF IInv, Good, Timed, DeadlineArmed
<1> QED  BY <1>1, Invariance, PTL
=============================================================================
