--------------------------- MODULE SysArchProofs ---------------------------
(***************************************************************************)
(* For any number of threads, messages and mailbox slots: the check of the *)
(* core lock is exact (CoreCheckExact) as long as nesting fits its 8-bit   *)
(* counter, no message is lost or owned twice (OneOwner), and a wait is    *)
(* exact whatever the clock's width, tick and wraps (WaitsExact).          *)
(*                                                                         *)
(* Argument.  The first is inductive once it is said how far the two       *)
(* variables lag behind the mutex: by one while the owner is inside a lock *)
(* or unlock call (CoreInv).  The second needs where the message of a      *)
(* request is while its thread goes through post and wait, and that a      *)
(* semaphore given to that thread means the answer is there (MailInv).     *)
(* The third is arithmetic of points that are whole turns of the clock     *)
(* apart (SignedIs): a tick takes as much off the ticks left as it brings  *)
(* sys_now nearer to the goal (WaitInv).                                   *)
(* The last part is about waiting: a caller always has its answer coming   *)
(* (WakeInv), and a timer that is set bounds the fetch (TimerInv).         *)
(***************************************************************************)
EXTENDS SysArch, FiniteSetTheorems, TLAPS

(* lwip_core_lock_count is a u8_t.                                         *)
NestingFits == MaxNest < 256

Calls == {"mark", "out", "enter", "in", "leave", "posting", "posted", "waiting", "sleeping",
          "fetching"}
LockCalls == {"enter", "in", "leave"}

LockType ==
  /\ wired \in BOOLEAN /\ marked \in BOOLEAN
  /\ mutex \in [owner : Threads \union {None}, depth : 0 .. MaxNest]
  /\ holder \in Threads \union {None} /\ count \in 0 .. MaxNest
  /\ pc \in [Threads -> Calls]

(* The lock calls of the owner that have done their bookkeeping.           *)
Booked ==
  IF \E t \in Threads : mutex.owner = t /\ pc[t] \in {"enter", "leave"}
  THEN mutex.depth - 1
  ELSE mutex.depth

CoreInv ==
  /\ mutex.owner = None <=> mutex.depth = 0
  /\ \A t \in Threads : mutex.owner = t <=> pc[t] \in LockCalls
  /\ count = IF wired THEN Booked ELSE 0
  /\ holder = IF count = 0 THEN None ELSE mutex.owner
  /\ marked => wired

LockInv == LockType /\ CoreInv

(* A step outside of the lock calls disturbs nothing of it.                *)
LEMMA Aside ==
  ASSUME LockInv, NEW t \in Threads, pc[t] \notin LockCalls,
         NEW w \in Calls \ LockCalls, pc' = [pc EXCEPT ![t] = w],
         UNCHANGED <<wired, lock>>, marked' \in {marked, wired}
  PROVE  LockInv'
<1> USE DEF LockInv, LockType, lock
<1>1. \A u \in Threads : /\ u # t => pc'[u] = pc[u]
                         /\ pc'[u] \in LockCalls <=> pc[u] \in LockCalls
                         /\ mutex.owner = u => pc'[u] = pc[u]
  BY DEF CoreInv
<1>2. LockType'
  OBVIOUS
<1>3. Booked' = Booked
  BY <1>1 DEF Booked
<1> QED
  BY <1>1, <1>2, <1>3 DEF CoreInv

(* The lock call books one level, the unlock call takes it back.           *)
LEMMA LockCall ==
  ASSUME NestingFits, PortAssumption, LockInv, NEW t \in Threads, sys_lock_tcpip_core(t),
         UNCHANGED <<wired, marked>>
  PROVE  LockInv'
<1> USE DEF LockInv, LockType, PortAssumption, NestingFits
<1>1. None \notin Threads /\ pc[t] \in Calls
  BY DEF Threads
<1>2. CASE pc[t] \in {"out", "in"} /\ sys_mutex_lock(t)
           /\ pc' = [pc EXCEPT ![t] = "enter"] /\ UNCHANGED <<holder, count>>
  <2>1. mutex'.owner = t /\ mutex'.depth = mutex.depth + 1 /\ mutex.depth < MaxNest
    BY <1>2 DEF sys_mutex_lock
  <2>2. pc'[t] = "enter" /\ \A u \in Threads \ {t} : pc'[u] = pc[u] /\ pc[u] \notin LockCalls
    BY <1>1, <1>2 DEF CoreInv, sys_mutex_lock, LockCalls
  <2>3. Booked = mutex.depth /\ Booked' = mutex.depth
    BY <1>1, <1>2, <2>1, <2>2 DEF Booked, sys_mutex_lock, LockCalls
  <2>4. LockType'
    BY <1>2, <2>1 DEF sys_mutex_lock, Calls
  <2> QED
    BY <1>1, <1>2, <2>1, <2>2, <2>3, <2>4 DEF CoreInv, LockCalls, sys_mutex_lock
<1>3. CASE pc[t] = "enter" /\ pc' = [pc EXCEPT ![t] = "in"] /\ UNCHANGED mutex
           /\ IF wired THEN /\ holder' = IF count = 0 THEN t ELSE holder
                            /\ count' = (count + 1) % 256
                       ELSE UNCHANGED <<holder, count>>
  <2>1. mutex.owner = t /\ mutex.depth \in 1 .. MaxNest
    BY <1>1, <1>3 DEF CoreInv, LockCalls
  <2>2. pc'[t] = "in" /\ \A u \in Threads \ {t} : pc'[u] = pc[u]
    BY <1>3
  <2>3. Booked = mutex.depth - 1 /\ Booked' = mutex.depth
    BY <1>3, <2>1, <2>2 DEF Booked
  <2>4. count' = IF wired THEN mutex.depth ELSE 0
    BY <1>3, <2>1, <2>3 DEF CoreInv
  <2>5. holder' = IF count' = 0 THEN None ELSE t
    BY <1>3, <2>1, <2>3, <2>4 DEF CoreInv
  <2>6. LockType'
    BY <1>3, <2>1, <2>4, <2>5 DEF Calls
  <2> QED
    BY <1>3, <2>1, <2>2, <2>3, <2>4, <2>5, <2>6 DEF CoreInv, LockCalls
<1> QED
  BY <1>2, <1>3 DEF sys_lock_tcpip_core

LEMMA UnlockCall ==
  ASSUME NestingFits, PortAssumption, LockInv, NEW t \in Threads, sys_unlock_tcpip_core(t),
         UNCHANGED <<wired, marked>>
  PROVE  LockInv'
<1> USE DEF LockInv, LockType, PortAssumption, NestingFits
<1>1. None \notin Threads /\ pc[t] \in Calls
  BY DEF Threads
<1>2. mutex.owner = t /\ mutex.depth \in 1 .. MaxNest
  BY <1>1 DEF sys_unlock_tcpip_core, CoreInv, LockCalls
<1>3. \A u \in Threads \ {t} : pc'[u] = pc[u] /\ pc[u] \notin LockCalls
  BY <1>2 DEF sys_unlock_tcpip_core, CoreInv
<1>4. CASE pc[t] = "in" /\ pc' = [pc EXCEPT ![t] = "leave"] /\ UNCHANGED mutex
           /\ IF wired THEN /\ count' = (count - 1) % 256
                            /\ holder' = IF count = 1 THEN None ELSE holder
                       ELSE UNCHANGED <<holder, count>>
  <2>1. pc'[t] = "leave"
    BY <1>4
  <2>2. Booked = mutex.depth /\ Booked' = mutex.depth - 1
    BY <1>2, <1>3, <1>4, <2>1 DEF Booked
  <2>3. count' = IF wired THEN mutex.depth - 1 ELSE 0
    BY <1>2, <1>4, <2>2 DEF CoreInv
  <2>4. holder' = IF count' = 0 THEN None ELSE t
    BY <1>2, <1>4, <2>2, <2>3 DEF CoreInv
  <2>5. LockType'
    BY <1>2, <1>4, <2>3, <2>4 DEF Calls
  <2> QED
    BY <1>2, <1>3, <1>4, <2>1, <2>2, <2>3, <2>4, <2>5 DEF CoreInv, LockCalls
<1>5. CASE pc[t] = "leave" /\ sys_mutex_unlock(t) /\ UNCHANGED <<holder, count>>
           /\ pc' = [pc EXCEPT ![t] = IF mutex.depth = 1 THEN "out" ELSE "in"]
  <2>1. /\ mutex'.owner = IF mutex.depth = 1 THEN None ELSE t
        /\ mutex'.depth = mutex.depth - 1
    BY <1>5 DEF sys_mutex_unlock
  <2>2. pc'[t] = IF mutex.depth = 1 THEN "out" ELSE "in"
    BY <1>5
  <2>3. Booked = mutex.depth - 1 /\ Booked' = mutex.depth - 1
    BY <1>1, <1>2, <1>3, <1>5, <2>1, <2>2 DEF Booked
  <2>4. LockType'
    BY <1>2, <1>5, <2>1 DEF sys_mutex_unlock, Calls
  <2> QED
    BY <1>1, <1>2, <1>3, <1>5, <2>1, <2>2, <2>3, <2>4 DEF CoreInv, LockCalls
<1> QED
  BY <1>4, <1>5 DEF sys_unlock_tcpip_core

LEMMA LockInit == PortAssumption /\ Init => LockInv
<1> SUFFICES ASSUME PortAssumption, Init
             PROVE  LockInv
  OBVIOUS
<1>1. /\ mutex.owner = None /\ mutex.depth = 0
      /\ \A t \in Threads : t # None /\ pc[t] \in {"mark", "out"}
      /\ marked = FALSE /\ wired \in BOOLEAN /\ holder = None /\ count = 0
  BY DEF Init, PortAssumption
<1>2. Booked = 0
  BY <1>1 DEF Booked
<1>3. LockType
  <2>1. pc \in [Threads -> Calls]
    BY DEF Init, Calls
  <2>2. mutex \in [owner : Threads \union {None}, depth : 0 .. MaxNest]
    BY DEF Init, PortAssumption
  <2> QED
    BY <1>1, <2>1, <2>2, PortAssumption DEF LockType, PortAssumption
<1> QED
  BY <1>1, <1>2, <1>3 DEF LockInv, CoreInv, LockCalls

LEMMA LockNext == NestingFits /\ PortAssumption /\ LockInv /\ [Next]_vars => LockInv'
<1> SUFFICES ASSUME NestingFits, PortAssumption, LockInv, [Next]_vars
             PROVE  LockInv'
  OBVIOUS
<1>1. Tcpip \in Threads /\ \A t \in Thread : t \in Threads
  BY DEF Threads
<1>2. ASSUME UNCHANGED <<wired, lock, marked, pc>> PROVE LockInv'
  BY <1>2 DEF LockInv, LockType, CoreInv, Booked, lock
<1>3. ASSUME NEW t \in Threads, pc[t] \notin LockCalls, NEW w \in Calls \ LockCalls,
             pc' = [pc EXCEPT ![t] = w], UNCHANGED <<wired, lock, marked>>
      PROVE  LockInv'
  BY <1>3, Aside
<1> USE DEF Calls, LockCalls
<1>4. CASE Tick \/ \E m \in Message : sys_mbox_trypost_fromisr(m)
  BY <1>2, <1>4 DEF Tick, sys_mbox_trypost_fromisr
<1>5. CASE TcpipStep
  <2>1. CASE sys_mark_tcpip_thread
    BY <1>1, <2>1, Aside DEF sys_mark_tcpip_thread
  <2>2. CASE sys_arch_mbox_fetch
    BY <1>1, <1>3, <2>2 DEF sys_arch_mbox_fetch, block
  <2>3. CASE Fetched \/ FetchTimedOut
    BY <1>1, <1>3, <2>3 DEF Fetched, FetchTimedOut, resume
  <2>4. CASE HandleMessage \/ CheckTimeouts \/ DecideSleep
    BY <1>2, <2>4 DEF HandleMessage, CheckTimeouts, DecideSleep
  <2> QED
    BY <1>5, <2>1, <2>2, <2>3, <2>4 DEF TcpipStep
<1>6. ASSUME NEW t \in Threads, Lock(t) \/ Unlock(t) PROVE LockInv'
  BY <1>6, LockCall, UnlockCall DEF Lock, Unlock
<1>7. ASSUME NEW t \in Thread, ThreadStep(t) \/ ThreadBegins(t) PROVE LockInv'
  <2>1. CASE sys_mbox_post(t)
    BY <1>1, <1>3, <2>1 DEF sys_mbox_post
  <2>2. CASE sys_arch_sem_wait(t, 0) \/ \E ms \in Timeouts : sys_arch_sem_wait(t, ms)
    BY <1>1, <1>3, <2>2 DEF sys_arch_sem_wait, block
  <2>3. CASE WaitEnds(t) \/ SleepEnds(t)
    BY <1>1, <1>3, <2>3 DEF WaitEnds, SleepEnds, resume
  <2>4. CASE \E ms \in Timeouts : sys_arch_msleep(t, ms)
    BY <1>1, <1>3, <2>4 DEF sys_arch_msleep, block
  <2>5. CASE \E m \in Message : Request(t, m)
    BY <1>1, <1>3, <2>5 DEF Request
  <2>6. CASE \E m \in Message : sys_mbox_trypost(t, m)
    BY <1>2, <2>6 DEF sys_mbox_trypost
  <2> QED
    BY <1>7, <2>1, <2>2, <2>3, <2>4, <2>5, <2>6 DEF ThreadStep, ThreadBegins
<1>8. CASE UNCHANGED vars
  BY <1>2, <1>8 DEF vars
<1> QED
  BY <1>4, <1>5, <1>6, <1>7, <1>8 DEF Next

LEMMA LockInvariance == ASSUME NestingFits PROVE Spec => []LockInv
<1>1. Init => LockInv
  BY LockInit, PortAssumption
<1>2. LockInv /\ [Next]_vars => LockInv'
  BY LockNext, PortAssumption
<1> QED
  BY <1>1, <1>2, PTL DEF Spec

(* With nesting that fits the counter, the assertion of the core lock      *)
(* (sys_check_core_locking) stops exactly the threads outside of the core, *)
(* at every instruction of the lock and unlock calls of the others.        *)
THEOREM CoreChecked == ASSUME NestingFits PROVE Spec => []CoreCheckExact
<1>1. LockInv => CoreCheckExact
  <2> SUFFICES ASSUME LockInv, NEW t \in Threads, marked
               PROVE  (holder = t /\ count > 0) <=> Inside(t)
    BY DEF CoreCheckExact, sys_check_core_locking
  <2>1. None \notin Threads
    BY PortAssumption DEF PortAssumption, Threads
  <2>2. CASE mutex.owner = t
    <3>1. Booked = mutex.depth - IF pc[t] \in {"enter", "leave"} THEN 1 ELSE 0
      BY <2>2 DEF Booked, LockInv, LockType
    <3> QED
      BY <2>1, <2>2, <3>1, PortAssumption
         DEF LockInv, LockType, CoreInv, Inside, PortAssumption
  <2>3. CASE mutex.owner # t
    BY <2>1, <2>3 DEF LockInv, CoreInv, Inside
  <2> QED
    BY <2>2, <2>3
<1> QED
  BY <1>1, LockInvariance, PTL
-----------------------------------------------------------------------------
(***************************************************************************)
(* The clock.  Two times are the same to the port when they differ by      *)
(* whole turns of the 32-bit clock.                                        *)
(***************************************************************************)
Turn == 2^WIDTH
Half == 2^(WIDTH - 1)
Clock == 0 .. Turn - 1

LEMMA Turns == Half \in Nat \ {0} /\ Turn \in Nat \ {0} /\ Turn = 2 * Half
<1>1. WIDTH \in Nat \ {0}
  BY PortAssumption DEF PortAssumption
<1>2. Turn \in Int /\ Half \in Int
  BY <1>1 DEF Turn, Half
<1>3. 0 + MaxLag + TICK_MS < Half /\ MaxLag \in Nat /\ TICK_MS \in Nat \ {0}
  BY PortAssumption DEF PortAssumption, Half
<1>4. Turn = 2 * Half
  BY PortAssumption DEF PortAssumption, Turn, Half
<1> QED
  BY <1>2, <1>3, <1>4

LEMMA WrapTurns ==
  ASSUME NEW a \in Int
  PROVE  Wrap(a) \in Clock /\ \E k \in Int : Wrap(a) = a + k * Turn
<1>1. Wrap(a) = a % Turn
  BY DEF Wrap, Turn
<1>2. a = Turn * (a \div Turn) + (a % Turn)
  BY Turns
<1>3. a % Turn \in Clock
  BY Turns DEF Clock
<1>4. a \div Turn \in Int
  BY Turns
<1>5. a % Turn = a + (-(a \div Turn)) * Turn
  <2> DEFINE q == a \div Turn
             r == a % Turn
  <2>1. a = Turn * q + r /\ q \in Int /\ r \in Int
    BY <1>2, <1>3, <1>4 DEF Clock
  <2> HIDE DEF q, r
  <2>2. r = a + (-q) * Turn
    BY <2>1, Turns
  <2> QED
    BY <2>2 DEF q, r
<1>6. -(a \div Turn) \in Int
  BY <1>4
<1> QED
  BY <1>1, <1>3, <1>5, <1>6

(* Two points of one turn that are whole turns apart are the same point.   *)
LEMMA OneTurn ==
  ASSUME NEW a \in Int, NEW b \in Int, NEW k \in Int, a = b + k * Turn,
         -Turn < a - b, a - b < Turn
  PROVE  a = b
<1>1. k > 0 => k * Turn >= Turn
  BY Turns
<1>2. k < 0 => k * Turn <= -Turn
  BY Turns
<1> QED
  BY <1>1, <1>2, Turns

(* Signed(a) is the point of -Half .. Half - 1 that is whole turns from a. *)
LEMMA SignedTurns ==
  ASSUME NEW a \in Int
  PROVE  Signed(a) \in -Half .. Half - 1 /\ \E k \in Int : Signed(a) = a + k * Turn
<1>1. PICK k \in Int : Wrap(a) = a + k * Turn
  BY WrapTurns
<1>2. Wrap(a) \in Clock
  BY WrapTurns
<1>3. Signed(a) = IF Wrap(a) < Half THEN Wrap(a) ELSE Wrap(a) - Turn
  BY DEF Signed, Half, Turn
<1>4. Signed(a) = a + k * Turn \/ Signed(a) = a + (k - 1) * Turn
  BY <1>1, <1>2, <1>3, Turns DEF Clock
<1>5. Signed(a) \in -Half .. Half - 1
  BY <1>2, <1>3, Turns DEF Clock
<1>6. k - 1 \in Int
  OBVIOUS
<1> QED
  BY <1>4, <1>5, <1>6

LEMMA SignedIs ==
  ASSUME NEW a \in Int, NEW y \in -Half .. Half - 1, NEW k \in Int, y = a + k * Turn
  PROVE  Signed(a) = y
<1>1. PICK j \in Int : Signed(a) = a + j * Turn
  BY SignedTurns
<1>2. Signed(a) \in -Half .. Half - 1
  BY SignedTurns
<1>3. Signed(a) = y + (j - k) * Turn
  BY <1>1, <1>2, Turns
<1> QED
  BY <1>2, <1>3, Turns, OneTurn

-----------------------------------------------------------------------------
(***************************************************************************)
(* Waits.  Early(t) is how many milliseconds before its goal, by sys_now,  *)
(* a thread stops waiting when its ticks have run down.                    *)
(***************************************************************************)
TimeType ==
  /\ tick \in Clock
  /\ left \in [Threads -> {Forever} \union Clock]
  /\ goal \in [Threads -> Clock]
  /\ sleeptime \in Clock /\ due \in {None} \union Clock
  /\ pc \in [Threads -> Calls]

Early(t) == Signed(goal[t] - sys_now - left[t] * TICK_MS)

WaitInv ==
  \A t \in Threads :
    Blocked(t) /\ left[t] # Forever =>
      /\ -MaxLag <= Early(t) /\ Early(t) < TICK_MS
      /\ left[t] > 0 => Early(t) >= 0

TimeInv == TimeType /\ WaitInv

LEMMA Constants ==
  /\ TICK_MS \in Nat \ {0} /\ MaxLag \in Nat /\ MaxLag + TICK_MS < Half
  /\ \A ms \in Timeouts : ms \in Clock \ {0}
<1>1. \A ms \in Timeouts \union {0} : ms \in Nat /\ ms + MaxLag + TICK_MS < Half
  BY PortAssumption DEF PortAssumption, Half
<1>2. TICK_MS \in Nat \ {0} /\ MaxLag \in Nat /\ 0 \notin Timeouts
  BY PortAssumption DEF PortAssumption
<1>3. 0 + MaxLag + TICK_MS < Half
  BY <1>1
<1> QED
  BY <1>1, <1>2, <1>3, Turns DEF Clock

LEMMA NowTurns ==
  ASSUME tick \in Clock
  PROVE  sys_now \in Clock /\ \E k \in Int : sys_now = tick * TICK_MS + k * Turn
<1>1. tick * TICK_MS \in Int
  BY Turns, Constants DEF Clock
<1> QED
  BY <1>1, WrapTurns DEF sys_now

(* A call that blocks is early by what rounding to ticks cuts off.         *)
LEMMA BlockWaits ==
  ASSUME TimeInv, NEW t \in Threads, NEW where \in Calls, NEW ms \in Clock,
         NEW ticks \in {Forever, Ticks(ms)}, block(t, where, ms, ticks), UNCHANGED tick,
         sleeptime' \in Clock, UNCHANGED due
  PROVE  TimeInv'
<1> USE Turns, Constants DEF TimeInv, TimeType
<1>1. Ticks(ms) \in Clock /\ ms - Ticks(ms) * TICK_MS \in 0 .. TICK_MS - 1
  <2>1. ms = TICK_MS * (ms \div TICK_MS) + (ms % TICK_MS)
    BY DEF Clock
  <2>2. ms % TICK_MS \in 0 .. TICK_MS - 1 /\ ms \div TICK_MS \in Int
    BY DEF Clock
  <2>3. ms \div TICK_MS >= 0 /\ ms \div TICK_MS <= ms
    BY DEF Clock
  <2> QED
    BY <2>1, <2>2, <2>3 DEF Ticks, Clock
<1>2. sys_now \in Clock
  BY NowTurns
<1>3. sys_now + ms \in Int
  BY <1>2 DEF Clock
<1>4. PICK k \in Int : Wrap(sys_now + ms) = sys_now + ms + k * Turn
  BY <1>3, WrapTurns
<1>5. Wrap(sys_now + ms) \in Clock
  BY <1>3, WrapTurns
<1>6. /\ pc' = [pc EXCEPT ![t] = where]
      /\ left' = [left EXCEPT ![t] = ticks]
      /\ goal' = [goal EXCEPT ![t] = Wrap(sys_now + ms)]
      /\ sys_now' = sys_now
  BY DEF block, sys_now
<1>7. TimeType'
  BY <1>1, <1>5, <1>6
<1>8. ASSUME NEW u \in Threads \ {t}
      PROVE  /\ left'[u] = left[u] /\ Early(u)' = Early(u)
             /\ Blocked(u)' = Blocked(u)
  BY <1>6, <1>8 DEF Early, Blocked
<1>9. left'[t] # Forever => Early(t)' = ms - Ticks(ms) * TICK_MS
  <2> SUFFICES ASSUME left'[t] # Forever PROVE Early(t)' = ms - Ticks(ms) * TICK_MS
    OBVIOUS
  <2> DEFINE a == Wrap(sys_now + ms) - sys_now - Ticks(ms) * TICK_MS
  <2>1. Early(t)' = Signed(a)
    BY <1>6 DEF Early
  <2>2. Ticks(ms) * TICK_MS \in Int
    BY <1>1 DEF Clock
  <2>3. a \in Int
    BY <1>2, <1>5, <2>2 DEF Clock
  <2>4. ms - Ticks(ms) * TICK_MS = a + (-k) * Turn
    BY <1>2, <1>4, <1>5, <2>2 DEF Clock
  <2>5. ms - Ticks(ms) * TICK_MS \in -Half .. Half - 1
    BY <1>1
  <2> DEFINE y == ms - Ticks(ms) * TICK_MS
  <2>6. y \in -Half .. Half - 1 /\ y = a + (-k) * Turn /\ -k \in Int
    BY <2>4, <2>5
  <2> HIDE DEF a, y
  <2>7. Signed(a) = y
    BY <2>3, <2>6, SignedIs
  <2> QED
    BY <2>1, <2>7 DEF y
<1>10. WaitInv'
  BY <1>1, <1>8, <1>9 DEF WaitInv
<1> QED
  BY <1>7, <1>10

(* A thread that returns waits no more.                                    *)
LEMMA ResumeWaits ==
  ASSUME TimeInv, NEW t \in Threads, resume(t), UNCHANGED <<tick, sleeptime, due>>
  PROVE  TimeInv'
<1> USE DEF TimeInv, TimeType
<1>1. /\ pc' = [pc EXCEPT ![t] = "out"]
      /\ left' = [left EXCEPT ![t] = 0] /\ goal' = [goal EXCEPT ![t] = 0]
      /\ sys_now' = sys_now
  BY DEF resume, sys_now
<1>2. TimeType'
  BY <1>1, Turns DEF Clock, Calls
<1>3. ASSUME NEW u \in Threads \ {t}
      PROVE  /\ left'[u] = left[u] /\ Early(u)' = Early(u)
             /\ Blocked(u)' = Blocked(u)
  BY <1>1, <1>3 DEF Early, Blocked
<1>4. ~Blocked(t)'
  BY <1>1 DEF Blocked
<1> QED
  BY <1>2, <1>3, <1>4 DEF WaitInv

(* A tick takes TICK_MS off both sides, or makes a thread late that has no *)
(* ticks left.                                                             *)
LEMMA TickWaits ==
  ASSUME TimeInv, Tick
  PROVE  TimeInv'
<1> USE Turns, Constants DEF TimeInv, TimeType
<1>1. tick' = Wrap(tick + 1) /\ UNCHANGED <<goal, pc, sleeptime, due>>
  BY DEF Tick
<1>2. \A t \in Threads : left'[t] = IF left[t] > 0 THEN left[t] - 1 ELSE left[t]
  BY DEF Tick
<1>3. tick + 1 \in Int
  BY DEF Clock
<1>4. TimeType'
  <2>1. tick' \in Clock
    BY <1>1, <1>3, WrapTurns
  <2>2. left' \in [Threads -> {Forever} \union Clock]
    <3>1. \A t \in Threads :
            (IF left[t] > 0 THEN left[t] - 1 ELSE left[t]) \in {Forever} \union Clock
      BY DEF Clock, Forever
    <3> QED
      BY <3>1 DEF Tick
  <2> QED
    BY <1>1, <2>1, <2>2
<1>5. \E k \in Int : sys_now' = sys_now + TICK_MS + k * Turn
  <2>1. PICK i \in Int : sys_now = tick * TICK_MS + i * Turn
    BY NowTurns
  <2>2. PICK j \in Int : tick' = tick + 1 + j * Turn
    BY <1>1, <1>3, WrapTurns
  <2>3. tick' \in Clock
    BY <1>4
  <2>4. tick' * TICK_MS \in Int
    BY <2>3 DEF Clock
  <2>5. PICK n \in Int : Wrap(tick' * TICK_MS) = tick' * TICK_MS + n * Turn
    BY <2>4, WrapTurns
  <2>6. sys_now' = tick' * TICK_MS + n * Turn
    BY <2>5 DEF sys_now
  <2>7. tick' * TICK_MS = tick * TICK_MS + TICK_MS + (j * TICK_MS) * Turn
    BY <2>2 DEF Clock
  <2>8. sys_now' = sys_now + TICK_MS + (j * TICK_MS + n - i) * Turn
    <3>1. tick * TICK_MS \in Int /\ j * TICK_MS \in Int
      BY DEF Clock
    <3>2. (j * TICK_MS) * Turn + n * Turn - i * Turn = (j * TICK_MS + n - i) * Turn
      BY <3>1
    <3> QED
      BY <2>1, <2>6, <2>7, <3>1, <3>2
  <2> QED
    BY <2>8
<1>6. ASSUME NEW t \in Threads, Blocked(t)', left'[t] # Forever
      PROVE  /\ -MaxLag <= Early(t)' /\ Early(t)' < TICK_MS
             /\ left'[t] > 0 => Early(t)' >= 0
  <2>1. Blocked(t) /\ left[t] # Forever
    BY <1>1, <1>2, <1>6 DEF Blocked, Forever, Clock
  <2>2. left[t] \in Clock /\ goal[t] \in Clock /\ left'[t] \in Clock
    BY <1>4, <1>6, <2>1
  <2>3. PICK k \in Int : sys_now' = sys_now + TICK_MS + k * Turn
    BY <1>5
  <2>4. sys_now \in Clock
    BY NowTurns
  <2> DEFINE a == goal[t] - sys_now - left[t] * TICK_MS
             b == goal[t] - sys_now' - left'[t] * TICK_MS
  <2>5. left[t] * TICK_MS \in Int /\ left'[t] * TICK_MS \in Int
    BY <2>2 DEF Clock
  <2>6. Early(t) = Signed(a) /\ Early(t)' = Signed(b) /\ a \in Int /\ b \in Int
    BY <1>1, <2>2, <2>3, <2>4, <2>5 DEF Early, Clock
  <2>7. PICK i \in Int : Signed(a) = a + i * Turn
    BY <2>6, SignedTurns
  <2>8. Signed(a) \in -Half .. Half - 1
    BY <2>6, SignedTurns
  <2>9. CASE left[t] > 0
    <3>1. left'[t] * TICK_MS = left[t] * TICK_MS - TICK_MS
      BY <1>2, <2>2, <2>9 DEF Clock
    <3>2. b = a - k * Turn
      BY <2>2, <2>3, <2>4, <2>5, <3>1 DEF Clock
    <3>3. Signed(a) = b + (k + i) * Turn
      BY <2>6, <2>7, <3>2
    <3>4. Signed(b) = Signed(a)
      <4> HIDE DEF a, b
      <4> QED
        BY <2>6, <2>8, <3>3, SignedIs
    <3> QED
      BY <2>1, <2>6, <2>9, <3>4 DEF WaitInv
  <2>10. CASE ~(left[t] > 0)
    <3>1. left[t] = 0 /\ left'[t] = 0
      BY <1>2, <2>2, <2>10 DEF Clock
    <3>2. a = goal[t] - sys_now /\ b = a - TICK_MS - k * Turn
      BY <2>2, <2>3, <2>4, <3>1 DEF Clock
    <3>3. Signed(a) > TICK_MS - MaxLag
      BY <2>1, <3>1, <3>2 DEF Tick, InTime
    <3>4. Signed(a) - TICK_MS = b + (k + i) * Turn
      BY <2>6, <2>7, <3>2
    <3>5. Signed(a) - TICK_MS \in -Half .. Half - 1
      BY <2>8, <3>3
    <3>6. Signed(b) = Signed(a) - TICK_MS
      <4> HIDE DEF a, b
      <4> QED
        BY <2>6, <3>4, <3>5, SignedIs
    <3> QED
      BY <2>1, <2>6, <2>8, <3>1, <3>3, <3>6 DEF WaitInv
  <2> QED
    BY <2>9, <2>10
<1> QED
  BY <1>4, <1>6 DEF WaitInv

LEMMA TimeInit == Init => TimeInv
<1> SUFFICES ASSUME Init PROVE TimeInv
  OBVIOUS
<1>1. TimeType
  BY Turns DEF Init, TimeType, Clock, Calls
<1>2. \A t \in Threads : ~Blocked(t)
  BY DEF Init, Blocked
<1> QED
  BY <1>1, <1>2 DEF TimeInv, WaitInv

LEMMA TimeNext == TimeInv /\ [Next]_vars => TimeInv'
<1> SUFFICES ASSUME TimeInv, [Next]_vars
             PROVE  TimeInv'
  OBVIOUS
<1> USE DEF TimeInv, TimeType
<1>1. Tcpip \in Threads /\ \A t \in Thread : t \in Threads
  BY DEF Threads
<1>2. sys_now \in Clock
  BY NowTurns
<1>3. ASSUME UNCHANGED <<tick, left, goal>>,
             pc' = pc \/ \E t \in Threads, w \in Calls :
                           /\ ~Blocked(t) /\ pc' = [pc EXCEPT ![t] = w]
                           /\ w \notin {"waiting", "sleeping", "fetching"},
             sleeptime' \in Clock, due' \in {None} \union Clock
      PROVE  TimeInv'
  <2>1. \A t \in Threads : Early(t)' = Early(t) /\ (Blocked(t)' => Blocked(t))
    BY <1>3 DEF Early, Blocked, sys_now
  <2>2. TimeType'
    BY <1>3
  <2> QED
    BY <1>3, <2>1, <2>2 DEF WaitInv
<1>4. CASE Tick
  BY <1>4, TickWaits
<1>5. ASSUME NEW m \in Message, sys_mbox_trypost_fromisr(m) PROVE TimeInv'
  BY <1>3, <1>5 DEF sys_mbox_trypost_fromisr, wait
<1>6. CASE TcpipStep
  <2>1. CASE sys_mark_tcpip_thread
    BY <1>1, <1>3, <2>1 DEF sys_mark_tcpip_thread, wait, Blocked, Calls
  <2>2. CASE sys_arch_mbox_fetch
    <3>1. TimeoutTicks(sleeptime) \in {Forever, Ticks(sleeptime)}
      BY DEF TimeoutTicks
    <3>2. block(Tcpip, "fetching", sleeptime, TimeoutTicks(sleeptime)) /\ UNCHANGED <<tick, due>>
      BY <2>2 DEF sys_arch_mbox_fetch
    <3>3. sleeptime' \in Clock
      BY <2>2, Turns DEF sys_arch_mbox_fetch, Clock
    <3> QED
      BY <1>1, <3>1, <3>2, <3>3, BlockWaits DEF Calls
  <2>3. CASE Fetched \/ FetchTimedOut
    BY <1>1, <2>3, ResumeWaits DEF Fetched, FetchTimedOut
  <2>4. CASE HandleMessage
    <3>1. \A ms \in Timeouts : Wrap(sys_now + ms) \in Clock
      BY <1>2, WrapTurns, Constants, Turns DEF Clock
    <3>2. due' \in {due} \union {Wrap(sys_now + ms) : ms \in IF due = None THEN Timeouts ELSE {}}
      BY <2>4 DEF HandleMessage
    <3>3. due' \in {None} \union Clock
      BY <3>1, <3>2
    <3> QED
      BY <1>3, <2>4, <3>3 DEF HandleMessage, wait
  <2>5. CASE CheckTimeouts
    BY <1>3, <2>5 DEF CheckTimeouts, wait
  <2>6. CASE DecideSleep
    <3>1. due # None => Signed(due - sys_now) \in Clock
      <4>1. due # None => due - sys_now \in Int /\ Signed(due - sys_now) > 0
        <5>1. ASSUME due # None PROVE due - sys_now \in Int
          BY <1>2, <5>1, Turns DEF Clock
        <5>2. ASSUME due # None PROVE Signed(due - sys_now) \in -Half .. Half - 1
          BY <5>1, <5>2, SignedTurns
        <5> QED
          BY <2>6, <5>1, <5>2, Turns DEF DecideSleep, Reached
      <4> QED
        BY <4>1, SignedTurns, Turns DEF Clock
    <3>2. sleeptime' \in Clock
      BY <2>6, <3>1, Turns DEF DecideSleep, Clock
    <3> QED
      BY <1>3, <2>6, <3>2 DEF DecideSleep, wait
  <2> QED
    BY <1>6, <2>1, <2>2, <2>3, <2>4, <2>5, <2>6 DEF TcpipStep
<1>7. ASSUME NEW t \in Threads, Lock(t) \/ Unlock(t) PROVE TimeInv'
  <2>1. CASE Lock(t)
    BY <1>3, <2>1 DEF Lock, sys_lock_tcpip_core, wait, Blocked, Calls
  <2>2. CASE Unlock(t)
    BY <1>3, <2>2 DEF Unlock, sys_unlock_tcpip_core, wait, Blocked, Calls
  <2> QED
    BY <1>7, <2>1, <2>2
<1>8. ASSUME NEW t \in Thread, ThreadStep(t) \/ ThreadBegins(t) PROVE TimeInv'
  <2>1. CASE sys_mbox_post(t)
    BY <1>1, <1>3, <2>1 DEF sys_mbox_post, wait, Blocked, Calls
  <2>2. ASSUME NEW ms \in Timeouts \union {0}, sys_arch_sem_wait(t, ms) PROVE TimeInv'
    <3>1. ms \in Clock /\ TimeoutTicks(ms) \in {Forever, Ticks(ms)}
      BY Constants, Turns DEF TimeoutTicks, Clock
    <3> QED
      BY <1>1, <2>2, <3>1, BlockWaits DEF sys_arch_sem_wait, Calls
  <2>3. CASE WaitEnds(t) \/ SleepEnds(t)
    BY <1>1, <2>3, ResumeWaits DEF WaitEnds, SleepEnds
  <2>4. ASSUME NEW ms \in Timeouts, sys_arch_msleep(t, ms) PROVE TimeInv'
    <3>1. ms \in Clock
      BY Constants
    <3> QED
      BY <1>1, <2>4, <3>1, BlockWaits DEF sys_arch_msleep, Calls
  <2>5. ASSUME NEW m \in Message, Request(t, m) PROVE TimeInv'
    BY <1>1, <1>3, <2>5 DEF Request, wait, Blocked, Calls
  <2>6. ASSUME NEW m \in Message, sys_mbox_trypost(t, m) PROVE TimeInv'
    BY <1>3, <2>6 DEF sys_mbox_trypost, wait
  <2> QED
    BY <1>8, <2>1, <2>2, <2>3, <2>4, <2>5, <2>6 DEF ThreadStep, ThreadBegins
<1>9. CASE UNCHANGED vars
  BY <1>3, <1>9 DEF vars, wait
<1> QED
  BY <1>4, <1>5, <1>6, <1>7, <1>8, <1>9 DEF Next

LEMMA TimeInvariance == Spec => []TimeInv
BY TimeInit, TimeNext, PTL DEF Spec

(* Whatever the width of the clock, the tick and the timeouts, a wait is   *)
(* over at most its timeout away and less than one tick early by sys_now,  *)
(* across every wrap of the clock (sys_arch_mbox_fetch, sys_arch_sem_wait, *)
(* sys_arch_msleep).                                                       *)
THEOREM WaitsAreExact == Spec => []WaitsExact
<1>1. TimeInv => WaitsExact
  BY DEF TimeInv, WaitInv, WaitsExact, Early
<1> QED
  BY <1>1, TimeInvariance, PTL

-----------------------------------------------------------------------------
(***************************************************************************)
(* Messages.                                                               *)
(***************************************************************************)
MailType ==
  /\ mbox \in Seq(Message) /\ Len(mbox) <= MBOX_SIZE
  /\ sem \subseteq Thread
  /\ pool \in [Message -> {"free", "posted"} \union Thread]
  /\ job \in Message \union {"none", "sleep", "expired"}

(* The message is in the mailbox or being handled.                         *)
Queued(m) == job = m \/ \E i \in DOMAIN mbox : mbox[i] = m

(* The message of a request, from post to the answer.                      *)
RequestInv(m, t) ==
  /\ pc[t] \in {"posting", "posted", "waiting"}
  /\ pc[t] = "posting" => ~Queued(m)
  /\ pc[t] = "waiting" => left[t] = Forever
  /\ t \in sem => ~Queued(m)
  /\ \A n \in Message : pool[n] = t => n = m

MailInv ==
  /\ \A i, j \in DOMAIN mbox : mbox[i] = mbox[j] => i = j
  /\ \A i \in DOMAIN mbox : mbox[i] # job
  /\ \A m \in Message : /\ pool[m] = "free" => ~Queued(m)
                        /\ pool[m] = "posted" => Queued(m)
  /\ \A m \in Message : pool[m] \in Thread => RequestInv(m, pool[m])
  /\ \A t \in sem : pc[t] \in {"posted", "waiting"}
  /\ pc[Tcpip] = "fetching" => job = "sleep"

OwnerInv == TimeType /\ MailType /\ MailInv
(* A message that is not queued is queued once by sending it to the back.  *)
LEMMA SendToBack ==
  ASSUME MailType, MailInv, NEW m \in Message, ~Queued(m), ~Full, xQueueSendToBack(m),
         job' = job
  PROVE  /\ mbox' \in Seq(Message) /\ Len(mbox') <= MBOX_SIZE
         /\ \A i, j \in DOMAIN mbox' : mbox'[i] = mbox'[j] => i = j
         /\ \A i \in DOMAIN mbox' : mbox'[i] # job'
         /\ \A n \in Message : Queued(n)' <=> Queued(n) \/ n = m
<1> USE DEF MailType, MailInv
<1>1. mbox' = Append(mbox, m) /\ Len(mbox) # MBOX_SIZE
  BY DEF xQueueSendToBack, Full
<1>2. /\ mbox' \in Seq(Message) /\ Len(mbox') = Len(mbox) + 1
      /\ \A i \in 1 .. Len(mbox) : mbox'[i] = mbox[i]
      /\ mbox'[Len(mbox) + 1] = m
      /\ DOMAIN mbox' = 1 .. Len(mbox) + 1 /\ DOMAIN mbox = 1 .. Len(mbox)
      /\ Len(mbox) \in Nat
  BY <1>1
<1>3. MBOX_SIZE \in Nat
  BY PortAssumption DEF PortAssumption
<1>4. \A i \in 1 .. Len(mbox) : mbox[i] # m
  BY <1>2 DEF Queued
<1>5. \A i \in DOMAIN mbox' : i \in 1 .. Len(mbox) \/ i = Len(mbox) + 1
  BY <1>2
<1>6. \A i, j \in DOMAIN mbox' : mbox'[i] = mbox'[j] => i = j
  BY <1>2, <1>4, <1>5
<1>7. \A i \in DOMAIN mbox' : mbox'[i] # job'
  BY <1>2, <1>5 DEF Queued
<1>8. \A n \in Message : Queued(n)' <=> Queued(n) \/ n = m
  <2> SUFFICES ASSUME NEW n \in Message
               PROVE  (\E i \in DOMAIN mbox' : mbox'[i] = n)
                        <=> (\E i \in DOMAIN mbox : mbox[i] = n) \/ n = m
    BY DEF Queued
  <2>1. Len(mbox) + 1 \in DOMAIN mbox' /\ \A i \in DOMAIN mbox : i \in DOMAIN mbox'
    BY <1>2
  <2> QED
    BY <1>2, <1>5, <2>1
<1>9. Len(mbox') <= MBOX_SIZE
  <2>1. \A n \in Nat : n <= MBOX_SIZE /\ n # MBOX_SIZE => n + 1 <= MBOX_SIZE
    BY <1>3
  <2>2. Len(mbox) <= MBOX_SIZE /\ Len(mbox) # MBOX_SIZE /\ Len(mbox) \in Nat
    BY <1>1, <1>2
  <2>3. Len(mbox) + 1 <= MBOX_SIZE
    BY <2>1, <2>2
  <2> QED
    BY <1>2, <2>3
<1> QED
  BY <1>2, <1>6, <1>7, <1>8, <1>9

(* Fetching moves a message from the mailbox into the handler's hands.     *)
LEMMA FetchHead ==
  ASSUME MailType, MailInv, mbox # <<>>, job' = Head(mbox), mbox' = Tail(mbox),
         job \notin Message
  PROVE  /\ mbox' \in Seq(Message) /\ Len(mbox') <= MBOX_SIZE /\ job' \in Message
         /\ \A i, j \in DOMAIN mbox' : mbox'[i] = mbox'[j] => i = j
         /\ \A i \in DOMAIN mbox' : mbox'[i] # job'
         /\ \A n \in Message : Queued(n)' <=> Queued(n)
<1> USE DEF MailType, MailInv
<1>1. /\ mbox' \in Seq(Message) /\ Len(mbox') = Len(mbox) - 1 /\ Len(mbox) \in Nat \ {0}
      /\ \A i \in 1 .. Len(mbox) - 1 : mbox'[i] = mbox[i + 1]
      /\ DOMAIN mbox' = 1 .. Len(mbox) - 1 /\ DOMAIN mbox = 1 .. Len(mbox)
  OBVIOUS
<1>2. job' = mbox[1] /\ job' \in Message
  BY <1>1
<1>3. MBOX_SIZE \in Nat
  BY PortAssumption DEF PortAssumption
<1>4. \A i, j \in DOMAIN mbox' : mbox'[i] = mbox'[j] => i = j
  <2> SUFFICES ASSUME NEW i \in DOMAIN mbox', NEW j \in DOMAIN mbox', mbox'[i] = mbox'[j]
               PROVE  i = j
    OBVIOUS
  <2>1. i + 1 \in DOMAIN mbox /\ j + 1 \in DOMAIN mbox /\ mbox[i + 1] = mbox[j + 1]
    BY <1>1
  <2>2. i + 1 = j + 1
    BY <2>1
  <2> QED
    BY <1>1, <2>2
<1>5. \A i \in DOMAIN mbox' : mbox'[i] # job'
  <2> SUFFICES ASSUME NEW i \in DOMAIN mbox', mbox'[i] = job'
               PROVE  FALSE
    OBVIOUS
  <2>1. i + 1 \in DOMAIN mbox /\ 1 \in DOMAIN mbox /\ mbox[i + 1] = mbox[1]
    BY <1>1, <1>2
  <2>2. i + 1 = 1
    BY <2>1
  <2> QED
    BY <1>1, <2>2
<1>6. ASSUME NEW n \in Message PROVE Queued(n)' <=> Queued(n)
  <2>1. CASE Queued(n)
    <3>1. PICK i \in DOMAIN mbox : mbox[i] = n
      BY <1>6, <2>1 DEF Queued
    <3>2. CASE i = 1
      BY <1>2, <3>1, <3>2 DEF Queued
    <3>3. CASE i # 1
      <4>1. i - 1 \in DOMAIN mbox' /\ mbox'[i - 1] = n
        BY <1>1, <3>1, <3>3
      <4> QED
        BY <2>1, <4>1 DEF Queued
    <3> QED
      BY <3>2, <3>3
  <2>2. CASE Queued(n)'
    <3>1. CASE job' = n
      BY <1>1, <1>2, <3>1 DEF Queued
    <3>2. CASE \E i \in DOMAIN mbox' : mbox'[i] = n
      <4>1. PICK i \in DOMAIN mbox' : mbox'[i] = n
        BY <3>2
      <4>2. i + 1 \in DOMAIN mbox /\ mbox[i + 1] = n
        BY <1>1, <4>1
      <4> QED
        BY <4>2 DEF Queued
    <3> QED
      BY <2>2, <3>1, <3>2 DEF Queued
  <2> QED
    BY <2>1, <2>2
<1> QED
  BY <1>1, <1>2, <1>3, <1>4, <1>5, <1>6

(* Steps that move no message.                                             *)
LEMMA NoMail ==
  ASSUME OwnerInv, UNCHANGED <<mbox, sem, pool>>,
         job' # job => {job, job'} \intersect Message = {},
         job' \in Message \union {"none", "sleep", "expired"},
         \A t \in Thread :
           /\ pc'[t] # pc[t] =>
                {pc[t], pc'[t]} \intersect {"posting", "posted", "waiting"} = {}
           /\ pc[t] = "waiting" /\ left[t] = Forever => left'[t] = Forever,
         pc'[Tcpip] = "fetching" => job' = "sleep"
  PROVE  MailType' /\ MailInv'
<1> USE DEF OwnerInv, MailType, MailInv
<1>1. \A m \in Message : Queued(m)' <=> Queued(m)
  BY DEF Queued
<1>2. \A m \in Message : pool[m] \in Thread => RequestInv(m, pool[m])'
  BY <1>1 DEF RequestInv
<1>3. \A t \in sem : pc'[t] \in {"posted", "waiting"}
  OBVIOUS
<1>4. \A i \in DOMAIN mbox : mbox[i] # job'
  <2>1. \A i \in DOMAIN mbox : mbox[i] \in Message
    OBVIOUS
  <2> QED
    BY <2>1
<1> QED
  BY <1>1, <1>2, <1>3, <1>4

(* Messages that belong to the stack: posted or refused.                   *)
LEMMA Posted ==
  ASSUME OwnerInv, NEW m \in Message, pool[m] = "free", xQueueSendToBack(m),
         NEW err, err = "ERR_MEM" <=> Full, told(m, err),
         UNCHANGED <<sem, pc, left, job>>
  PROVE  MailType' /\ MailInv'
<1> USE DEF OwnerInv
<1>1. ~Queued(m) /\ \A t \in Thread : t \notin {"free", "posted"}
  BY PortAssumption DEF MailInv, PortAssumption
<1>2. /\ pool' = [pool EXCEPT ![m] = IF Full THEN "free" ELSE "posted"]
      /\ \A n \in Message : pool'[n] \in Thread <=> pool[n] \in Thread
      /\ \A n \in Message : pool'[n] \in Thread => pool'[n] = pool[n] /\ n # m
  BY <1>1 DEF told, MailType
<1>3. CASE Full
  <2>1. mbox' = mbox /\ pool' = pool
    BY <1>2, <1>3 DEF xQueueSendToBack, MailType
  <2>2. /\ UNCHANGED <<mbox, sem, pool>> /\ job' = job
        /\ job' \in Message \union {"none", "sleep", "expired"}
        /\ pc'[Tcpip] = "fetching" => job' = "sleep"
        /\ \A t \in Thread : pc'[t] = pc[t] /\ left'[t] = left[t]
    BY <2>1 DEF MailType, MailInv
  <2> HIDE DEF OwnerInv
  <2> QED
    BY <2>2, NoMail
<1>4. CASE ~Full
  <2>1. /\ mbox' \in Seq(Message) /\ Len(mbox') <= MBOX_SIZE
        /\ \A i, j \in DOMAIN mbox' : mbox'[i] = mbox'[j] => i = j
        /\ \A i \in DOMAIN mbox' : mbox'[i] # job'
        /\ \A n \in Message : Queued(n)' <=> Queued(n) \/ n = m
    BY <1>1, <1>4, SendToBack
  <2>2. \A n \in Message : pool'[n] = IF n = m THEN "posted" ELSE pool[n]
    BY <1>2, <1>4 DEF MailType
  <2>3. MailType'
    BY <1>2, <2>1 DEF MailType
  <2>4. ASSUME NEW n \in Message, pool'[n] \in Thread
        PROVE  RequestInv(n, pool[n])'
    <3>1. pool'[n] = pool[n] /\ n # m /\ RequestInv(n, pool[n])
      BY <1>2, <2>4 DEF MailInv
    <3>2. Queued(n)' <=> Queued(n)
      BY <2>1, <3>1
    <3>3. \A k \in Message : pool'[k] = pool'[n] => pool[k] = pool[n]
      BY <1>2, <2>4
    <3> QED
      BY <3>1, <3>2, <3>3 DEF RequestInv
  <2>5. \A n \in Message : /\ pool'[n] = "free" => ~Queued(n)'
                           /\ pool'[n] = "posted" => Queued(n)'
    BY <2>1, <2>2 DEF MailInv
  <2>6. /\ \A t \in sem' : pc'[t] \in {"posted", "waiting"}
        /\ pc'[Tcpip] = "fetching" => job' = "sleep"
    BY DEF MailInv
  <2> QED
    BY <2>1, <2>3, <2>4, <2>5, <2>6 DEF MailInv
<1> QED
  BY <1>3, <1>4
(* A request: its message is out of the pool, then in the mailbox, and its *)
(* thread waits for the answer without a timeout.                          *)
LEMMA RequestBegins ==
  ASSUME OwnerInv, NEW t \in Thread, NEW m \in Message, Request(t, m)
  PROVE  MailType' /\ MailInv'
<1> USE DEF OwnerInv
<1>1. /\ pc[t] = "out" /\ pool[m] = "free" /\ ~Queued(m)
      /\ pool' = [pool EXCEPT ![m] = t] /\ pc' = [pc EXCEPT ![t] = "posting"]
      /\ UNCHANGED <<mbox, sem, job, left>>
  BY DEF Request, MailInv, wait
<1>2. t \in Threads /\ t # Tcpip /\ t \notin sem /\ t \notin {"free", "posted"}
      /\ \A u \in Thread : u \in Threads
  BY <1>1, PortAssumption DEF Threads, PortAssumption, MailInv
<1>3. /\ \A n \in Message : pool'[n] = IF n = m THEN t ELSE pool[n]
      /\ \A u \in Threads : pc'[u] = IF u = t THEN "posting" ELSE pc[u]
      /\ \A n \in Message : Queued(n)' <=> Queued(n)
  BY <1>1 DEF MailType, TimeType, Queued
<1>4. \A n \in Message : pool[n] # t
  BY <1>1 DEF MailInv, RequestInv
<1>5. MailType'
  BY <1>1, <1>2 DEF MailType
<1>6. ASSUME NEW n \in Message, pool'[n] \in Thread PROVE RequestInv(n, pool[n])'
  <2>1. CASE n = m
    BY <1>1, <1>2, <1>3, <1>4, <2>1 DEF RequestInv
  <2>2. CASE n # m
    <3>1. RequestInv(n, pool[n]) /\ pool[n] # t /\ pool[n] \in Threads
      BY <1>2, <1>3, <1>4, <1>6, <2>2 DEF MailInv
    <3> QED
      BY <1>1, <1>3, <2>2, <3>1 DEF RequestInv
  <2> QED
    BY <2>1, <2>2
<1>7. \A u \in sem' : pc'[u] \in {"posted", "waiting"}
  BY <1>1, <1>2, <1>3 DEF MailInv, MailType
<1>8. pc'[Tcpip] = "fetching" => job' = "sleep"
  BY <1>1, <1>2, <1>3 DEF MailInv, Threads
<1> QED
  BY <1>1, <1>2, <1>3, <1>5, <1>6, <1>7, <1>8 DEF MailInv

LEMMA RequestPosts ==
  ASSUME OwnerInv, NEW t \in Thread, sys_mbox_post(t)
  PROVE  MailType' /\ MailInv'
<1> USE DEF OwnerInv
<1>1. PICK m \in Message : pool[m] = t /\ xQueueSendToBack(m)
  BY DEF sys_mbox_post
<1>2. /\ pc[t] = "posting" /\ ~Full /\ pc' = [pc EXCEPT ![t] = "posted"]
      /\ UNCHANGED <<sem, pool, job, left>>
  BY DEF sys_mbox_post, wait
<1>3. RequestInv(m, t) /\ ~Queued(m)
  BY <1>1, <1>2 DEF MailInv, RequestInv
<1>4. t \in Threads /\ t # Tcpip /\ t \notin {"free", "posted"}
      /\ \A u \in Thread : u \in Threads
  BY PortAssumption DEF Threads, PortAssumption
<1>5. t \notin sem
  BY <1>2 DEF MailInv
<1>6. /\ mbox' \in Seq(Message) /\ Len(mbox') <= MBOX_SIZE
      /\ \A i, j \in DOMAIN mbox' : mbox'[i] = mbox'[j] => i = j
      /\ \A i \in DOMAIN mbox' : mbox'[i] # job'
      /\ \A n \in Message : Queued(n)' <=> Queued(n) \/ n = m
  BY <1>1, <1>2, <1>3, SendToBack
<1>7. \A u \in Threads : pc'[u] = IF u = t THEN "posted" ELSE pc[u]
  BY <1>2 DEF TimeType
<1>8. MailType'
  BY <1>2, <1>6 DEF MailType
<1>9. ASSUME NEW n \in Message, pool[n] \in Thread PROVE RequestInv(n, pool[n])'
  <2>1. CASE n = m
    BY <1>1, <1>2, <1>3, <1>4, <1>5, <1>7, <2>1 DEF RequestInv
  <2>2. CASE n # m
    <3>1. RequestInv(n, pool[n]) /\ pool[n] # t /\ pool[n] \in Threads
      BY <1>3, <1>4, <1>9, <2>2 DEF MailInv, RequestInv
    <3> QED
      BY <1>2, <1>6, <1>7, <2>2, <3>1 DEF RequestInv
  <2> QED
    BY <2>1, <2>2
<1>10. \A n \in Message : /\ pool'[n] = "free" => ~Queued(n)'
                          /\ pool'[n] = "posted" => Queued(n)'
  BY <1>1, <1>2, <1>4, <1>6 DEF MailInv
<1>11. \A u \in sem' : pc'[u] \in {"posted", "waiting"}
  BY <1>2, <1>4, <1>7 DEF MailInv, MailType
<1>12. pc'[Tcpip] = "fetching" => job' = "sleep"
  BY <1>2, <1>4, <1>7 DEF MailInv, Threads
<1>13. \A n \in Message : pool'[n] \in Thread => RequestInv(n, pool[n])'
  BY <1>2, <1>9
<1> QED
  BY <1>6, <1>8, <1>10, <1>11, <1>12, <1>13 DEF MailInv

LEMMA RequestWaits ==
  ASSUME OwnerInv, NEW t \in Thread, sys_arch_sem_wait(t, 0)
  PROVE  MailType' /\ MailInv'
<1> USE DEF OwnerInv
<1>1. /\ pc[t] = "posted" /\ pc' = [pc EXCEPT ![t] = "waiting"]
      /\ left' = [left EXCEPT ![t] = Forever]
      /\ UNCHANGED <<mbox, sem, pool, job>>
  BY DEF sys_arch_sem_wait, block, TimeoutTicks
<1>2. t \in Threads /\ t # Tcpip /\ \A u \in Thread : u \in Threads
  BY PortAssumption DEF Threads, PortAssumption
<1>3. /\ \A u \in Threads : pc'[u] = IF u = t THEN "waiting" ELSE pc[u]
      /\ \A u \in Threads : left'[u] = IF u = t THEN Forever ELSE left[u]
      /\ \A n \in Message : Queued(n)' <=> Queued(n)
  BY <1>1 DEF TimeType, Queued
<1>4. ASSUME NEW n \in Message, pool[n] \in Thread PROVE RequestInv(n, pool[n])'
  <2>1. RequestInv(n, pool[n]) /\ pool[n] \in Threads
    BY <1>2, <1>4 DEF MailInv
  <2> QED
    BY <1>1, <1>3, <2>1 DEF RequestInv
<1>5. \A u \in sem' : pc'[u] \in {"posted", "waiting"}
  BY <1>1, <1>2, <1>3 DEF MailInv, MailType
<1>6. pc'[Tcpip] = "fetching" => job' = "sleep"
  BY <1>1, <1>2, <1>3 DEF MailInv, Threads
<1> QED
  BY <1>1, <1>3, <1>4, <1>5, <1>6 DEF MailInv, MailType

(* A thread without a request waits for an event.                          *)
LEMMA EventWaits ==
  ASSUME OwnerInv, NEW t \in Thread, NEW ms \in Timeouts, sys_arch_sem_wait(t, ms)
  PROVE  MailType' /\ MailInv'
<1> USE DEF OwnerInv
<1>1. /\ pc[t] = "out" /\ pc' = [pc EXCEPT ![t] = "waiting"]
      /\ left' = [left EXCEPT ![t] = TimeoutTicks(ms)]
      /\ UNCHANGED <<mbox, sem, pool, job>>
  BY Constants DEF sys_arch_sem_wait, block
<1>2. t \in Threads /\ t # Tcpip /\ \A u \in Thread : u \in Threads
  BY PortAssumption DEF Threads, PortAssumption
<1>3. /\ \A u \in Threads : u # t => pc'[u] = pc[u] /\ left'[u] = left[u]
      /\ pc'[t] = "waiting"
      /\ \A n \in Message : Queued(n)' <=> Queued(n)
  BY <1>1, <1>2 DEF TimeType, Queued
<1>4. ASSUME NEW n \in Message, pool[n] \in Thread PROVE RequestInv(n, pool[n])'
  <2>1. RequestInv(n, pool[n]) /\ pool[n] \in Threads
    BY <1>2, <1>4 DEF MailInv
  <2>2. pool[n] # t
    BY <1>1, <2>1 DEF RequestInv
  <2> QED
    BY <1>1, <1>3, <2>1, <2>2 DEF RequestInv
<1>5. \A u \in sem' : pc'[u] \in {"posted", "waiting"}
  BY <1>1, <1>2, <1>3 DEF MailInv, MailType
<1>6. pc'[Tcpip] = "fetching" => job' = "sleep"
  BY <1>1, <1>2, <1>3 DEF MailInv, Threads
<1> QED
  BY <1>1, <1>3, <1>4, <1>5, <1>6 DEF MailInv, MailType

(* A wait that ends with a request's message ends with its answer, because *)
(* it has no timeout.                                                      *)
LEMMA RequestEnds ==
  ASSUME OwnerInv, NEW t \in Thread, WaitEnds(t)
  PROVE  MailType' /\ MailInv'
<1> USE DEF OwnerInv
<1>1. /\ pc[t] = "waiting" /\ (t \in sem \/ left[t] = 0) /\ sem' = sem \ {t}
      /\ pool' = [m \in Message |-> IF pool[m] = t THEN "free" ELSE pool[m]]
      /\ pc' = [pc EXCEPT ![t] = "out"] /\ left' = [left EXCEPT ![t] = 0]
      /\ UNCHANGED <<mbox, job>>
  BY DEF WaitEnds, resume
<1>2. t \in Threads /\ t # Tcpip /\ t \notin {"free", "posted"}
      /\ \A u \in Thread : u \in Threads /\ u \notin {"free", "posted"}
  BY PortAssumption DEF Threads, PortAssumption
<1>3. /\ \A u \in Threads : pc'[u] = IF u = t THEN "out" ELSE pc[u]
      /\ \A u \in Threads : left'[u] = IF u = t THEN 0 ELSE left[u]
      /\ \A n \in Message : pool'[n] = IF pool[n] = t THEN "free" ELSE pool[n]
      /\ \A n \in Message : Queued(n)' <=> Queued(n)
  BY <1>1 DEF TimeType, Queued
<1>4. ASSUME NEW m \in Message, pool[m] = t PROVE ~Queued(m)
  <2>1. RequestInv(m, t)
    BY <1>4 DEF MailInv
  <2>2. t \in sem
    BY <1>1, <2>1 DEF RequestInv, Forever
  <2> QED
    BY <2>1, <2>2 DEF RequestInv
<1>5. MailType'
  BY <1>1 DEF MailType
<1>6. ASSUME NEW n \in Message, pool'[n] \in Thread PROVE RequestInv(n, pool[n])'
  <2>1. pool[n] # t /\ pool'[n] = pool[n]
    BY <1>2, <1>3, <1>6
  <2>2. RequestInv(n, pool[n]) /\ pool[n] \in Threads
    BY <1>2, <1>6, <2>1 DEF MailInv
  <2>3. \A m \in Message : pool'[m] = pool'[n] => pool[m] = pool[n]
    BY <1>2, <1>3, <1>6, <2>1
  <2> QED
    BY <1>1, <1>3, <2>1, <2>2, <2>3 DEF RequestInv
<1>7. \A n \in Message : /\ pool'[n] = "free" => ~Queued(n)'
                         /\ pool'[n] = "posted" => Queued(n)'
  BY <1>2, <1>3, <1>4 DEF MailInv
<1>8. \A u \in sem' : pc'[u] \in {"posted", "waiting"}
  BY <1>1, <1>2, <1>3 DEF MailInv, MailType
<1>9. pc'[Tcpip] = "fetching" => job' = "sleep"
  BY <1>1, <1>2, <1>3 DEF MailInv, Threads
<1> QED
  BY <1>1, <1>5, <1>6, <1>7, <1>8, <1>9 DEF MailInv

(* The TCP/IP thread fetches.                                              *)
LEMMA MessageFetched ==
  ASSUME OwnerInv, Fetched
  PROVE  MailType' /\ MailInv'
<1> USE DEF OwnerInv
<1>1. /\ pc[Tcpip] = "fetching" /\ mbox # <<>> /\ job' = Head(mbox) /\ mbox' = Tail(mbox)
      /\ pc' = [pc EXCEPT ![Tcpip] = "out"] /\ left' = [left EXCEPT ![Tcpip] = 0]
      /\ UNCHANGED <<sem, pool>>
  BY DEF Fetched, resume
<1>2. job \notin Message
  BY <1>1, PortAssumption DEF MailInv, PortAssumption
<1>3. /\ mbox' \in Seq(Message) /\ Len(mbox') <= MBOX_SIZE /\ job' \in Message
      /\ \A i, j \in DOMAIN mbox' : mbox'[i] = mbox'[j] => i = j
      /\ \A i \in DOMAIN mbox' : mbox'[i] # job'
      /\ \A n \in Message : Queued(n)' <=> Queued(n)
  BY <1>1, <1>2, FetchHead
<1>4. /\ \A u \in Thread : pc'[u] = pc[u] /\ left'[u] = left[u]
      /\ pc'[Tcpip] = "out"
  BY <1>1, PortAssumption DEF TimeType, Threads, PortAssumption
<1>5. MailType'
  BY <1>1, <1>3 DEF MailType
<1>6. \A n \in Message : pool[n] \in Thread => RequestInv(n, pool[n])'
  BY <1>1, <1>3, <1>4 DEF MailInv, RequestInv
<1> QED
  BY <1>1, <1>3, <1>4, <1>5, <1>6 DEF MailInv, MailType

(* It answers a request, or frees a frame and may signal an event, which   *)
(* only a thread waits for that has no request under way.                  *)
LEMMA MessageHandled ==
  ASSUME OwnerInv, HandleMessage
  PROVE  MailType' /\ MailInv'
<1> USE DEF OwnerInv
<1>1. PICK m \in Message :
        /\ InCore(m)
        /\ IF pool[m] \in Thread
             THEN sys_sem_signal(pool[m]) /\ UNCHANGED pool
             ELSE /\ pool' = [pool EXCEPT ![m] = "free"]
                  /\ \/ UNCHANGED sem
                     \/ \E t \in Thread : /\ pc[t] = "waiting" /\ left[t] # Forever
                                        /\ sys_sem_signal(t)
  BY DEF HandleMessage
<1>2. job' = "none" /\ UNCHANGED <<mbox, pc, left>> /\ job = m /\ pc[Tcpip] = "in"
  BY <1>1 DEF HandleMessage, wait, InCore
<1>3. "none" \notin Message /\ \A t \in Thread : t \notin {"free", "posted"}
  BY PortAssumption DEF PortAssumption
<1>4. \A n \in Message : Queued(n)' <=> Queued(n) /\ n # m
  BY <1>2, <1>3 DEF Queued, MailInv
<1>5. Queued(m) /\ pool[m] # "free"
  BY <1>2 DEF Queued, MailInv
<1>6. \A i \in DOMAIN mbox : mbox[i] # "none"
  BY <1>3 DEF MailType
<1>7. CASE pool[m] \in Thread
  <2>1. sem' = sem \union {pool[m]} /\ pool' = pool
    BY <1>1, <1>7 DEF sys_sem_signal
  <2>2. RequestInv(m, pool[m]) /\ pc[pool[m]] \in {"posted", "waiting"}
    BY <1>5, <1>7 DEF MailInv, RequestInv
  <2>3. MailType'
    BY <1>2, <1>7, <2>1 DEF MailType
  <2>4. ASSUME NEW n \in Message, pool[n] \in Thread PROVE RequestInv(n, pool[n])'
    <3>1. RequestInv(n, pool[n])
      BY <2>4 DEF MailInv
    <3>2. n # m => pool[n] # pool[m]
      BY <2>2, <2>4 DEF RequestInv
    <3> QED
      BY <1>2, <1>4, <2>1, <3>1, <3>2 DEF RequestInv
  <2>5. \A n \in Message : /\ pool'[n] = "free" => ~Queued(n)'
                           /\ pool'[n] = "posted" => Queued(n)'
    BY <1>3, <1>4, <1>7, <2>1 DEF MailInv
  <2>6. \A u \in sem' : pc'[u] \in {"posted", "waiting"}
    BY <1>2, <2>1, <2>2 DEF MailInv
  <2>7. \A n \in Message : pool'[n] \in Thread => RequestInv(n, pool[n])'
    BY <2>1, <2>4
  <2> QED
    BY <1>2, <1>6, <2>3, <2>5, <2>6, <2>7 DEF MailInv
<1>8. CASE pool[m] \notin Thread
  <2>1. \A n \in Message : pool'[n] = IF n = m THEN "free" ELSE pool[n]
    BY <1>1, <1>8 DEF MailType
  <2>2. PICK woken \in SUBSET Thread :
          /\ sem' = sem \union woken
          /\ \A t \in woken : pc[t] = "waiting" /\ left[t] # Forever
    <3>1. CASE UNCHANGED sem
      <4>1. {} \in SUBSET Thread /\ sem' = sem \union {}
        BY <3>1
      <4> QED
        BY <4>1
    <3>2. CASE \E t \in Thread : /\ pc[t] = "waiting" /\ left[t] # Forever
                                 /\ sys_sem_signal(t)
      <4>1. PICK t \in Thread : /\ pc[t] = "waiting" /\ left[t] # Forever
                                /\ sys_sem_signal(t)
        BY <3>2
      <4>2. {t} \in SUBSET Thread /\ sem' = sem \union {t}
        BY <4>1 DEF sys_sem_signal
      <4> QED
        BY <4>1, <4>2
    <3> QED
      BY <1>1, <1>8, <3>1, <3>2
  <2>3. MailType'
    <3>1. pool' \in [Message -> {"free", "posted"} \union Thread]
      BY <1>1, <1>8 DEF MailType
    <3> QED
      BY <1>2, <2>2, <3>1 DEF MailType
  <2>4. ASSUME NEW n \in Message, pool'[n] \in Thread PROVE RequestInv(n, pool[n])'
    <3>1. n # m /\ pool'[n] = pool[n] /\ pool[n] \in Thread
      BY <1>3, <2>1, <2>4
    <3>2. RequestInv(n, pool[n])
      BY <3>1 DEF MailInv
    <3>3. \A k \in Message : pool'[k] = pool'[n] => pool[k] = pool[n]
      BY <1>3, <2>1, <3>1
    <3>4. pool[n] \notin woken
      BY <2>2, <3>2 DEF RequestInv
    <3> QED
      BY <1>2, <1>4, <2>2, <3>1, <3>2, <3>3, <3>4 DEF RequestInv
  <2>5. \A n \in Message : /\ pool'[n] = "free" => ~Queued(n)'
                           /\ pool'[n] = "posted" => Queued(n)'
    BY <1>4, <2>1 DEF MailInv
  <2>6. \A u \in sem' : pc'[u] \in {"posted", "waiting"}
    BY <1>2, <2>2 DEF MailInv
  <2> QED
    BY <1>2, <1>6, <2>3, <2>4, <2>5, <2>6 DEF MailInv
<1> QED
  BY <1>7, <1>8
LEMMA MailNext == OwnerInv /\ [Next]_vars => MailType' /\ MailInv'
<1> SUFFICES ASSUME OwnerInv, [Next]_vars
             PROVE  MailType' /\ MailInv'
  OBVIOUS
<1>1. /\ Tcpip \in Threads /\ Tcpip \notin Thread /\ \A t \in Thread : t \in Threads
      /\ {"none", "sleep", "expired"} \intersect Message = {}
  BY PortAssumption DEF Threads, PortAssumption
<1>2. job \in Message \union {"none", "sleep", "expired"}
  BY DEF OwnerInv, MailType
<1>3. /\ pc \in [Threads -> Calls] /\ left \in [Threads -> {Forever} \union Clock]
      /\ pc[Tcpip] = "fetching" => job = "sleep"
  BY DEF OwnerInv, TimeType, MailInv
<1>4. ASSUME UNCHANGED <<mbox, sem, pool, job>>, NEW t \in Threads, NEW w \in Calls,
             {pc[t], w} \intersect {"posting", "posted", "waiting", "fetching"} = {},
             pc' = [pc EXCEPT ![t] = w], UNCHANGED left \/ \E n : left' = [left EXCEPT ![t] = n]
      PROVE  MailType' /\ MailInv'
  <2>1. \A u \in Threads : u # t => pc'[u] = pc[u] /\ left'[u] = left[u]
    BY <1>3, <1>4
  <2>2. pc'[t] = w
    BY <1>3, <1>4
  <2>3. \A u \in Thread :
          /\ pc'[u] # pc[u] => {pc[u], pc'[u]} \intersect {"posting", "posted", "waiting"} = {}
          /\ pc[u] = "waiting" /\ left[u] = Forever => left'[u] = Forever
    BY <1>1, <1>4, <2>1, <2>2
  <2>4. pc'[Tcpip] = "fetching" => job' = "sleep"
    BY <1>1, <1>3, <1>4, <2>1, <2>2
  <2> QED
    BY <1>2, <1>4, <2>3, <2>4, NoMail
<1>5. ASSUME UNCHANGED <<mbox, sem, pool, pc>>, UNCHANGED left,
             job' # job => /\ pc[Tcpip] = "in"
                           /\ {job, job'} \subseteq {"none", "sleep", "expired"}
      PROVE  MailType' /\ MailInv'
  <2>1. \A t \in Thread :
          /\ pc'[t] # pc[t] => {pc[t], pc'[t]} \intersect {"posting", "posted", "waiting"} = {}
          /\ pc[t] = "waiting" /\ left[t] = Forever => left'[t] = Forever
    BY <1>5
  <2>2. /\ job' # job => {job, job'} \intersect Message = {}
        /\ job' \in Message \union {"none", "sleep", "expired"}
        /\ pc'[Tcpip] = "fetching" => job' = "sleep"
    BY <1>1, <1>2, <1>3, <1>5
  <2> QED
    BY <1>5, <2>1, <2>2, NoMail
<1>6. CASE Tick
  <2>1. \A t \in Thread :
          /\ pc'[t] # pc[t] => {pc[t], pc'[t]} \intersect {"posting", "posted", "waiting"} = {}
          /\ pc[t] = "waiting" /\ left[t] = Forever => left'[t] = Forever
    BY <1>1, <1>6 DEF Tick, Forever
  <2>2. pc' = pc /\ job' = job /\ UNCHANGED <<mbox, sem, pool>>
    BY <1>6 DEF Tick
  <2> QED
    BY <1>2, <1>3, <2>1, <2>2, NoMail
<1>7. ASSUME NEW m \in Message, sys_mbox_trypost_fromisr(m) PROVE MailType' /\ MailInv'
  <2> DEFINE err == TrypostFromIsrResult(xQueueSend(m), pc[Tcpip] = "fetching" /\ mbox = <<>>)
  <2>1. err = "ERR_MEM" <=> Full
    BY DEF TrypostFromIsrResult, xQueueSend
  <2>2. /\ pool[m] = "free" /\ xQueueSendToBack(m) /\ told(m, err)
        /\ UNCHANGED <<sem, pc, left, job>>
    BY <1>7 DEF sys_mbox_trypost_fromisr, wait
  <2> HIDE DEF err
  <2> QED
    BY <2>1, <2>2, Posted
<1>8. CASE TcpipStep
  <2>1. CASE sys_mark_tcpip_thread
    BY <1>1, <1>4, <2>1 DEF sys_mark_tcpip_thread, wait, Calls
  <2>2. CASE sys_arch_mbox_fetch
    <3>1. /\ pc[Tcpip] = "out" /\ job = "sleep" /\ UNCHANGED <<mbox, sem, pool, job>>
          /\ pc' = [pc EXCEPT ![Tcpip] = "fetching"]
          /\ \E n : left' = [left EXCEPT ![Tcpip] = n]
      BY <2>2 DEF sys_arch_mbox_fetch, block
    <3>2. \A u \in Thread : pc'[u] = pc[u] /\ left'[u] = left[u]
      BY <1>1, <1>3, <3>1
    <3> QED
      BY <1>2, <3>1, <3>2, NoMail
  <2>3. CASE Fetched
    BY <2>3, MessageFetched
  <2>4. CASE FetchTimedOut
    <3>1. /\ pc[Tcpip] = "fetching" /\ job' = "expired" /\ UNCHANGED <<mbox, sem, pool>>
          /\ pc' = [pc EXCEPT ![Tcpip] = "out"]
          /\ left' = [left EXCEPT ![Tcpip] = 0]
      BY <2>4 DEF FetchTimedOut, resume
    <3>2. \A u \in Thread : pc'[u] = pc[u] /\ left'[u] = left[u]
      BY <1>1, <1>3, <3>1
    <3>3. pc'[Tcpip] = "out" /\ {job, job'} \intersect Message = {}
      BY <1>1, <1>3, <3>1
    <3> QED
      BY <1>2, <3>1, <3>2, <3>3, NoMail
  <2>5. CASE HandleMessage
    BY <2>5, MessageHandled
  <2>6. CASE CheckTimeouts \/ DecideSleep
    BY <1>5, <2>6 DEF CheckTimeouts, DecideSleep, InCore, wait
  <2> QED
    BY <1>8, <2>1, <2>2, <2>3, <2>4, <2>5, <2>6 DEF TcpipStep
<1>9. ASSUME NEW t \in Threads, Lock(t) \/ Unlock(t) PROVE MailType' /\ MailInv'
  <2>1. CASE Lock(t)
    BY <1>4, <2>1 DEF Lock, sys_lock_tcpip_core, wait, Calls
  <2>2. CASE Unlock(t)
    BY <1>4, <2>2 DEF Unlock, sys_unlock_tcpip_core, wait, Calls
  <2> QED
    BY <1>9, <2>1, <2>2
<1>10. ASSUME NEW t \in Thread, ThreadStep(t) \/ ThreadBegins(t) PROVE MailType' /\ MailInv'
  <2>1. CASE sys_mbox_post(t)
    BY <2>1, RequestPosts
  <2>2. CASE sys_arch_sem_wait(t, 0)
    BY <2>2, RequestWaits
  <2>3. CASE WaitEnds(t)
    BY <2>3, RequestEnds
  <2>4. CASE SleepEnds(t)
    BY <1>1, <1>4, <2>4 DEF SleepEnds, resume, Calls
  <2>5. ASSUME NEW ms \in Timeouts, sys_arch_msleep(t, ms) PROVE MailType' /\ MailInv'
    BY <1>1, <1>4, <2>5 DEF sys_arch_msleep, block, Calls
  <2>6. ASSUME NEW ms \in Timeouts, sys_arch_sem_wait(t, ms) PROVE MailType' /\ MailInv'
    BY <2>6, EventWaits
  <2>7. ASSUME NEW m \in Message, sys_mbox_trypost(t, m) PROVE MailType' /\ MailInv'
    <3> DEFINE err == TrypostResult(xQueueSend(m))
    <3>1. err = "ERR_MEM" <=> Full
      BY DEF TrypostResult, xQueueSend
    <3>2. /\ pool[m] = "free" /\ xQueueSendToBack(m) /\ told(m, err)
          /\ UNCHANGED <<sem, pc, left, job>>
      BY <2>7 DEF sys_mbox_trypost, wait
    <3> HIDE DEF err
    <3> QED
      BY <3>1, <3>2, Posted
  <2>8. ASSUME NEW m \in Message, Request(t, m) PROVE MailType' /\ MailInv'
    BY <2>8, RequestBegins
  <2> QED
    BY <1>10, <2>1, <2>2, <2>3, <2>4, <2>5, <2>6, <2>7, <2>8 DEF ThreadStep, ThreadBegins
<1>11. CASE UNCHANGED vars
  BY <1>5, <1>11 DEF vars, wait
<1> QED
  BY <1>6, <1>7, <1>8, <1>9, <1>10, <1>11 DEF Next

LEMMA OwnerInvariance == Spec => []OwnerInv
<1>1. Init => MailType /\ MailInv
  <2> SUFFICES ASSUME Init PROVE MailType /\ MailInv
    OBVIOUS
  <2>1. mbox = <<>> /\ job = "none" /\ sem = {} /\ \A m \in Message : pool[m] = "free"
    BY DEF Init
  <2>2. pc[Tcpip] = "mark" /\ MBOX_SIZE \in Nat /\ "none" \notin Message
        /\ "free" \notin Thread
    BY PortAssumption DEF Init, PortAssumption, Threads
  <2>3. MailType
    BY <2>1, <2>2 DEF Init, MailType
  <2>4. \A m \in Message : ~Queued(m)
    BY <2>1, <2>2 DEF Queued
  <2> QED
    BY <2>1, <2>2, <2>3, <2>4 DEF MailInv
<1>2. OwnerInv /\ [Next]_vars => MailType' /\ MailInv'
  BY MailNext
<1>3. OwnerInv <=> TimeType /\ MailType /\ MailInv
  BY DEF OwnerInv
<1>4. TimeInv => TimeType
  BY DEF TimeInv
<1> QED
  BY <1>1, <1>2, <1>3, <1>4, TimeInvariance, PTL DEF Spec

(* A message has one place at most, none when it is free and one when it   *)
(* was posted, whatever the mailbox answers to trypost from a thread or an *)
(* interrupt, and however requests, answers, stale semaphores and          *)
(* timed-out waits mix.                                                    *)
THEOREM MessagesOwned == Spec => []OneOwner
<1>1. OwnerInv => OneOwner
  <2> SUFFICES ASSUME OwnerInv, NEW m \in Message
               PROVE  LET places == {i \in DOMAIN mbox : mbox[i] = m}
                                    \union (IF job = m THEN {0} ELSE {})
                      IN  /\ Cardinality(places) <= 1
                          /\ pool[m] = "free" => places = {}
                          /\ pool[m] = "posted" => places # {}
    BY DEF OneOwner
  <2> USE DEF OwnerInv, MailType, MailInv
  <2> DEFINE places == {i \in DOMAIN mbox : mbox[i] = m}
                       \union (IF job = m THEN {0} ELSE {})
  <2>1. places # {} <=> Queued(m)
    BY DEF Queued
  <2>2. \A i, j \in places : i = j
    OBVIOUS
  <2>4. Cardinality(places) <= 1
    <3> HIDE DEF places
    <3>1. CASE places = {}
      <4>1. Cardinality(places) = 0
        BY <3>1, FS_EmptySet
      <4> QED
        BY <4>1
    <3>2. CASE places # {}
      <4>1. PICK i : i \in places
        BY <3>2
      <4>2. places = {i}
        BY <2>2, <4>1
      <4>3. Cardinality(places) = 1
        BY <4>2, FS_Singleton
      <4> QED
        BY <4>3
    <3> QED
      BY <3>1, <3>2
  <2>5. /\ pool[m] = "free" => places = {}
        /\ pool[m] = "posted" => places # {}
    <3> HIDE DEF places
    <3> QED
      BY <2>1
  <2> QED
    BY <2>4, <2>5
<1> QED
  BY <1>1, OwnerInvariance, PTL
(* Together the three invariants give the types of the port's state.       *)
THEOREM TypeCorrect == ASSUME NestingFits PROVE Spec => []TypeOK
<1>1. LockInv /\ OwnerInv => TypeOK
  <2> SUFFICES ASSUME LockInv, OwnerInv
               PROVE  TypeOK
    OBVIOUS
  <2>1. \A i \in DOMAIN mbox : mbox[i] \in Message
    BY DEF OwnerInv, MailType
  <2> QED
    BY <2>1 DEF LockInv, LockType, OwnerInv, TimeType, MailType, TypeOK, Calls, Clock, Turn
<1> QED
  BY <1>1, LockInvariance, OwnerInvariance, PTL
-----------------------------------------------------------------------------
(***************************************************************************)
(* Nobody waits for nothing: a wait without a timeout (sys_mbox_post,      *)
(* sys_arch_sem_wait and sys_arch_mbox_fetch with 0) has its end under way.*)
(***************************************************************************)
(* The request of a thread is still to be posted, is in the mailbox or     *)
(* being handled, or has been answered.                                    *)
AnswerFor(t) ==
  /\ pc[t] = "posting" => \E m \in Message : pool[m] = t /\ ~Queued(m)
  /\ pc[t] = "posted" \/ (pc[t] = "waiting" /\ left[t] = Forever)
       => t \in sem \/ \E m \in Message : pool[m] = t /\ Queued(m)

(* A thread that calls into the stack waits for an answer that is coming.  *)
AnswerComes == \A t \in Thread : AnswerFor(t)

(* The TCP/IP thread never sleeps without a timeout over a timer that is   *)
(* set: 0 is "no timer" to sys_timeouts_sleeptime and "for ever" to        *)
(* sys_arch_mbox_fetch, so no timer may be 0 ms away.                      *)
TimerWatched == pc[Tcpip] = "fetching" /\ due # None => left[Tcpip] # Forever

(* From the decision to sleep to the fetch.                                *)
TimerInv ==
  job = "sleep" /\ due # None =>
    IF pc[Tcpip] = "fetching" THEN left[Tcpip] # Forever ELSE sleeptime # 0

WakeInv == OwnerInv /\ AnswerComes /\ TimerInv

(* What happens to others leaves a thread its request or its answer.       *)
LEMMA AnswerKept ==
  ASSUME NEW t \in Thread, AnswerFor(t), pc'[t] = pc[t],
         left'[t] = Forever => left[t] = Forever,
         t \in sem => t \in sem',
         \A m \in Message : pool[m] = t =>
           /\ pool'[m] = t
           /\ Queued(m)' => Queued(m)
           /\ Queued(m) => Queued(m)' \/ t \in sem'
  PROVE  AnswerFor(t)'
<1>1. ASSUME pc[t] = "posting" PROVE \E m \in Message : pool'[m] = t /\ ~Queued(m)'
  <2>1. PICK m \in Message : pool[m] = t /\ ~Queued(m)
    BY <1>1 DEF AnswerFor
  <2> QED BY <2>1
<1>2. ASSUME pc[t] = "posted" \/ (pc[t] = "waiting" /\ left'[t] = Forever)
      PROVE  t \in sem' \/ \E m \in Message : pool'[m] = t /\ Queued(m)'
  <2>1. t \in sem \/ \E m \in Message : pool[m] = t /\ Queued(m)
    BY <1>2 DEF AnswerFor
  <2> QED BY <2>1
<1> QED
  BY <1>1, <1>2 DEF AnswerFor

(* Steps of other threads that move no message are such.                   *)
LEMMA AnswerAside ==
  ASSUME AnswerComes, UNCHANGED <<mbox, sem, pool>>,
         \A m \in Message : Queued(m)' <=> Queued(m),
         \A t \in Thread : \/ pc'[t] = pc[t] /\ (left'[t] = Forever => left[t] = Forever)
                           \/ pc'[t] \notin {"posting", "posted", "waiting"}
                           \/ pc'[t] = "waiting" /\ left'[t] # Forever
  PROVE  AnswerComes'
<1> SUFFICES ASSUME NEW t \in Thread PROVE AnswerFor(t)'
  BY DEF AnswerComes
<1>1. CASE pc'[t] = pc[t] /\ (left'[t] = Forever => left[t] = Forever)
  BY <1>1, AnswerKept DEF AnswerComes
<1>2. CASE pc'[t] \notin {"posting", "posted", "waiting"}
  BY <1>2 DEF AnswerFor
<1>3. CASE pc'[t] = "waiting" /\ left'[t] # Forever
  BY <1>3 DEF AnswerFor
<1> QED
  BY <1>1, <1>2, <1>3

(* A frame posted or refused is nobody's request.                          *)
LEMMA PostedAside ==
  ASSUME OwnerInv, AnswerComes, NEW m \in Message, pool[m] = "free", xQueueSendToBack(m),
         NEW err, told(m, err), UNCHANGED <<sem, pc, left, job>>
  PROVE  AnswerComes'
<1> SUFFICES ASSUME NEW t \in Thread PROVE AnswerFor(t)'
  BY DEF AnswerComes
<1>1. \A n \in Message : n # m => (Queued(n)' <=> Queued(n))
  <2>1. CASE Full
    BY <2>1 DEF xQueueSendToBack, Queued
  <2>2. CASE ~Full
    <3>1. ~Queued(m) /\ job' = job
      BY DEF OwnerInv, MailInv
    <3> QED BY <2>2, <3>1, SendToBack DEF OwnerInv
  <2> QED BY <2>1, <2>2
<1>2. \A n \in Message : pool[n] = t => n # m /\ pool'[n] = t
  <2>1. t # "free"
    BY PortAssumption DEF PortAssumption
  <2> QED BY <2>1 DEF told, OwnerInv, MailType
<1> QED
  BY <1>1, <1>2, AnswerKept DEF AnswerComes

(* Only its own calls move a thread.                                       *)
LEMMA Bystanders ==
  ASSUME OwnerInv, NEW t \in Threads, NEW w, pc' = [pc EXCEPT ![t] = w],
         UNCHANGED left \/ \E n : left' = [left EXCEPT ![t] = n]
  PROVE  /\ pc'[t] = w
         /\ \A u \in Thread : u # t => pc'[u] = pc[u] /\ left'[u] = left[u]
<1>1. \A u \in Thread : u \in Threads
  BY DEF Threads
<1> QED
  BY <1>1 DEF OwnerInv, TimeType

(* A whole number of ticks is not "for ever".                              *)
LEMMA TicksEnd == ASSUME NEW ms \in Clock PROVE Ticks(ms) # Forever
<1>1. ms \div TICK_MS >= 0
  BY Turns, Constants DEF Clock
<1> QED
  BY <1>1 DEF Ticks, Forever

(* The calls of a thread: it asks, posts, waits and is answered.           *)
LEMMA CallAnswers ==
  ASSUME OwnerInv, AnswerComes, NEW t \in Thread, ThreadStep(t) \/ ThreadBegins(t)
  PROVE  AnswerComes'
<1>0. t \in Threads /\ t \notin {"free", "posted"}
  BY PortAssumption DEF Threads, PortAssumption
<1>1. CASE sys_mbox_post(t)
  <2>1. PICK m \in Message : pool[m] = t /\ xQueueSendToBack(m)
    BY <1>1 DEF sys_mbox_post
  <2>2. pc[t] = "posting" /\ ~Full /\ pc' = [pc EXCEPT ![t] = "posted"]
        /\ UNCHANGED <<sem, pool, job, left>>
    BY <1>1 DEF sys_mbox_post, wait
  <2>3. ~Queued(m)
    <3>1. RequestInv(m, t)
      BY <2>1 DEF OwnerInv, MailInv
    <3> QED BY <2>2, <3>1 DEF RequestInv
  <2>4. \A n \in Message : Queued(n)' <=> Queued(n) \/ n = m
    BY <2>1, <2>2, <2>3, SendToBack DEF OwnerInv
  <2>5. AnswerFor(t)'
    <3>1. pc'[t] = "posted" /\ pool'[m] = t /\ Queued(m)'
      BY <1>0, <2>1, <2>2, <2>4, Bystanders
    <3> QED BY <3>1 DEF AnswerFor
  <2>6. ASSUME NEW u \in Thread, u # t PROVE AnswerFor(u)'
    <3>1. pc'[u] = pc[u] /\ left'[u] = left[u]
      BY <1>0, <2>2, <2>6, Bystanders
    <3>2. \A n \in Message : pool[n] = u => n # m /\ pool'[n] = u
      BY <2>1, <2>2, <2>6
    <3>3. AnswerFor(u) /\ sem' = sem
      BY <2>2 DEF AnswerComes
    <3> QED BY <2>4, <3>1, <3>2, <3>3, AnswerKept
  <2> QED BY <2>5, <2>6 DEF AnswerComes
<1>2. CASE sys_arch_sem_wait(t, 0)
  <2>1. /\ pc[t] = "posted" /\ pc' = [pc EXCEPT ![t] = "waiting"]
        /\ left' = [left EXCEPT ![t] = Forever]
        /\ UNCHANGED <<mbox, sem, pool, job>>
    BY <1>2 DEF sys_arch_sem_wait, block, TimeoutTicks
  <2>2. \A m \in Message : Queued(m)' <=> Queued(m)
    BY <2>1 DEF Queued
  <2>3. AnswerFor(t)'
    <3>1. t \in sem \/ \E m \in Message : pool[m] = t /\ Queued(m)
      BY <2>1 DEF AnswerComes, AnswerFor
    <3>2. pc'[t] = "waiting"
      BY <1>0, <2>1, Bystanders
    <3> QED BY <2>1, <2>2, <3>1, <3>2 DEF AnswerFor
  <2>4. ASSUME NEW u \in Thread, u # t PROVE AnswerFor(u)'
    <3>1. pc'[u] = pc[u] /\ left'[u] = left[u]
      BY <1>0, <2>1, <2>4, Bystanders
    <3> QED BY <2>1, <2>2, <3>1, AnswerKept DEF AnswerComes
  <2> QED BY <2>3, <2>4 DEF AnswerComes
<1>3. CASE WaitEnds(t)
  <2>1. /\ sem' = sem \ {t}
        /\ pool' = [m \in Message |-> IF pool[m] = t THEN "free" ELSE pool[m]]
        /\ pc' = [pc EXCEPT ![t] = "out"] /\ left' = [left EXCEPT ![t] = 0]
        /\ UNCHANGED <<mbox, job>>
    BY <1>3 DEF WaitEnds, resume
  <2>2. \A m \in Message : Queued(m)' <=> Queued(m)
    BY <2>1 DEF Queued
  <2>3. AnswerFor(t)'
    <3>1. pc'[t] = "out"
      BY <1>0, <2>1 DEF OwnerInv, TimeType
    <3> QED BY <3>1 DEF AnswerFor
  <2>4. ASSUME NEW u \in Thread, u # t PROVE AnswerFor(u)'
    <3>1. pc'[u] = pc[u] /\ left'[u] = left[u]
      BY <1>0, <2>1, <2>4, Bystanders
    <3>2. (u \in sem => u \in sem') /\ \A m \in Message : pool[m] = u => pool'[m] = u
      BY <2>1, <2>4
    <3> QED BY <2>2, <3>1, <3>2, AnswerKept DEF AnswerComes
  <2> QED BY <2>3, <2>4 DEF AnswerComes
<1>4. CASE SleepEnds(t) \/ \E ms \in Timeouts : sys_arch_msleep(t, ms)
  <2>1. /\ \E w \in {"out", "sleeping"} : pc' = [pc EXCEPT ![t] = w]
        /\ \E n : left' = [left EXCEPT ![t] = n]
        /\ UNCHANGED <<mbox, sem, pool, job>>
    BY <1>4 DEF SleepEnds, sys_arch_msleep, resume, block
  <2>2. \A m \in Message : Queued(m)' <=> Queued(m)
    BY <2>1 DEF Queued
  <2>3. /\ pc'[t] \in {"out", "sleeping"}
        /\ \A u \in Thread : u # t => pc'[u] = pc[u] /\ left'[u] = left[u]
    BY <1>0, <2>1, Bystanders
  <2> QED BY <2>1, <2>2, <2>3, AnswerAside
<1>5. ASSUME NEW ms \in Timeouts, sys_arch_sem_wait(t, ms) PROVE AnswerComes'
  <2>1. ms # 0 /\ ms \in Clock
    BY Constants
  <2>2. /\ pc' = [pc EXCEPT ![t] = "waiting"] /\ left' = [left EXCEPT ![t] = Ticks(ms)]
        /\ UNCHANGED <<mbox, sem, pool, job>>
    BY <1>5, <2>1 DEF sys_arch_sem_wait, block, TimeoutTicks
  <2>3. \A m \in Message : Queued(m)' <=> Queued(m)
    BY <2>2 DEF Queued
  <2>4. /\ pc'[t] = "waiting" /\ left'[t] # Forever
        /\ \A u \in Thread : u # t => pc'[u] = pc[u] /\ left'[u] = left[u]
    <3>1. left'[t] = Ticks(ms)
      BY <1>0, <2>2 DEF OwnerInv, TimeType
    <3> QED BY <1>0, <2>1, <2>2, <3>1, Bystanders, TicksEnd
  <2> QED BY <2>2, <2>3, <2>4, AnswerAside
<1>6. ASSUME NEW m \in Message, Request(t, m) PROVE AnswerComes'
  <2>1. /\ pc[t] = "out" /\ pool[m] = "free" /\ pool' = [pool EXCEPT ![m] = t]
        /\ pc' = [pc EXCEPT ![t] = "posting"] /\ UNCHANGED <<mbox, sem, job, left>>
    BY <1>6 DEF Request, wait
  <2>2. \A n \in Message : Queued(n)' <=> Queued(n)
    BY <2>1 DEF Queued
  <2>3. AnswerFor(t)'
    <3>1. pc'[t] = "posting" /\ pool'[m] = t /\ ~Queued(m)'
      BY <1>0, <2>1, <2>2, Bystanders DEF OwnerInv, MailType, MailInv
    <3> QED BY <3>1 DEF AnswerFor
  <2>4. ASSUME NEW u \in Thread, u # t PROVE AnswerFor(u)'
    <3>1. pc'[u] = pc[u] /\ left'[u] = left[u]
      BY <1>0, <2>1, <2>4, Bystanders
    <3>2. u # "free"
      BY PortAssumption DEF PortAssumption
    <3>3. \A n \in Message : pool[n] = u => pool'[n] = u
      BY <2>1, <3>2 DEF OwnerInv, MailType
    <3> QED BY <2>1, <2>2, <3>1, <3>3, AnswerKept DEF AnswerComes
  <2> QED BY <2>3, <2>4 DEF AnswerComes
<1>7. ASSUME NEW m \in Message, sys_mbox_trypost(t, m) PROVE AnswerComes'
  <2> DEFINE err == TrypostResult(xQueueSend(m))
  <2>1. /\ pool[m] = "free" /\ xQueueSendToBack(m) /\ told(m, err)
        /\ UNCHANGED <<sem, pc, left, job>>
    BY <1>7 DEF sys_mbox_trypost, wait
  <2> HIDE DEF err
  <2> QED BY <2>1, PostedAside
<1> QED
  BY <1>1, <1>2, <1>3, <1>4, <1>5, <1>6, <1>7 DEF ThreadStep, ThreadBegins(* The TCP/IP thread answers requests and frees frames.                    *)
LEMMA HandlingAnswers ==
  ASSUME OwnerInv, AnswerComes, HandleMessage
  PROVE  AnswerComes'
<1> SUFFICES ASSUME NEW t \in Thread PROVE AnswerFor(t)'
  BY DEF AnswerComes
<1>1. PICK m \in Message :
        /\ InCore(m)
        /\ IF pool[m] \in Thread
             THEN sys_sem_signal(pool[m]) /\ UNCHANGED pool
             ELSE /\ pool' = [pool EXCEPT ![m] = "free"]
                  /\ \/ UNCHANGED sem
                     \/ \E u \in Thread : /\ pc[u] = "waiting" /\ left[u] # Forever
                                        /\ sys_sem_signal(u)
  BY DEF HandleMessage
<1>2. job' = "none" /\ UNCHANGED <<mbox, pc, left>> /\ job = m
  BY <1>1 DEF HandleMessage, wait, InCore
<1>3. "none" \notin Message
  BY PortAssumption DEF PortAssumption
<1>4. \A n \in Message : Queued(n)' <=> Queued(n) /\ n # m
  BY <1>2, <1>3 DEF Queued, OwnerInv, MailInv
<1>5. t \in sem => t \in sem'
  BY <1>1 DEF sys_sem_signal
<1>6. \A n \in Message : pool[n] = t => pool'[n] = t /\ (n = m => t \in sem')
  <2>1. CASE pool[m] \in Thread
    BY <1>1, <2>1 DEF sys_sem_signal
  <2>2. CASE pool[m] \notin Thread
    BY <1>1, <2>2 DEF OwnerInv, MailType
  <2> QED BY <2>1, <2>2
<1>7. \A n \in Message : pool[n] = t =>
        /\ pool'[n] = t
        /\ Queued(n)' => Queued(n)
        /\ Queued(n) => Queued(n)' \/ t \in sem'
  BY <1>4, <1>6
<1> QED
  BY <1>2, <1>5, <1>7, AnswerKept DEF AnswerComes

(* So do its other steps, the clock and the interrupt.                     *)
LEMMA AnswerNext == OwnerInv /\ AnswerComes /\ [Next]_vars => AnswerComes'
<1> SUFFICES ASSUME OwnerInv, AnswerComes, [Next]_vars PROVE AnswerComes'
  OBVIOUS
<1>1. /\ Tcpip \in Threads /\ Tcpip \notin Thread /\ \A t \in Thread : t \in Threads
      /\ {"none", "sleep", "expired"} \intersect Message = {}
  BY PortAssumption DEF Threads, PortAssumption
<1>2. ASSUME UNCHANGED <<mbox, sem, pool>>, \A m \in Message : job' = m <=> job = m,
             \A t \in Thread : pc'[t] = pc[t] /\ left'[t] = left[t]
      PROVE  AnswerComes'
  <2>1. \A m \in Message : Queued(m)' <=> Queued(m)
    BY <1>2 DEF Queued
  <2> QED BY <1>2, <2>1, AnswerAside
<1>3. CASE Tick
  <2>1. UNCHANGED <<mbox, sem, pool, job, pc>>
    BY <1>3 DEF Tick
  <2>2. \A t \in Thread : left'[t] = Forever => left[t] = Forever
    BY <1>1, <1>3, Turns DEF Tick, Forever, OwnerInv, TimeType, Clock
  <2>3. \A m \in Message : Queued(m)' <=> Queued(m)
    BY <2>1 DEF Queued
  <2> QED BY <2>1, <2>2, <2>3, AnswerAside
<1>4. CASE sys_mark_tcpip_thread \/ sys_arch_mbox_fetch \/ FetchTimedOut
  <2>1. /\ UNCHANGED <<mbox, sem, pool>>
        /\ \E w : pc' = [pc EXCEPT ![Tcpip] = w]
        /\ UNCHANGED left \/ \E n : left' = [left EXCEPT ![Tcpip] = n]
        /\ job' = job \/ (pc[Tcpip] = "fetching" /\ job' = "expired")
    BY <1>4 DEF sys_mark_tcpip_thread, sys_arch_mbox_fetch, FetchTimedOut, block, resume, wait
  <2>2. \A t \in Thread : pc'[t] = pc[t] /\ left'[t] = left[t]
    BY <1>1, <2>1, Bystanders
  <2>3. \A m \in Message : job' = m <=> job = m
    BY <1>1, <2>1 DEF OwnerInv, MailInv
  <2> QED BY <1>2, <2>1, <2>2, <2>3
<1>5. CASE Fetched
  <2>1. /\ pc[Tcpip] = "fetching" /\ mbox # <<>> /\ job' = Head(mbox) /\ mbox' = Tail(mbox)
        /\ pc' = [pc EXCEPT ![Tcpip] = "out"] /\ left' = [left EXCEPT ![Tcpip] = 0]
        /\ UNCHANGED <<sem, pool>>
    BY <1>5 DEF Fetched, resume
  <2>2. job \notin Message
    BY <1>1, <2>1 DEF OwnerInv, MailInv
  <2>3. \A n \in Message : Queued(n)' <=> Queued(n)
    BY <2>1, <2>2, FetchHead DEF OwnerInv
  <2>4. \A t \in Thread : pc'[t] = pc[t] /\ left'[t] = left[t]
    BY <1>1, <2>1, Bystanders
  <2>5. ASSUME NEW t \in Thread PROVE AnswerFor(t)'
    BY <2>1, <2>3, <2>4, AnswerKept DEF AnswerComes
  <2> QED BY <2>5 DEF AnswerComes
<1>6. CASE CheckTimeouts \/ DecideSleep
  BY <1>1, <1>2, <1>6 DEF CheckTimeouts, DecideSleep, InCore, wait
<1>7. ASSUME NEW t \in Threads, Lock(t) \/ Unlock(t) PROVE AnswerComes'
  <2>1. /\ UNCHANGED <<mbox, sem, pool, job, left>>
        /\ \E w \in {"enter", "in", "leave", "out"} : pc' = [pc EXCEPT ![t] = w]
    BY <1>7 DEF Lock, Unlock, sys_lock_tcpip_core, sys_unlock_tcpip_core, wait
  <2>2. \A m \in Message : Queued(m)' <=> Queued(m)
    BY <2>1 DEF Queued
  <2>3. /\ pc'[t] \in {"enter", "in", "leave", "out"}
        /\ \A u \in Thread : u # t => pc'[u] = pc[u] /\ left'[u] = left[u]
    BY <2>1, Bystanders
  <2>4. \A u \in Thread : \/ pc'[u] = pc[u] /\ (left'[u] = Forever => left[u] = Forever)
                          \/ pc'[u] \notin {"posting", "posted", "waiting"}
    BY <2>3
  <2> QED BY <2>1, <2>2, <2>4, AnswerAside
<1>8. ASSUME NEW m \in Message, sys_mbox_trypost_fromisr(m) PROVE AnswerComes'
  <2> DEFINE err == TrypostFromIsrResult(xQueueSend(m), pc[Tcpip] = "fetching" /\ mbox = <<>>)
  <2>1. /\ pool[m] = "free" /\ xQueueSendToBack(m) /\ told(m, err)
        /\ UNCHANGED <<sem, pc, left, job>>
    BY <1>8 DEF sys_mbox_trypost_fromisr, wait
  <2> HIDE DEF err
  <2> QED BY <2>1, PostedAside
<1>9. CASE UNCHANGED vars
  BY <1>2, <1>9 DEF vars, wait
<1> QED
  BY <1>3, <1>4, <1>5, <1>6, <1>7, <1>8, <1>9, HandlingAnswers, CallAnswers DEF Next, TcpipStep

(* What the TCP/IP thread does not see leaves its sleep as it is.          *)
LEMMA TimerKept ==
  ASSUME TimerInv, UNCHANGED <<job, due, sleeptime>>,
         pc'[Tcpip] = "fetching" <=> pc[Tcpip] = "fetching",
         left'[Tcpip] = Forever => left[Tcpip] = Forever
  PROVE  TimerInv'
  BY DEF TimerInv

LEMMA TimerNext == OwnerInv /\ TimerInv /\ [Next]_vars => TimerInv'
<1> SUFFICES ASSUME OwnerInv, TimerInv, [Next]_vars PROVE TimerInv'
  OBVIOUS
<1>1. /\ Tcpip \in Threads /\ Tcpip \notin Thread /\ \A t \in Thread : t \in Threads
      /\ "sleep" \notin Message
  BY PortAssumption DEF Threads, PortAssumption
<1>2. /\ pc \in [Threads -> Calls] /\ left \in [Threads -> {Forever} \union Clock]
      /\ sleeptime \in Clock
  BY DEF OwnerInv, TimeType
<1>3. ASSUME NEW t \in Threads, t # Tcpip, UNCHANGED <<job, due, sleeptime>>,
             UNCHANGED pc \/ \E w : pc' = [pc EXCEPT ![t] = w],
             UNCHANGED left \/ \E n : left' = [left EXCEPT ![t] = n]
      PROVE  TimerInv'
  <2>1. pc'[Tcpip] = pc[Tcpip] /\ left'[Tcpip] = left[Tcpip]
    BY <1>1, <1>2, <1>3
  <2> QED BY <1>3, <2>1, TimerKept
<1>4. CASE Tick
  <2>1. left'[Tcpip] = Forever => left[Tcpip] = Forever
    BY <1>1, <1>2, <1>4, Turns DEF Tick, Forever, Clock
  <2>2. UNCHANGED <<job, due, sleeptime, pc>>
    BY <1>4 DEF Tick
  <2> QED BY <2>1, <2>2, TimerKept
<1>5. CASE sys_mark_tcpip_thread
  <2>1. /\ pc[Tcpip] = "mark" /\ pc'[Tcpip] = "out"
        /\ UNCHANGED <<job, due, sleeptime, left>>
    BY <1>1, <1>2, <1>5 DEF sys_mark_tcpip_thread, wait
  <2> QED BY <2>1, TimerKept
<1>6. CASE sys_arch_mbox_fetch
  <2>1. /\ pc[Tcpip] = "out" /\ job = "sleep" /\ UNCHANGED due
        /\ pc'[Tcpip] = "fetching" /\ left'[Tcpip] = TimeoutTicks(sleeptime)
    BY <1>1, <1>2, <1>6 DEF sys_arch_mbox_fetch, block
  <2>2. due # None => sleeptime # 0
    BY <2>1 DEF TimerInv
  <2>3. sleeptime # 0 => TimeoutTicks(sleeptime) # Forever
    BY <1>2, TicksEnd DEF TimeoutTicks
  <2> QED BY <2>1, <2>2, <2>3 DEF TimerInv
<1>7. CASE Fetched
  <2>1. job' \in Message
    BY <1>7 DEF Fetched, OwnerInv, MailType
  <2> QED BY <1>1, <2>1 DEF TimerInv
<1>8. CASE FetchTimedOut \/ HandleMessage \/ CheckTimeouts
  BY <1>8 DEF FetchTimedOut, HandleMessage, CheckTimeouts, TimerInv
<1>9. CASE DecideSleep
  <2>1. /\ pc'[Tcpip] = "in" /\ UNCHANGED due
        /\ due # None => sleeptime' = Signed(due - sys_now) /\ ~(Signed(due - sys_now) <= 0)
    BY <1>9 DEF DecideSleep, InCore, Reached
  <2> QED BY <2>1 DEF TimerInv
<1>10. ASSUME NEW t \in Threads, Lock(t) \/ Unlock(t) PROVE TimerInv'
  <2>1. /\ UNCHANGED <<job, due, sleeptime, left>>
        /\ pc[t] \in {"enter", "in", "leave", "out"}
        /\ \E w \in {"enter", "in", "leave", "out"} : pc' = [pc EXCEPT ![t] = w]
    BY <1>10 DEF Lock, Unlock, sys_lock_tcpip_core, sys_unlock_tcpip_core, wait
  <2>2. pc'[Tcpip] = "fetching" <=> pc[Tcpip] = "fetching"
    BY <1>1, <1>2, <2>1
  <2> QED BY <2>1, <2>2, TimerKept
<1>11. ASSUME NEW t \in Thread, ThreadStep(t) \/ ThreadBegins(t) PROVE TimerInv'
  <2>1. /\ UNCHANGED <<job, due, sleeptime>>
        /\ UNCHANGED pc \/ \E w : pc' = [pc EXCEPT ![t] = w]
        /\ UNCHANGED left \/ \E n : left' = [left EXCEPT ![t] = n]
    BY <1>11, Zenon DEF ThreadStep, ThreadBegins, sys_mbox_post, sys_arch_sem_wait, WaitEnds, SleepEnds,
       sys_arch_msleep, sys_mbox_trypost, Request, block, resume, wait
  <2> QED BY <1>1, <1>3, <2>1
<1>12. CASE UNCHANGED vars \/ \E m \in Message : sys_mbox_trypost_fromisr(m)
  <2>1. UNCHANGED <<job, due, sleeptime, pc, left>>
    BY <1>12 DEF vars, wait, sys_mbox_trypost_fromisr
  <2> QED BY <2>1, TimerKept
<1> QED
  BY <1>4, <1>5, <1>6, <1>7, <1>8, <1>9, <1>10, <1>11, <1>12 DEF Next, TcpipStep

LEMMA WakeInvariance == Spec => []WakeInv
<1>1. Init => AnswerComes /\ TimerInv
  <2> SUFFICES ASSUME Init PROVE AnswerComes /\ TimerInv
    OBVIOUS
  <2>1. \A t \in Thread : pc[t] = "out"
    BY PortAssumption DEF Init, Threads, PortAssumption
  <2>2. job = "none"
    BY DEF Init
  <2> QED BY <2>1, <2>2 DEF AnswerComes, AnswerFor, TimerInv
<1>2. WakeInv <=> OwnerInv /\ AnswerComes /\ TimerInv
  BY DEF WakeInv
<1> QED
  BY <1>1, <1>2, AnswerNext, TimerNext, OwnerInvariance, PTL DEF Spec

(* A thread that waits without a timeout for its request to be handled     *)
(* (sys_arch_sem_wait) has it in the mailbox, with the TCP/IP thread, or   *)
(* answered: whatever other waits took or were given of its semaphore.     *)
THEOREM CallersNeverWaitInVain == Spec => []AnswerComes
<1>1. WakeInv => AnswerComes
  BY DEF WakeInv
<1> QED
  BY <1>1, WakeInvariance, PTL

(* The TCP/IP thread never fetches for ever while a timer is set, whatever *)
(* time passes between its decision to sleep and sys_arch_mbox_fetch.      *)
THEOREM TimersAreWatched == Spec => []TimerWatched
<1>1. WakeInv => TimerWatched
  BY DEF WakeInv, TimerInv, TimerWatched, OwnerInv, MailInv
<1> QED
  BY <1>1, WakeInvariance, PTL
=============================================================================
