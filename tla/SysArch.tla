------------------------------- MODULE SysArch -------------------------------
(***************************************************************************)
(* The lwIP port: sys_arch.c, which gives the stack its mailboxes,         *)
(* semaphores, timeouts, clock and core lock on top of FreeRTOS.           *)
(*                                                                         *)
(* The stack is not in the repository.  Its two sides are here as the      *)
(* callers sys_arch.c is written for: application threads, which post      *)
(* messages, wait on their semaphore, sleep and take the core lock, and    *)
(* the TCP/IP thread, which fetches messages with a timeout and handles    *)
(* them and its timers under the core lock.                                *)
(*                                                                         *)
(* The check of the core lock needs a build that maps LOCK_TCPIP_CORE and  *)
(* LWIP_MARK_TCPIP_THREAD to this port (sys_arch.c:83).  lwipopts.h maps   *)
(* LWIP_ASSERT_CORE_LOCKED alone.  wired says which build it is: FALSE is  *)
(* the firmware as it is, TRUE what the port is written for.               *)
(***************************************************************************)
EXTENDS Integers, SequencesExt

CONSTANTS
  Thread,         \* application threads
  Tcpip,          \* the TCP/IP thread
  None,           \* a null handle, no message, no timer
  Message,        \* the messages of the stack's pool
  MBOX_SIZE,      \* TCPIP_MBOX_SIZE
  TICK_MS,        \* portTICK_PERIOD_MS
  WIDTH,          \* bits of u32_t and TickType_t
  Timeouts,       \* the timeouts asked for, in ms
  MaxNest,        \* bound: nested core locks of a thread
  MaxLag          \* bound: ms a thread that is due may be kept from running

Threads == Thread \union {Tcpip}

ASSUME PortAssumption ==
  /\ Tcpip \notin Thread /\ None \notin Threads \union Message
  /\ Thread \intersect {"free", "posted"} = {}
  /\ Message \intersect {"none", "sleep", "expired"} = {}
  /\ {MBOX_SIZE, TICK_MS, WIDTH, MaxNest} \subseteq Nat \ {0}
  /\ Timeouts \subseteq Nat \ {0} /\ MaxLag \in Nat
  /\ \A ms \in Timeouts \union {0} : ms + MaxLag + TICK_MS < 2^(WIDTH - 1)
  /\ 2^WIDTH = 2 * 2^(WIDTH - 1)  \* arithmetic that a proof has to be told

VARIABLES
  wired,      \* LOCK_TCPIP_CORE and LWIP_MARK_TCPIP_THREAD map to this port
  tick,       \* the kernel's tick count
  mutex,      \* lock_tcpip_core, a recursive mutex: its owner and depth
  holder,     \* lwip_core_lock_holder_thread
  count,      \* lwip_core_lock_count
  marked,     \* lwip_tcpip_thread is set
  mbox,       \* the mailbox of the TCP/IP thread
  sem,        \* the threads whose binary semaphore is given
  pool,       \* who owns each message: nobody, the stack, the thread asking
  pc,         \* the call a thread is in
  left,       \* ticks a blocked thread has left; Forever without a timeout
  goal,       \* history: the time at which a timeout asked for is over
  job,        \* what the TCP/IP thread fetched, or is about to do
  sleeptime,  \* sys_timeouts_sleeptime: ms until the next timer, 0 without one
  due         \* the stack's next timer

lock == <<mutex, holder, count>>
wait == <<left, goal>>
vars == <<wired, tick, lock, marked, mbox, sem, pool, pc, wait, job, sleeptime, due>>

Forever == -1
Wrap(n) == n % 2^WIDTH
\* The distance of two points of the wrapped clock.
Signed(n) == LET r == Wrap(n) IN IF r < 2^(WIDTH - 1) THEN r ELSE r - 2^WIDTH

TypeOK ==
  /\ wired \in BOOLEAN /\ marked \in BOOLEAN
  /\ tick \in 0 .. 2^WIDTH - 1
  /\ mutex \in [owner : Threads \union {None}, depth : 0 .. MaxNest]
  /\ holder \in Threads \union {None} /\ count \in 0 .. MaxNest
  /\ Len(mbox) <= MBOX_SIZE /\ \A i \in DOMAIN mbox : mbox[i] \in Message
  /\ sem \subseteq Thread
  /\ pool \in [Message -> {"free", "posted"} \union Thread]
  /\ pc \in [Threads -> {"mark", "out", "enter", "in", "leave", "posting",
                         "posted", "waiting", "sleeping", "fetching"}]
  /\ left \in [Threads -> {Forever} \union 0 .. 2^WIDTH - 1]
  /\ goal \in [Threads -> 0 .. 2^WIDTH - 1]
  /\ job \in Message \union {"none", "sleep", "expired"}
  /\ sleeptime \in 0 .. 2^WIDTH - 1 /\ due \in {None} \union 0 .. 2^WIDTH - 1

Init ==
  /\ wired \in BOOLEAN /\ marked = FALSE /\ tick = 0
  /\ mutex = [owner |-> None, depth |-> 0] /\ holder = None /\ count = 0
  /\ mbox = <<>> /\ sem = {} /\ pool = [m \in Message |-> "free"]
  /\ pc = [t \in Threads |-> IF t = Tcpip THEN "mark" ELSE "out"]
  /\ left = [t \in Threads |-> 0] /\ goal = [t \in Threads |-> 0]
  /\ job = "none" /\ sleeptime = 0 /\ due = None

(***************************************************************************)
(* Time.                                                                   *)
(***************************************************************************)
\* Mistake: the tick count is scaled to seconds before it is divided.
nowOverflows == Wrap(tick * TICK_MS * 4) \div 4

sys_now == Wrap(tick * TICK_MS)
Ticks(timeout_ms) == timeout_ms \div TICK_MS

\* Mistake: the ticks, not the milliseconds, are compared with zero.
zeroTicksIsForever(timeout_ms) == IF Ticks(timeout_ms) = 0 THEN Forever ELSE Ticks(timeout_ms)

\* A call that waits: 0 is for ever, anything else is rounded down to ticks.
TimeoutTicks(timeout_ms) == IF timeout_ms = 0 THEN Forever ELSE Ticks(timeout_ms)

block(t, where, timeout_ms, ticks) ==
  /\ pc' = [pc EXCEPT ![t] = where]
  /\ left' = [left EXCEPT ![t] = ticks]
  /\ goal' = [goal EXCEPT ![t] = Wrap(sys_now + timeout_ms)]

resume(t) ==
  /\ pc' = [pc EXCEPT ![t] = "out"]
  /\ left' = [left EXCEPT ![t] = 0] /\ goal' = [goal EXCEPT ![t] = 0]

Blocked(t) == pc[t] \in {"waiting", "sleeping", "fetching"}
InTime(when) == Signed(when - sys_now) > TICK_MS - MaxLag

\* The tick interrupt.  It waits for threads that are MaxLag behind.
Tick ==
  /\ \A t \in Threads : Blocked(t) /\ left[t] = 0 => InTime(goal[t])
  /\ due # None /\ ~Blocked(Tcpip) => InTime(due)
  /\ tick' = Wrap(tick + 1)
  /\ left' = [t \in Threads |-> IF left[t] > 0 THEN left[t] - 1 ELSE left[t]]
  /\ UNCHANGED <<wired, lock, marked, mbox, sem, pool, pc, goal, job, sleeptime, due>>

sys_arch_msleep(t, delay_ms) ==
  /\ pc[t] = "out"
  /\ block(t, "sleeping", delay_ms, Ticks(delay_ms))
  /\ UNCHANGED <<wired, tick, lock, marked, mbox, sem, pool, job, sleeptime, due>>

SleepEnds(t) ==
  /\ pc[t] = "sleeping" /\ left[t] = 0 /\ resume(t)
  /\ UNCHANGED <<wired, tick, lock, marked, mbox, sem, pool, job, sleeptime, due>>

(***************************************************************************)
(* The core lock.  The mutex and the two variables that describe it are    *)
(* taken and given back in steps another thread can see between.           *)
(***************************************************************************)
sys_mutex_lock(t) ==
  /\ mutex.owner \in {None, t} /\ mutex.depth < MaxNest
  /\ mutex' = [owner |-> t, depth |-> mutex.depth + 1]

sys_mutex_unlock(t) ==
  mutex' = [owner |-> IF mutex.depth = 1 THEN None ELSE t, depth |-> mutex.depth - 1]

sys_lock_tcpip_core(t) ==
  \/ /\ pc[t] \in {"out", "in"} /\ sys_mutex_lock(t)
     /\ pc' = [pc EXCEPT ![t] = "enter"]
     /\ UNCHANGED <<holder, count>>
  \/ /\ pc[t] = "enter"
     /\ IF wired THEN /\ holder' = IF count = 0 THEN t ELSE holder
                      /\ count' = (count + 1) % 256
                 ELSE UNCHANGED <<holder, count>>
     /\ pc' = [pc EXCEPT ![t] = "in"]
     /\ UNCHANGED mutex

\* Mistake: the mutex is given before the two variables are cleared.
unlockGivesFirst(t) ==
  \/ /\ pc[t] = "in" /\ sys_mutex_unlock(t)
     /\ pc' = [pc EXCEPT ![t] = "leave"]
     /\ UNCHANGED <<holder, count>>
  \/ /\ pc[t] = "leave"
     /\ IF wired THEN /\ count' = (count - 1) % 256
                      /\ holder' = IF count = 1 THEN None ELSE holder
                 ELSE UNCHANGED <<holder, count>>
     /\ pc' = [pc EXCEPT ![t] = IF mutex.owner = t THEN "in" ELSE "out"]
     /\ UNCHANGED mutex

sys_unlock_tcpip_core(t) ==
  \/ /\ pc[t] = "in"
     /\ IF wired THEN /\ count' = (count - 1) % 256
                      /\ holder' = IF count = 1 THEN None ELSE holder
                 ELSE UNCHANGED <<holder, count>>
     /\ pc' = [pc EXCEPT ![t] = "leave"]
     /\ UNCHANGED mutex
  \/ /\ pc[t] = "leave" /\ sys_mutex_unlock(t)
     /\ pc' = [pc EXCEPT ![t] = IF mutex.depth = 1 THEN "out" ELSE "in"]
     /\ UNCHANGED <<holder, count>>

\* What sys_check_core_locking lets thread t do.
sys_check_core_locking(t) == marked => holder = t /\ count > 0

sys_mark_tcpip_thread ==
  /\ pc[Tcpip] = "mark"
  /\ marked' = wired
  /\ pc' = [pc EXCEPT ![Tcpip] = "out"]
  /\ UNCHANGED <<wired, tick, lock, mbox, sem, pool, wait, job, sleeptime, due>>

Lock(t) ==
  /\ t = Tcpip => job \in Message \union {"none", "expired"} /\ pc[t] # "in"
  /\ sys_lock_tcpip_core(t)
  /\ UNCHANGED <<wired, tick, marked, mbox, sem, pool, wait, job, sleeptime, due>>

Unlock(t) ==
  /\ t = Tcpip => job = "sleep"
  /\ sys_unlock_tcpip_core(t)
  /\ UNCHANGED <<wired, tick, marked, mbox, sem, pool, wait, job, sleeptime, due>>

(***************************************************************************)
(* The mailbox.  A message has one owner: a caller that is told it was     *)
(* posted forgets it, one that is told ERR_MEM frees it.                   *)
(***************************************************************************)
Full == Len(mbox) = MBOX_SIZE

xQueueSendToBack(m) == mbox' = IF Full THEN mbox ELSE Append(mbox, m)
xQueueSend(m) == IF Full THEN "errQUEUE_FULL" ELSE "pdTRUE"

TrypostResult(ret) == IF ret = "pdTRUE" THEN "ERR_OK" ELSE "ERR_MEM"

\* Mistake: the answer that asks for a task switch is a refusal to its caller.
needSchedIsError(ret, woken) == IF ret # "pdTRUE" \/ woken THEN "ERR_MEM" ELSE "ERR_OK"

TrypostFromIsrResult(ret, woken) ==
  IF ret # "pdTRUE" THEN "ERR_MEM" ELSE IF woken THEN "ERR_NEED_SCHED" ELSE "ERR_OK"

\* What the caller makes of the answer.
told(m, err) ==
  pool' = [pool EXCEPT ![m] = IF err = "ERR_MEM" THEN "free" ELSE "posted"]

\* tcpip_inpkt: the Ethernet input thread hands over a frame or frees it.
sys_mbox_trypost(t, m) ==
  /\ pc[t] = "out" /\ pool[m] = "free"
  /\ xQueueSendToBack(m) /\ told(m, TrypostResult(xQueueSend(m)))
  /\ UNCHANGED <<wired, tick, lock, marked, sem, pc, wait, job, sleeptime, due>>

sys_mbox_trypost_fromisr(m) ==
  /\ pool[m] = "free"
  /\ xQueueSendToBack(m)
  /\ told(m, TrypostFromIsrResult(xQueueSend(m), pc[Tcpip] = "fetching" /\ mbox = <<>>))
  /\ UNCHANGED <<wired, tick, lock, marked, sem, pc, wait, job, sleeptime, due>>

\* A request: post, for ever if the mailbox is full, then wait for the answer.
Request(t, m) ==
  /\ pc[t] = "out" /\ pool[m] = "free"
  /\ pool' = [pool EXCEPT ![m] = t]
  /\ pc' = [pc EXCEPT ![t] = "posting"]
  /\ UNCHANGED <<wired, tick, lock, marked, mbox, sem, wait, job, sleeptime, due>>

sys_mbox_post(t) ==
  /\ pc[t] = "posting" /\ ~Full
  /\ \E m \in Message : pool[m] = t /\ xQueueSendToBack(m)
  /\ pc' = [pc EXCEPT ![t] = "posted"]
  /\ UNCHANGED <<wired, tick, lock, marked, sem, pool, wait, job, sleeptime, due>>

\* The TCP/IP thread, with the core unlocked, for as long as it
\* found before it unlocked.
sys_arch_mbox_fetch ==
  /\ pc[Tcpip] = "out" /\ job = "sleep"
  /\ block(Tcpip, "fetching", sleeptime, TimeoutTicks(sleeptime))
  /\ sleeptime' = 0
  /\ UNCHANGED <<wired, tick, lock, marked, mbox, sem, pool, job, due>>

Fetched ==
  /\ pc[Tcpip] = "fetching" /\ mbox # <<>>
  /\ job' = Head(mbox) /\ mbox' = Tail(mbox) /\ resume(Tcpip)
  /\ UNCHANGED <<wired, tick, lock, marked, sem, pool, sleeptime, due>>

FetchTimedOut ==
  /\ pc[Tcpip] = "fetching" /\ mbox = <<>> /\ left[Tcpip] = 0
  /\ job' = "expired" /\ resume(Tcpip)
  /\ UNCHANGED <<wired, tick, lock, marked, mbox, sem, pool, sleeptime, due>>

(***************************************************************************)
(* Semaphores.                                                             *)
(***************************************************************************)
sys_sem_signal(t) == sem' = sem \union {t}

\* For ever for the answer to a request, with a timeout for an event.
sys_arch_sem_wait(t, timeout_ms) ==
  /\ pc[t] = IF timeout_ms = 0 THEN "posted" ELSE "out"
  /\ block(t, "waiting", timeout_ms, TimeoutTicks(timeout_ms))
  /\ UNCHANGED <<wired, tick, lock, marked, mbox, sem, pool, job, sleeptime, due>>

\* The request's message is the caller's again.
WaitEnds(t) ==
  /\ pc[t] = "waiting" /\ (t \in sem \/ left[t] = 0)
  /\ sem' = sem \ {t}
  /\ pool' = [m \in Message |-> IF pool[m] = t THEN "free" ELSE pool[m]]
  /\ resume(t)
  /\ UNCHANGED <<wired, tick, lock, marked, mbox, job, sleeptime, due>>

(***************************************************************************)
(* The TCP/IP thread's loop, under the core lock.                          *)
(***************************************************************************)
InCore(what) == pc[Tcpip] = "in" /\ job = what
Reached == due # None /\ Signed(due - sys_now) <= 0

\* A request is answered, a frame freed; either may wake a thread that waits
\* for an event, and start a timer.
HandleMessage ==
  /\ \E m \in Message :
       /\ InCore(m)
       /\ IF pool[m] \in Thread
            THEN sys_sem_signal(pool[m]) /\ UNCHANGED pool
            ELSE /\ pool' = [pool EXCEPT ![m] = "free"]
                 /\ \/ UNCHANGED sem
                    \/ \E t \in Thread : /\ pc[t] = "waiting" /\ left[t] # Forever
                                       /\ sys_sem_signal(t)
  /\ job' = "none"
  /\ due' \in {due} \union {Wrap(sys_now + ms) : ms \in IF due = None THEN Timeouts ELSE {}}
  /\ UNCHANGED <<wired, tick, lock, marked, mbox, pc, wait, sleeptime>>

CheckTimeouts ==
  /\ InCore("expired") \/ (InCore("none") /\ Reached)
  /\ due' = IF Reached THEN None ELSE due
  /\ job' = "none"
  /\ UNCHANGED <<wired, tick, lock, marked, mbox, sem, pool, pc, wait, sleeptime>>

DecideSleep ==
  /\ InCore("none") /\ ~Reached
  /\ sleeptime' = IF due = None THEN 0 ELSE Signed(due - sys_now)
  /\ job' = "sleep"
  /\ UNCHANGED <<wired, tick, lock, marked, mbox, sem, pool, pc, wait, due>>

TcpipStep ==
  \/ sys_mark_tcpip_thread \/ sys_arch_mbox_fetch \/ Fetched \/ FetchTimedOut
  \/ HandleMessage \/ CheckTimeouts \/ DecideSleep

\* What a thread has to finish, and what it may begin.
ThreadStep(t) ==
  sys_mbox_post(t) \/ sys_arch_sem_wait(t, 0) \/ WaitEnds(t) \/ SleepEnds(t)

ThreadBegins(t) ==
  \/ \E ms \in Timeouts : sys_arch_msleep(t, ms) \/ sys_arch_sem_wait(t, ms)
  \/ \E m \in Message : sys_mbox_trypost(t, m) \/ Request(t, m)

Next ==
  \/ Tick \/ TcpipStep
  \/ \E t \in Threads : Lock(t) \/ Unlock(t)
  \/ \E t \in Thread : ThreadStep(t) \/ ThreadBegins(t)
  \/ \E m \in Message : sys_mbox_trypost_fromisr(m)

Spec == Init /\ [][Next]_vars

(***************************************************************************)
(* A call that was begun goes on.  The strong fairness is FreeRTOS's: a    *)
(* waiter on a mutex or a full queue is served in its turn, and no caller  *)
(* stays in the core for ever.  Nobody is obliged to post or to lock.      *)
(***************************************************************************)
FairSpec ==
  /\ Spec /\ WF_vars(Tick) /\ WF_vars(TcpipStep) /\ SF_vars(Lock(Tcpip))
  /\ \A t \in Threads : /\ WF_vars(pc[t] = "enter" /\ Lock(t)) /\ WF_vars(Unlock(t))
  /\ \A t \in Thread : /\ WF_vars(ThreadStep(t)) /\ SF_vars(sys_mbox_post(t))
                       /\ SF_vars(mutex.depth = 1 /\ Unlock(t))

(***************************************************************************)
(* Properties.                                                             *)
(***************************************************************************)
\* The core is t's from the moment its outermost lock call has done its
\* bookkeeping until its outermost unlock call begins to.
Inside(t) ==
  mutex.owner = t /\ mutex.depth > IF pc[t] \in {"enter", "leave"} THEN 1 ELSE 0

\* The check of the core lock stops a thread if and only if it is outside the
\* core, at any nesting and whatever the other threads are in the middle of;
\* without the macros, as lwipopts.h has it, it stops nobody.
CoreCheckExact ==
  \A t \in Threads : sys_check_core_locking(t) <=> (marked => Inside(t))

\* A message is in the mailbox or being handled once at most, and while it is
\* it belongs to the stack or to the thread that waits for its answer: the
\* answer of trypost never lets a caller free what was queued, and never lets it
\* forget what was not.
OneOwner ==
  \A m \in Message :
    LET places == {i \in DOMAIN mbox : mbox[i] = m}
                  \union (IF job = m THEN {0} ELSE {})
    IN  /\ Cardinality(places) <= 1
        /\ pool[m] = "free" => places = {}
        /\ pool[m] = "posted" => places # {}

\* However a timeout lies to the ticks and however the clock wraps, a wait is
\* over at the tick that is at most the timeout away, and less than one tick
\* early by the stack's own clock.
WaitsExact ==
  \A t \in Threads :
    Blocked(t) /\ left[t] # Forever =>
      LET early == Signed(goal[t] - sys_now - left[t] * TICK_MS)
      IN  early < TICK_MS /\ (left[t] > 0 => early >= 0)

\* Requests are answered, timed waits and sleeps return, the stack's timers are
\* served: no mix of a full mailbox, the core lock and rounded timeouts stops
\* the TCP/IP thread or a caller.
CallsReturn ==
  /\ \A t \in Thread : pc[t] \in {"posting", "posted", "waiting", "sleeping"} ~> pc[t] = "out"
  /\ due # None ~> due = None
=============================================================================
