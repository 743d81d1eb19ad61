----------------------------- MODULE NativePool -----------------------------
(***************************************************************************)
(* NativePool (PostgreSQL) and NativeMysqlPool, whose code is the same but *)
(* for listen(): a stack of idle drivers, a counter of drivers in use and  *)
(* a queue of promise resolvers.  A task is one call of execute(),         *)
(* transaction() or listen(); the function given to transaction() may      *)
(* itself call the pool and await it, which makes its task the caller of   *)
(* another.  An action is the code between two awaits.                     *)
(*                                                                         *)
(* The function that listen() returns may be called again, and releases    *)
(* its driver again: what the pool promises is said of what is left then.  *)
(***************************************************************************)
EXTENDS Integers, FiniteSets, Sequences, SequencesExt

CONSTANTS
  Task,          \* calls of the pool; a finished one may be made again
  NoTask,        \* "called from outside any transaction"
  Driver,        \* identities of the driver objects; bounds how many are made
  NoDriver,
  MaxSize,       \* options.maxSize
  AllowNested,   \* transaction functions that call the pool again
  Listener,      \* the calls that may be listen()
  AllowEnd,      \* end()
  MaxRepeats     \* bound on the repeated calls of what listen() returned

ASSUME PoolAssumption ==
  /\ MaxSize \in Nat \ {0}
  /\ IsFiniteSet(Task)
  /\ NoTask \notin Task /\ NoDriver \notin Driver
  /\ AllowNested \in BOOLEAN /\ Listener \subseteq Task /\ AllowEnd \in BOOLEAN
  /\ MaxRepeats \in Nat

VARIABLES
  pool,         \* the idle drivers, a stack
  activeCount,
  queue,        \* the tasks whose acquire() awaits a driver, oldest first
  phase,        \* where each task is
  job,          \* "query": execute() or transaction(); "listen": listen()
  caller,       \* the task in whose transaction function the call was made
  driver,       \* the driver a task was given
  created,      \* driver objects made so far
  closing,      \* there were drivers to close when end() was called
  ending,       \* end() is awaiting Promise.all
  unlistened,   \* drivers that a listener gave back, or is giving back
  repeated,     \* those that were released once more by a repeated call
  repeats       \* how often that was done

vars == <<pool, activeCount, queue, phase, job, caller, driver, created,
          closing, ending, unlistened, repeated, repeats>>
endVars == <<closing, ending>>
listenVars == <<unlistened, repeated, repeats>>

Phase == {"idle", "waiting", "busy", "listening", "leaked"}

Init ==
  /\ pool = <<>> /\ activeCount = 0 /\ queue = <<>>
  /\ phase = [t \in Task |-> "idle"]
  /\ job = [t \in Task |-> "query"]
  /\ caller = [t \in Task |-> NoTask]
  /\ driver = [t \in Task |-> NoDriver]
  /\ created = {} /\ closing = FALSE /\ ending = FALSE
  /\ unlistened = {} /\ repeated = {} /\ repeats = 0

\* The transaction function of t awaits a call it made.
Blocked(t) == \E c \in Task : caller[c] = t

\* A call from outside, or one from inside the transaction function of c.
Called(t, j, c) ==
  /\ phase[t] = "idle"
  /\ j = "listen" => t \in Listener /\ c = NoTask
  /\ c # NoTask => /\ AllowNested /\ phase[c] = "busy" /\ job[c] = "query"
                   /\ ~Blocked(c)
  /\ job' = [job EXCEPT ![t] = j]
  /\ caller' = [caller EXCEPT ![t] = c]

Given(t, d) ==
  /\ phase' = [phase EXCEPT ![t] = "busy"]
  /\ driver' = [driver EXCEPT ![t] = d]

\* Any identity that was not used yet: they are all alike.
NewDriver == CHOOSE d \in Driver : d \notin created

-----------------------------------------------------------------------------
(* acquire() *)

\* Mutant: the driver is read from the stack and left on it.
MutPeek(t, j, c) ==
  /\ Called(t, j, c)
  /\ pool # <<>>
  /\ activeCount' = activeCount + 1
  /\ Given(t, Last(pool))
  /\ UNCHANGED <<pool, queue, created, endVars, listenVars>>

AcquireIdle(t, j, c) ==
  /\ Called(t, j, c)
  /\ pool # <<>>
  /\ activeCount' = activeCount + 1
  /\ pool' = Front(pool)
  /\ Given(t, Last(pool))
  /\ UNCHANGED <<queue, created, endVars, listenVars>>

AcquireNew(t, j, c) ==
  /\ Called(t, j, c)
  /\ pool = <<>> /\ activeCount < MaxSize
  /\ activeCount' = activeCount + 1
  /\ created # Driver
  /\ Given(t, NewDriver) /\ created' = created \cup {NewDriver}
  /\ UNCHANGED <<pool, queue, endVars, listenVars>>

AcquireWait(t, j, c) ==
  /\ Called(t, j, c)
  /\ pool = <<>> /\ activeCount >= MaxSize
  /\ queue' = Append(queue, t)
  /\ phase' = [phase EXCEPT ![t] = "waiting"]
  /\ UNCHANGED <<pool, activeCount, driver, created, endVars, listenVars>>

-----------------------------------------------------------------------------
(* release() *)

\* Mutant: the driver goes back on the stack, the waiter is not looked for.
MutNoHandOver(t) ==
  /\ activeCount' = activeCount - 1
  /\ pool' = Append(pool, driver[t])
  /\ phase' = [phase EXCEPT ![t] = "idle"]
  /\ driver' = [driver EXCEPT ![t] = NoDriver]
  /\ UNCHANGED queue

\* Mutant: the youngest waiter is served (queue.pop()).
MutServeYoungest(t) ==
  \/ /\ queue # <<>>
     /\ queue' = Front(queue)
     /\ phase' = [phase EXCEPT ![t] = "idle", ![Last(queue)] = "busy"]
     /\ driver' = [driver EXCEPT ![t] = NoDriver, ![Last(queue)] = driver[t]]
     /\ UNCHANGED <<activeCount, pool>>
  \/ /\ queue = <<>>
     /\ activeCount' = activeCount - 1
     /\ pool' = Append(pool, driver[t])
     /\ phase' = [phase EXCEPT ![t] = "idle"]
     /\ driver' = [driver EXCEPT ![t] = NoDriver]
     /\ UNCHANGED queue

\* The task's driver goes to the oldest waiter or back on the stack.
Release(t) ==
  \/ /\ queue # <<>>
     /\ queue' = Tail(queue)
     /\ phase' = [phase EXCEPT ![t] = "idle", ![Head(queue)] = "busy"]
     /\ driver' = [driver EXCEPT ![t] = NoDriver, ![Head(queue)] = driver[t]]
     /\ UNCHANGED <<activeCount, pool>>
  \/ /\ queue = <<>>
     /\ activeCount' = activeCount - 1
     /\ pool' = Append(pool, driver[t])
     /\ phase' = [phase EXCEPT ![t] = "idle"]
     /\ driver' = [driver EXCEPT ![t] = NoDriver]
     /\ UNCHANGED queue

\* The finally block of execute() and transaction(), and of the UNLISTEN.
Finish(t) ==
  /\ phase[t] = "busy" /\ job[t] = "query" /\ ~Blocked(t)
  /\ Release(t)
  /\ caller' = [caller EXCEPT ![t] = NoTask]
  /\ UNCHANGED <<job, created, endVars, listenVars>>

-----------------------------------------------------------------------------
(* listen(): no finally block between acquire() and the returned function. *)

ListenSettles(t, outcome) ==
  /\ phase[t] = "busy" /\ job[t] = "listen"
  /\ phase' = [phase EXCEPT ![t] = outcome]
  /\ UNCHANGED <<pool, activeCount, queue, job, caller, driver, created, endVars,
                 listenVars>>

ListenSucceeds(t) == ListenSettles(t, "listening")
ListenFails(t) == ListenSettles(t, "leaked")

\* The function listen() returned: UNLISTEN, then release() in its finally.
Unlisten(t) ==
  /\ phase[t] = "listening"
  /\ phase' = [phase EXCEPT ![t] = "busy"]
  /\ job' = [job EXCEPT ![t] = "query"]
  /\ unlistened' = unlistened \cup {driver[t]}
  /\ UNCHANGED <<pool, activeCount, queue, caller, driver, created, endVars,
                 repeated, repeats>>

\* The same function called again, from its call to its release(): between the
\* two it only keeps the connection busy.  Whoever uses the driver by then is
\* not asked.
UnlistenAgain(d) ==
  /\ d \in unlistened /\ repeats < MaxRepeats
  /\ repeats' = repeats + 1 /\ repeated' = repeated \cup {d}
  /\ \/ /\ queue # <<>>
        /\ queue' = Tail(queue)
        /\ Given(Head(queue), d)
        /\ UNCHANGED <<activeCount, pool>>
     \/ /\ queue = <<>>
        /\ activeCount' = activeCount - 1
        /\ pool' = Append(pool, d)
        /\ UNCHANGED <<queue, phase, driver>>
  /\ UNCHANGED <<job, caller, created, endVars, unlistened>>

-----------------------------------------------------------------------------
(* end(), one call at a time *)

EndCall ==
  /\ AllowEnd /\ ~ending
  /\ ending' = TRUE /\ closing' = (pool # <<>>)
  /\ UNCHANGED <<pool, activeCount, queue, phase, job, caller, driver, created,
                 listenVars>>

\* One of the close() calls rejects, and end() with it: the stack keeps its
\* drivers, and the other close() calls go on with nobody waiting for them.
EndFails ==
  /\ ending /\ closing
  /\ ending' = FALSE /\ closing' = FALSE
  /\ UNCHANGED <<pool, activeCount, queue, phase, job, caller, driver, created,
                 listenVars>>

\* After the await: this.pool = [], whatever was pushed meanwhile.
EndDone ==
  /\ ending
  /\ ending' = FALSE /\ closing' = FALSE /\ pool' = <<>>
  /\ UNCHANGED <<activeCount, queue, phase, job, caller, driver, created,
                 listenVars>>

Next ==
  \/ \E t \in Task :
       \/ \E j \in {"query", "listen"}, c \in Task \cup {NoTask} :
            AcquireIdle(t, j, c) \/ AcquireNew(t, j, c) \/ AcquireWait(t, j, c)
       \/ Finish(t)
       \/ ListenSucceeds(t)
       \/ ListenFails(t)
       \/ Unlisten(t)
  \/ EndCall
  \/ \E d \in Driver : UnlistenAgain(d)
  \/ EndFails
  \/ EndDone

Spec == Init /\ [][Next]_vars

\* A query the server answers, and the event loop runs its finally block.
Fairness == \A t \in Task : WF_vars(Finish(t))

FairSpec == Spec /\ Fairness

-----------------------------------------------------------------------------
(* Properties. *)

\* The tasks a driver was given to and not taken back from.
Using == {t \in Task : phase[t] \in {"busy", "listening", "leaked"}}

\* Every variable keeps its shape.
TypeOK ==
  /\ pool \in Seq(Driver) /\ activeCount \in Int /\ queue \in Seq(Task)
  /\ phase \in [Task -> Phase]
  /\ job \in [Task -> {"query", "listen"}]
  /\ caller \in [Task -> Task \cup {NoTask}]
  /\ driver \in [Task -> Driver \cup {NoDriver}]
  /\ created \in SUBSET Driver /\ closing \in BOOLEAN
  /\ ending \in BOOLEAN
  /\ unlistened \in SUBSET Driver /\ repeated \in SUBSET Driver
  /\ repeats \in Nat

\* activeCount is the number of tasks that use a driver, less the repeated calls:
\* an acquire() that forgets to count, or a release() of what was not acquired,
\* would open more connections than maxSize or none at all.
ActiveAccounted == activeCount = Cardinality(Using) - repeats

\* Drivers that count as used and idle drivers together never exceed maxSize,
\* also while end() runs; so as many are in use or idle at most as maxSize and
\* one more for each repeated call.
SizeBounded == activeCount + Len(pool) <= MaxSize

\* A connection carries one conversation: no driver is used by two tasks, none
\* is used and idle, none is on the stack twice, but for those that a repeated
\* call released while they were not its own.
ExclusiveDrivers ==
  /\ \A t, u \in Using : driver[t] = driver[u] /\ driver[t] \notin repeated => t = u
  /\ \A t \in Using : driver[t] \in created \ (ToSet(pool) \ repeated)
  /\ \A i, j \in DOMAIN pool : pool[i] = pool[j] /\ pool[i] \notin repeated => i = j

\* A task waits only while maxSize drivers are in use and none is idle.
NoIdleDriverWhileWaiting ==
  queue # <<>> => pool = <<>> /\ Cardinality(Using) = MaxSize + repeats

\* The counter is exact, connections are bounded and exclusive, and none is idle
\* beside a task that waits for one, for as long as no listener is undone twice;
\* after that, exactly the drivers and the count that this touched are wrong.
Safety ==
  /\ TypeOK /\ ActiveAccounted /\ SizeBounded
  /\ ExclusiveDrivers /\ NoIdleDriverWhileWaiting

\* Every connection is out of reach: held by a transaction function that waits
\* for the pool itself, or by a listener that is there, fails or hangs.
OutOfReach ==
  \A t \in Using : Blocked(t) \/ job[t] = "listen"

\* Whoever waits for a driver is given one, also across end(); the only way to
\* wait forever is that all connections stay out of reach.
EveryTaskServed ==
  \A t \in Task :
    phase[t] = "waiting" ~> phase[t] = "busy" \/ []OutOfReach

\* The pool is a first-come-first-served semaphore of maxSize permits, with
\* nested calls, listeners, leaks and end(); a listener that is undone again
\* signals what it does not hold, and the pool has a permit too many for good.
Semaphore == INSTANCE FifoSemaphore WITH
  Client <- Task, Key <- {"pool"}, Capacity <- MaxSize,
  holders <- [k \in {"pool"} |-> Using],
  line <- [k \in {"pool"} |-> queue],
  permits <- [k \in {"pool"} |-> MaxSize + repeats]

ImplementsSemaphore == Semaphore!Spec
-----------------------------------------------------------------------------
(* The inductive invariant behind these properties. *)

\* The queue holds waiting tasks, each once.
QueueSound ==
  \A i \in 1 .. Len(queue) :
    /\ phase[queue[i]] = "waiting"
    /\ \A j \in 1 .. Len(queue) : queue[j] = queue[i] => j = i

\* Every waiting task is in the queue: its promise will be resolved.
WaitersListed ==
  \A t \in Task :
    phase[t] = "waiting" => \E i \in 1 .. Len(queue) : queue[i] = t

\* An idle driver was made by acquire() and is on the stack once.
IdleSound ==
  \A i \in 1 .. Len(pool) :
    /\ pool[i] \in created
    /\ \A j \in 1 .. Len(pool) : pool[j] = pool[i] /\ pool[i] \notin repeated => j = i

\* A driver in use was made by acquire(), is not idle and has one user.
HeldSound ==
  \A t \in Using :
    /\ driver[t] \in created
    /\ driver[t] \notin repeated =>
         /\ \A i \in 1 .. Len(pool) : pool[i] # driver[t]
         /\ \A u \in Using : driver[u] = driver[t] => u = t

\* Somebody waits only behind maxSize drivers in use.
LineInv == queue # <<>> => pool = <<>> /\ activeCount = MaxSize

\* A driver that a listener gave back was made by acquire().
RepeatedSound == repeated \subseteq unlistened /\ unlistened \subseteq created

\* Preserved by every step, nested calls, listeners, leaks and end() included.
IInv ==
  /\ TypeOK /\ ActiveAccounted /\ SizeBounded
  /\ QueueSound /\ WaitersListed /\ IdleSound /\ HeldSound /\ LineInv
  /\ RepeatedSound
=============================================================================
