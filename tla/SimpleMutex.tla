----------------------------- MODULE SimpleMutex -----------------------------
(***************************************************************************)
(* JackieSimpleMutex (src/JackieSimpleMutex.cpp), the POSIX build: a       *)
(* recursive lock made of a plain pthread mutex, the id of the thread that *)
(* holds it and a count.  Lock looks at the count and at the thread id     *)
(* before it has the mutex, so the two reads race with the writes of       *)
(* another thread's Lock and Unlock; every access is a step here.          *)
(*                                                                         *)
(* The threads of this module call Unlock once for each Lock.  What the    *)
(* mutex does when they do not is in module ConnectionRequests.            *)
(***************************************************************************)
EXTENDS Naturals

CONSTANTS
  Threads,
  NoThread,   \* the value 0 of m_threadID
  CountMod,   \* m_count is unsigned: 2^32
  MaxDepth    \* how deep a thread nests its locks (bound)

ASSUME MutexAssumption ==
  /\ NoThread \notin Threads
  /\ CountMod \in Nat /\ MaxDepth \in Nat /\ MaxDepth < CountMod /\ 1 < CountMod

VARIABLES
  m_mutex,     \* the thread that has the pthread mutex, or NoThread
  m_threadID,
  m_count,
  pc,          \* pc[t]: what thread t does next
  depth        \* depth[t]: calls of Lock that returned less calls of Unlock

mutexVars == <<m_mutex, m_threadID, m_count, pc, depth>>

MutexInit ==
  /\ m_mutex = NoThread /\ m_threadID = NoThread /\ m_count = 0
  /\ pc = [t \in Threads |-> "run"]
  /\ depth = [t \in Threads |-> 0]

Goto(t, step) == pc' = [pc EXCEPT ![t] = step]
Depth(t, n) == depth' = [depth EXCEPT ![t] = n]

\* Lock reads m_count.
Lock(t) ==
  /\ pc[t] = "run" /\ depth[t] < MaxDepth
  /\ Goto(t, IF m_count = 0 THEN "acquire" ELSE "whose")
  /\ UNCHANGED <<m_mutex, m_threadID, m_count, depth>>

\* m_threadID == pthread_self()
AnyThread(t) ==
  /\ pc[t] = "whose"
  /\ Goto(t, "again")
  /\ UNCHANGED <<m_mutex, m_threadID, m_count, depth>>

Whose(t) ==
  /\ pc[t] = "whose"
  /\ Goto(t, IF m_threadID = t THEN "again" ELSE "acquire")
  /\ UNCHANGED <<m_mutex, m_threadID, m_count, depth>>

LockAgain(t) ==
  /\ pc[t] = "again"
  /\ m_count' = (m_count + 1) % CountMod
  /\ Depth(t, depth[t] + 1)
  /\ Goto(t, "run")
  /\ UNCHANGED <<m_mutex, m_threadID>>

\* pthread_mutex_lock returns.
Acquire(t) ==
  /\ pc[t] = "acquire"
  /\ m_mutex = NoThread
  /\ m_mutex' = t
  /\ Goto(t, "count")
  /\ UNCHANGED <<m_threadID, m_count, depth>>

Count(t) ==
  /\ pc[t] = "count"
  /\ m_count' = (m_count + 1) % CountMod
  /\ Goto(t, "own")
  /\ UNCHANGED <<m_mutex, m_threadID, depth>>

NeverOwn(t) ==
  /\ pc[t] = "own"
  /\ Depth(t, 1)
  /\ Goto(t, "run")
  /\ UNCHANGED <<m_mutex, m_threadID, m_count>>

Own(t) ==
  /\ pc[t] = "own"
  /\ m_threadID' = t
  /\ Depth(t, 1)
  /\ Goto(t, "run")
  /\ UNCHANGED <<m_mutex, m_count>>

\* The whole of Unlock when m_count > 1.
UnlockOnce(t) ==
  /\ pc[t] = "run" /\ depth[t] > 0
  /\ m_count > 1
  /\ m_count' = m_count - 1
  /\ Depth(t, depth[t] - 1)
  /\ UNCHANGED <<m_mutex, m_threadID, pc>>

\* The last Unlock: --m_count, m_threadID = 0, pthread_mutex_unlock.
Unlock(t) ==
  /\ pc[t] = "run" /\ depth[t] > 0
  /\ m_count <= 1
  /\ m_count' = (m_count + CountMod - 1) % CountMod
  /\ Goto(t, "disown")
  /\ UNCHANGED <<m_mutex, m_threadID, depth>>

Disown(t) ==
  /\ pc[t] = "disown"
  /\ m_threadID' = NoThread
  /\ Goto(t, "release")
  /\ UNCHANGED <<m_mutex, m_count, depth>>

Release(t) ==
  /\ pc[t] = "release"
  /\ m_mutex' = NoThread
  /\ Depth(t, 0)
  /\ Goto(t, "run")
  /\ UNCHANGED <<m_threadID, m_count>>

Locking(t) == Lock(t) \/ Whose(t) \/ LockAgain(t) \/ Acquire(t) \/ Count(t) \/ Own(t)
Unlocking(t) == UnlockOnce(t) \/ Unlock(t) \/ Disown(t) \/ Release(t)

MutexNext == \E t \in Threads : Locking(t) \/ Unlocking(t)

MutexSpec == MutexInit /\ [][MutexNext]_mutexVars

-----------------------------------------------------------------------------
MutexSteps == {"run", "whose", "again", "acquire", "count", "own", "disown", "release"}

\* Types; m_count never comes near its width.
MutexTypeOK ==
  /\ m_mutex \in Threads \cup {NoThread}
  /\ m_threadID \in Threads \cup {NoThread}
  /\ m_count \in 0 .. MaxDepth
  /\ pc \in [Threads -> MutexSteps]
  /\ depth \in [Threads -> 0 .. MaxDepth]

\* Two threads are never between Lock and Unlock at once, although Lock
\* decides on a count and an owner it reads without the mutex.
MutualExclusion ==
  \A t, u \in Threads : depth[t] > 0 /\ depth[u] > 0 => t = u

\* "avoid deadlock" (JackieSimpleMutex.cpp:32): a thread that has the mutex
\* does not wait for it.
NoSelfDeadlock == \A t \in Threads : pc[t] = "acquire" => depth[t] = 0

\* What makes the two properties above inductive: the steps of a thread that
\* has the pthread mutex, and the count and owner it left behind.
Inside(t) == depth[t] > 0 \/ pc[t] \in {"count", "own", "disown", "release"}

Ownership ==
  /\ \A t \in Threads : Inside(t) <=> m_mutex = t
  /\ \A t \in Threads :
       /\ pc[t] \in {"acquire", "count", "own"} => depth[t] = 0
       /\ pc[t] \in {"disown", "release"} => depth[t] = 1
       /\ pc[t] = "again" => depth[t] > 0
       /\ pc[t] \in {"again", "whose"} => depth[t] < MaxDepth
       /\ pc[t] \in {"acquire", "count", "own"} => MaxDepth > 0
       /\ m_threadID = t => depth[t] > 0 /\ pc[t] # "release"
       /\ depth[t] > 0 /\ pc[t] # "release" => m_threadID = t
       /\ m_mutex = t =>
            m_count = IF pc[t] \in {"disown", "release"} THEN 0
                      ELSE IF pc[t] = "own" THEN 1 ELSE depth[t]
  /\ m_mutex = NoThread => m_count = 0 /\ m_threadID = NoThread
=============================================================================
