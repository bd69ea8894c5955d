-------------------------------- MODULE Locks --------------------------------
(***************************************************************************)
(* custom_cgminer/miner.h: a cglock, a lock for reading, for writing and   *)
(* an intermediate one that can be promoted, made of a mutex and a         *)
(* read-write lock of POSIX.  A thread that calls an operation takes its   *)
(* steps one by one and waits where POSIX makes it wait; an error of POSIX *)
(* ends the program and is left out.                                       *)
(*                                                                         *)
(* Where a thread is: "free", "read", "inter" and "write" are what its     *)
(* last operation gave it, the other places are inside an operation.       *)
(***************************************************************************)
EXTENDS Integers, FiniteSets

CONSTANTS
    Thread,
    NoThread

ASSUME LocksAssumption == NoThread \notin Thread

VARIABLES
    mutex,      \* the thread that holds the mutex
    writer,     \* the thread that holds the read-write lock for writing
    readers,    \* the threads that hold it for reading
    at          \* where each thread is

vars == <<mutex, writer, readers, at>>

Place == {"free", "read", "inter", "write",
          "rlock", "rlocked", "wlock", "ulock", "dwlock", "dlocked", "ruwlock", "wunlock"}

Init ==
    /\ mutex = NoThread
    /\ writer = NoThread
    /\ readers = {}
    /\ at = [t \in Thread |-> "free"]

Goes(t, from, to) == at[t] = from /\ at' = [at EXCEPT ![t] = to]

(***************************************************************************)
(* The operations of POSIX.  Readers may be admitted while a writer waits. *)
(***************************************************************************)
mutex_lock(t) == mutex = NoThread /\ mutex' = t /\ UNCHANGED <<writer, readers>>
mutex_unlock(t) == mutex' = NoThread /\ UNCHANGED <<writer, readers>>
rd_lock(t) == writer = NoThread /\ readers' = readers \cup {t} /\ UNCHANGED <<mutex, writer>>
rd_unlock(t) == readers' = readers \ {t} /\ UNCHANGED <<mutex, writer>>
wr_lock(t) == writer = NoThread /\ readers = {} /\ writer' = t /\ UNCHANGED <<mutex, readers>>
wr_unlock(t) == writer' = NoThread /\ UNCHANGED <<mutex, readers>>

(***************************************************************************)
(* The operations of a cglock                                              *)
(***************************************************************************)
\* Mutant: the mutex is not passed through.
NoMutex(t) ==
    \/ Goes(t, "free", "rlock") /\ UNCHANGED <<mutex, writer, readers>>
    \/ Goes(t, "rlock", "read") /\ rd_lock(t)

\* The mutex is only passed through.
rlock(t) ==
    \/ Goes(t, "free", "rlock") /\ mutex_lock(t)
    \/ Goes(t, "rlock", "rlocked") /\ rd_lock(t)
    \/ Goes(t, "rlocked", "read") /\ mutex_unlock(t)

ilock(t) == Goes(t, "free", "inter") /\ mutex_lock(t)

uilock(t) == Goes(t, "inter", "free") /\ mutex_unlock(t)

ulock(t) ==
    \/ Goes(t, "inter", "ulock") /\ UNCHANGED <<mutex, writer, readers>>
    \/ Goes(t, "ulock", "write") /\ wr_lock(t)

wlock(t) ==
    \/ Goes(t, "free", "wlock") /\ mutex_lock(t)
    \/ Goes(t, "wlock", "write") /\ wr_lock(t)

\* Mutant: the mutex is freed with the lock for writing.
FreesMutex(t) ==
    \/ /\ Goes(t, "write", "dwlock")
       /\ writer' = NoThread
       /\ mutex' = NoThread
       /\ UNCHANGED readers
    \/ Goes(t, "dwlock", "dlocked") /\ rd_lock(t)
    \/ Goes(t, "dlocked", "read") /\ UNCHANGED <<mutex, writer, readers>>

\* Between the two there is neither, but the mutex is still held.
dwlock(t) ==
    \/ Goes(t, "write", "dwlock") /\ wr_unlock(t)
    \/ Goes(t, "dwlock", "dlocked") /\ rd_lock(t)
    \/ Goes(t, "dlocked", "read") /\ mutex_unlock(t)

dwilock(t) == Goes(t, "write", "inter") /\ wr_unlock(t)

\* From the intermediate lock; it ends as dwlock does.
dlock(t) == Goes(t, "inter", "dlocked") /\ rd_lock(t)

runlock(t) == Goes(t, "read", "free") /\ rd_unlock(t)

ruwlock(t) ==
    \/ Goes(t, "read", "ruwlock") /\ rd_unlock(t)
    \/ Goes(t, "ruwlock", "wlock") /\ mutex_lock(t)

wunlock(t) ==
    \/ Goes(t, "write", "wunlock") /\ wr_unlock(t)
    \/ Goes(t, "wunlock", "free") /\ mutex_unlock(t)

Next ==
    \E t \in Thread :
        \/ rlock(t) \/ ilock(t) \/ uilock(t) \/ ulock(t) \/ wlock(t) \/ dwlock(t) \/ dwilock(t)
        \/ dlock(t) \/ runlock(t) \/ ruwlock(t) \/ wunlock(t)

\* A thread inside an operation goes on, and what it was given it gives back in the end.
GoesOn(t) ==
    \/ at[t] # "free" /\ (rlock(t) \/ wlock(t) \/ ulock(t) \/ dwlock(t) \/ wunlock(t))
    \/ runlock(t) \/ uilock(t)

Fairness == \A t \in Thread : WF_vars(GoesOn(t))

Spec == Init /\ [][Next]_vars /\ Fairness

(***************************************************************************)
(* Properties                                                              *)
(***************************************************************************)
TypeOK ==
    /\ mutex \in Thread \cup {NoThread}
    /\ writer \in Thread \cup {NoThread}
    /\ readers \subseteq Thread
    /\ at \in [Thread -> Place]

\* A thread with the mutex, or halfway through an operation that keeps it.
Owners == {t \in Thread : at[t] \in {"inter", "write", "rlock", "rlocked", "wlock", "ulock",
                                     "dwlock", "dlocked", "wunlock"}}

\* A thread that may write is alone, an intermediate lock excludes every other that may be
\* promoted, and nobody can write between the two halves of a downgrade: the reader still finds
\* what it wrote.
LockExcludes ==
    /\ \A t \in Thread : at[t] = "write" =>
         \A u \in Thread \ {t} : at[u] \notin {"read", "rlocked", "dlocked", "write"}
    /\ \A t, u \in Thread : t # u =>
         ~(at[t] \in {"inter", "ulock", "write", "dwlock", "dlocked"}
           /\ at[u] \in {"inter", "ulock", "write", "dwlock", "dlocked"})

\* A thread that has the mutex and waits to write is served: readers that come later wait for the
\* mutex, also where POSIX prefers readers.
WriterServed == \A t \in Thread : at[t] \in {"wlock", "ulock"} ~> at[t] = "write"
=============================================================================
