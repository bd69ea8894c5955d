----------------------------- MODULE DeviceLife -----------------------------
(***************************************************************************)
(* custom_cgminer: the life of one device with its mining thread           *)
(* (miner_thread and hash_queued_work of cgminer.c), the watchdog that     *)
(* judges it, the two commands of the API that disable and enable it, and  *)
(* the end of the program (kill_work).  The threads share the fields of    *)
(* thr_info and cgpu_info without a lock, so a thread that reads or writes *)
(* two of them takes two steps.                                            *)
(*                                                                         *)
(* Time is the number of ticks since the thread last reported, and since   *)
(* the watchdog last noted that it is sick, counted up to the first value  *)
(* that no longer matters.  No tick passes while the watchdog looks at a   *)
(* device.  What the thread mines is the subject of Miner.                 *)
(***************************************************************************)
EXTENDS Integers

CONSTANTS
    SICK_TIME, DEAD_TIME, RETRY_TIME,   \* 120, 600 and 60 seconds
    MaxToggles                          \* bound: commands that enable or disable

DeviceLifeAssumption ==
    /\ SICK_TIME \in Nat \ {0}
    /\ DEAD_TIME \in Nat
    /\ SICK_TIME < DEAD_TIME
    /\ RETRY_TIME \in Nat
    /\ MaxToggles \in Nat

VARIABLES
    miner,              \* where the mining thread is
    deven, status,      \* cgpu
    getwork,            \* thr: waits for work
    last, sick,         \* ticks since thr->last and thr->sick
    sem,                \* thr->sem
    shutdown,
    watchdog, verdict,  \* where the watchdog is and what it will write
    api, toggles        \* where the API's handler is, and what the bound counts

vars == <<miner, deven, status, getwork, last, sick, sem, shutdown, watchdog, verdict, api, toggles>>

Longest == DEAD_TIME + 1
Older(t) == IF t = Longest THEN t ELSE t + 1

\* main posts to the semaphore of a device that is not disabled.
Init ==
    /\ deven \in {"enabled", "disabled"}
    /\ sem = IF deven = "enabled" THEN 1 ELSE 0
    /\ miner = "init"
    /\ status = "init"
    /\ getwork = FALSE
    /\ last = 0
    /\ sick = Longest
    /\ shutdown = FALSE
    /\ watchdog = "sleep"
    /\ verdict = "none"
    /\ api = "idle"
    /\ toggles = 0

watchVars == <<sick, watchdog, verdict>>
apiVars == <<api, toggles>>

(***************************************************************************)
(* The mining thread                                                       *)
(***************************************************************************)
\* thread_reportout: first the flag, then the time and the status.
ReportOut ==
    /\ miner \in {"init", "get"}
    /\ getwork' = TRUE
    /\ miner' = IF miner = "init" THEN "out" ELSE "out again"
    /\ UNCHANGED <<deven, status, last, sem, shutdown, watchVars, apiVars>>

ReportedOut ==
    /\ miner \in {"out", "out again"}
    /\ last' = 0
    /\ status' = "well"
    /\ miner' = IF miner = "out" THEN "thread_init" ELSE "waiting"
    /\ UNCHANGED <<deven, getwork, sem, shutdown, watchVars, apiVars>>

\* miner_thread: thread_init may fail, and ends the thread.
ThreadInit ==
    /\ miner = "thread_init"
    /\ miner' \in {"sem_wait", "ended"}
    /\ UNCHANGED <<deven, status, getwork, last, sem, shutdown, watchVars, apiVars>>

\* Before the loop, and in mt_disable.
SemWait ==
    /\ miner \in {"sem_wait", "mt_disable"}
    /\ sem > 0
    /\ sem' = sem - 1
    /\ miner' = "loop"
    /\ UNCHANGED <<deven, status, getwork, last, shutdown, watchVars, apiVars>>

\* hash_queued_work: fill_queue calls get_work unless the device has its fill.
LoopTop ==
    /\ miner = "loop"
    /\ \/ shutdown /\ deven' = "disabled" /\ miner' = "ended"
       \/ ~shutdown /\ miner' \in {"get", "scanwork"} /\ UNCHANGED deven
    /\ UNCHANGED <<status, getwork, last, sem, shutdown, watchVars, apiVars>>

\* thread_reportin: first the flag, then the time and the status.
ReportIn ==
    /\ miner = "waiting"
    /\ getwork' = FALSE
    /\ miner' = "in"
    /\ UNCHANGED <<deven, status, last, sem, shutdown, watchVars, apiVars>>

ReportedIn ==
    /\ miner = "in"
    /\ last' = 0
    /\ status' = "well"
    /\ miner' = "scanwork"
    /\ UNCHANGED <<deven, getwork, sem, shutdown, watchVars, apiVars>>

\* The hashmeter, when it is called, notes the time and not the status.
Hashmeter == last' \in {0, last}

\* The driver tells the thread to stop when its device disappeared or keeps failing; one that
\* fails otherwise ends the thread.
ScanWork ==
    /\ miner = "scanwork"
    /\ \/ miner' = "check" /\ Hashmeter /\ shutdown' \in {shutdown, TRUE} /\ UNCHANGED deven
       \/ miner' = "ended" /\ deven' = "disabled" /\ UNCHANGED <<last, shutdown>>
    /\ UNCHANGED <<status, getwork, sem, watchVars, apiVars>>

MustSleep == deven # "enabled"

CheckEnabled ==
    /\ miner = "check"
    /\ miner' = IF MustSleep THEN "mt_disable" ELSE "loop"
    /\ UNCHANGED <<deven, status, getwork, last, sem, shutdown, watchVars, apiVars>>

MiningThread ==
    ReportOut \/ ReportedOut \/ ThreadInit \/ SemWait \/ LoopTop \/ ReportIn \/ ReportedIn
    \/ ScanWork \/ CheckEnabled

(***************************************************************************)
(* The watchdog                                                            *)
(***************************************************************************)
Tick ==
    /\ watchdog = "sleep"
    /\ last' = Older(last)
    /\ sick' = Older(sick)
    /\ watchdog' = "awake"
    /\ UNCHANGED <<miner, deven, status, getwork, sem, shutdown, verdict, apiVars>>

\* A thread that waits for work, or a disabled device, is passed over.
WatchLook ==
    /\ watchdog = "awake"
    /\ watchdog' = IF getwork \/ deven = "disabled" THEN "sleep" ELSE "judge"
    /\ UNCHANGED <<miner, deven, status, getwork, last, sem, shutdown, sick, verdict, apiVars>>

\* Mutant: a dead device stays dead.
OnlySickRecovers == status = "sick" /\ last < SICK_TIME

Recovered == status # "well" /\ last < SICK_TIME

\* The status and the time are read, and the status is written later.
WatchJudge ==
    /\ watchdog = "judge"
    /\ verdict' = IF Recovered THEN "well"
                  ELSE IF status = "well" /\ last > SICK_TIME THEN "sick"
                  ELSE IF status = "sick" /\ last > DEAD_TIME THEN "dead"
                  ELSE IF sick > RETRY_TIME /\ status \in {"sick", "dead"} THEN "retry"
                  ELSE "none"
    /\ watchdog' = "write"
    /\ UNCHANGED <<miner, deven, status, getwork, last, sem, shutdown, sick, apiVars>>

\* reinit_device does nothing to a disabled device, and otherwise calls a driver function that is
\* a no-op once the device runs.
WatchWrite ==
    /\ watchdog = "write"
    /\ status' = IF verdict \in {"well", "sick", "dead"} THEN verdict ELSE status
    /\ sick' = IF verdict \in {"sick", "dead", "retry"} THEN 0 ELSE sick
    /\ verdict' = "none"
    /\ watchdog' = "sleep"
    /\ UNCHANGED <<miner, deven, getwork, last, sem, shutdown, apiVars>>

Watchdog == Tick \/ WatchLook \/ WatchJudge \/ WatchWrite

(***************************************************************************)
(* The API's handlers, and the end                                         *)
(***************************************************************************)
Disable ==
    /\ api = "idle"
    /\ toggles < MaxToggles
    /\ deven # "disabled"
    /\ deven' = "disabled"
    /\ toggles' = toggles + 1
    /\ UNCHANGED <<miner, status, getwork, last, sem, shutdown, watchVars, api>>

Enable ==
    /\ api = "idle"
    /\ toggles < MaxToggles
    /\ deven = "disabled"
    /\ deven' = "enabled"
    /\ toggles' = toggles + 1
    /\ api' = "post"
    /\ UNCHANGED <<miner, status, getwork, last, sem, shutdown, watchVars>>

\* Mutant: the semaphore is not posted.
PostLost == UNCHANGED sem

SemPost == sem' = sem + 1

EnablePost ==
    /\ api = "post"
    /\ SemPost
    /\ api' = "idle"
    /\ UNCHANGED <<miner, deven, status, getwork, last, shutdown, watchVars, toggles>>

\* kill_work: __kill_work returns at once, because nothing ever sets successful_connect, and the
\* program ends with its threads wherever they are.
KillWork ==
    /\ watchdog # "ended"
    /\ miner' = "ended"
    /\ watchdog' = "ended"
    /\ api' = "ended"
    /\ UNCHANGED <<deven, status, getwork, last, sem, shutdown, sick, verdict, toggles>>

Next ==
    MiningThread \/ Watchdog \/ Disable \/ Enable \/ EnablePost \/ KillWork

\* Every thread runs, work arrives (see Miner), and a handler that began ends.
Fairness ==
    /\ WF_vars(MiningThread)
    /\ WF_vars(Watchdog)
    /\ WF_vars(EnablePost)

Spec == Init /\ [][Next]_vars /\ Fairness

(***************************************************************************)
(* Properties                                                              *)
(***************************************************************************)
Asleep == miner \in {"sem_wait", "mt_disable"}

\* A device that stays disabled stops mining for good, and the thread of one that stays enabled
\* is never left asleep, however commands, posts and the thread's test interleave: the posts that
\* a thread did not wait for only send it once more around its loop.
EnableObeyed ==
    /\ <>[](deven = "disabled") => <>[](Asleep \/ miner = "ended")
    /\ <>[](deven = "enabled") => []<>~Asleep

\* thread_reportout tells the watchdog that the thread waits for work: it is not found sick in
\* the middle of a wait, however long.  And a device whose thread keeps reporting is found well
\* again, also by a watchdog that writes a verdict it reached before the report.
WatchdogJust ==
    /\ [][WatchJudge /\ verdict' = "sick" => miner # "waiting"]_vars
    /\ <>[](last < SICK_TIME /\ deven = "enabled" /\ ~getwork /\ watchdog # "ended")
        => <>[](status = "well")

=============================================================================
