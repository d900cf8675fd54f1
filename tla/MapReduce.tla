----------------------------- MODULE MapReduce ------------------------------
(***************************************************************************)
(* The MapReduce coordinator and its workers (mr/coordinator.go and        *)
(* mr/worker.go).  The coordinator's loop (AllocWork) takes its locks one  *)
(* after the other, so each locked block is a step of its own and the RPCs *)
(* of the workers fall between them.  Workers poll for a job, write        *)
(* intermediate files under private names, report, and rename; reducers    *)
(* write their output in place.  Workers crash, or are slow enough to be   *)
(* taken for dead.  The files are what everybody shares.                   *)
(*                                                                         *)
(* RPCs go over a local socket: none is lost, and none is repeated.        *)
(***************************************************************************)
EXTENDS Naturals, FiniteSets, FiniteSetsExt

CONSTANTS
    Worker,
    NMap, NReduce,  \* map and reduce tasks
    MaxCrashes,     \* bound: workers that crash
    Faults          \* what is let happen, of the set below

(* slow:        a worker that lives misses the 10 seconds;                 *)
(* idle crash:  a worker crashes while it holds no task;                   *)
(* io error:    an operation on a file fails.                              *)
Fault == {"slow", "idle crash", "io error"}

ASSUME MRAssumption ==
    /\ NMap \in Nat \ {0} /\ NReduce \in Nat \ {0} /\ MaxCrashes \in Nat
    /\ Faults \subseteq Fault
    /\ IsFiniteSet(Worker)
    /\ {"ready", "done", "none"} \cap Worker = {}

Maps == 1..NMap
Reduces == 1..NReduce
Blocks == 1..2       \* an output file is written in two parts

VARIABLES
    \* coordinator
    pc,         \* where its loop is
    state,      \* Starting, Working, Exiting, Death
    phase,      \* the argument workType of AllocWork
    workInfo,   \* task -> "ready" (0), "done" (-1), or the worker that has it
    workerMap,  \* worker -> its state and job, state "unknown" if not in the map
    readyWork, workerId,    \* locals of the loop
    \* workers
    wpc,        \* where each worker is
    job,        \* the job it has taken
    read,       \* reducers: the map tasks whose files it has read
    \* files
    tmp,        \* worker -> its mr-tmp-* files
    inter,      \* the files mr-m-r
    out,        \* reduce task -> the parts of mr-out-r: the map tasks in each
    \* history
    unrenamed,  \* the workers whose renaming has failed
    missed,     \* the files mr-m-r that a reducer did not find
    unwritten   \* the reduce tasks whose output could once not be written

coordVars == <<pc, state, phase, workInfo, workerMap, readyWork, workerId>>
history == <<unrenamed, missed, unwritten>>
files == <<tmp, inter, out, history>>
vars == <<pc, state, phase, workInfo, workerMap, readyWork, workerId,
          wpc, job, read, tmp, inter, out, unrenamed, missed, unwritten>>

NoJob == [type |-> "none", id |-> 0]

Info(st, j) == [state |-> st, work |-> j]

Hole == {0}          \* a part not yet written: no set of map tasks

Tasks(p) == IF p = "Map" THEN Maps ELSE Reduces

(* MakeCoordinator, and the worker processes before they register *)
Init ==
    /\ pc = "start" /\ state = "Starting" /\ phase = "Map"
    /\ workInfo = [i \in {} |-> "ready"]
    /\ workerMap = [w \in Worker |-> Info("unknown", NoJob)]
    /\ readyWork = 0 /\ workerId = "none"
    /\ wpc = [w \in Worker |-> "new"]
    /\ job = [w \in Worker |-> NoJob]
    /\ read = [w \in Worker |-> {}]
    /\ tmp = [w \in Worker |-> {}]
    /\ inter = {}
    /\ out = [r \in Reduces |-> [b \in Blocks |-> Hole]]
    /\ unrenamed = {} /\ missed = {} /\ unwritten = {}

-----------------------------------------------------------------------------
(* The coordinator's goroutine: run, AllocWork, Exit *)

Start ==
    /\ pc = "start"
    /\ state' = "Working"
    /\ workInfo' = [i \in Maps |-> "ready"]
    /\ pc' = "recover"
    /\ UNCHANGED <<phase, workerMap, readyWork, workerId, wpc, job, read, files>>

Held == {i \in DOMAIN workInfo : workInfo[i] \in Worker}
Holders(tasks) == {workInfo[i] : i \in tasks}

\* Mutant: the overdue worker is not marked
RecoverTasksOnly(overdue) ==
    /\ pc = "recover"
    /\ workInfo' = [i \in DOMAIN workInfo |->
                      IF i \in overdue THEN "ready" ELSE workInfo[i]]
    /\ pc' = "find"
    /\ UNCHANGED <<state, phase, workerMap, readyWork, workerId, wpc, job, read, files>>

\* Mutant: the overdue task is marked done
RecoverAsDone(overdue) ==
    /\ pc = "recover"
    /\ workerMap' = [w \in Worker |->
                       IF w \in Holders(overdue) THEN Info("Death", NoJob)
                                                 ELSE workerMap[w]]
    /\ workInfo' = [i \in DOMAIN workInfo |->
                      IF i \in overdue THEN "done" ELSE workInfo[i]]
    /\ pc' = "find"
    /\ UNCHANGED <<state, phase, readyWork, workerId, wpc, job, read, files>>

(* Tasks handed out more than 10 seconds ago: their workers count as dead  *)
(* and the tasks are ready again.                                          *)
Recover(overdue) ==
    /\ pc = "recover"
    /\ workerMap' = [w \in Worker |->
                       IF w \in Holders(overdue) THEN Info("Death", NoJob)
                                                 ELSE workerMap[w]]
    /\ workInfo' = [i \in DOMAIN workInfo |->
                      IF i \in overdue THEN "ready" ELSE workInfo[i]]
    /\ pc' = "find"
    /\ UNCHANGED <<state, phase, readyWork, workerId, wpc, job, read, files>>

ReadyTasks == {i \in DOMAIN workInfo : workInfo[i] = "ready"}

(* The first ready task is the next to be handed out. *)
FindReady ==
    /\ pc = "find"
    /\ ReadyTasks # {}
    /\ readyWork' = Min(ReadyTasks)
    /\ pc' = "pick"
    /\ UNCHANGED <<state, phase, workInfo, workerMap, workerId, wpc, job, read, files>>

StillWorking == ReadyTasks = {} /\ Held # {}

(* None is ready, some are being worked on: sleep a second, begin again.   *)
FindWait ==
    /\ pc = "find"
    /\ StillWorking
    /\ pc' = "recover"
    /\ UNCHANGED <<state, phase, workInfo, workerMap, readyWork, workerId,
                   wpc, job, read, files>>

\* Mutant: only ready tasks keep the phase going
NoneReady == ReadyTasks = {}

AllTasksDone == ReadyTasks = {} /\ Held = {}

(* All done: AllocWork returns; run goes on with the next phase.           *)
MapPhaseDone ==
    /\ pc = "find" /\ phase = "Map"
    /\ AllTasksDone
    /\ phase' = "Reduce"
    /\ workInfo' = [i \in Reduces |-> "ready"]
    /\ pc' = "recover"
    /\ UNCHANGED <<state, workerMap, readyWork, workerId, wpc, job, read, files>>

ReducePhaseDone ==
    /\ pc = "find" /\ phase = "Reduce"
    /\ AllTasksDone
    /\ state' = "Exiting"
    /\ pc' = "exit"
    /\ UNCHANGED <<phase, workInfo, workerMap, readyWork, workerId, wpc, job, read, files>>

FreeWorkers == {w \in Worker : workerMap[w].state = "Free"}

(* getFreeWorker: any free worker, in the order of a Go map.               *)
PickWorker ==
    /\ pc = "pick"
    /\ \E w \in FreeWorkers : workerId' = w
    /\ pc' = "assign"
    /\ UNCHANGED <<state, phase, workInfo, workerMap, readyWork, wpc, job, read, files>>

NoFreeWorker ==
    /\ pc = "pick"
    /\ FreeWorkers = {}
    /\ workerId' = "none"
    /\ pc' = "recover"
    /\ UNCHANGED <<state, phase, workInfo, workerMap, readyWork, wpc, job, read, files>>

Assign ==
    /\ pc = "assign"
    /\ workInfo' = [workInfo EXCEPT ![readyWork] = workerId]
    /\ pc' = "announce"
    /\ UNCHANGED <<state, phase, workerMap, readyWork, workerId, wpc, job, read, files>>

\* Mutant: the worker that has the job is still free
Announced(j) == Info("Free", j)

NewJob(j) == Info("Ready", j)

Announce ==
    /\ pc = "announce"
    /\ workerMap' = [workerMap EXCEPT ![workerId] =
                       NewJob([type |-> phase, id |-> readyWork])]
    /\ pc' = "recover"
    /\ UNCHANGED <<state, phase, workInfo, readyWork, workerId, wpc, job, read, files>>

\* Mutant: the dead are told, too
TellsAll(info) == IF info.state = "unknown" THEN info ELSE Info("Exiting", NoJob)

Tells(info) ==
    IF info.state \in {"unknown", "Death"} THEN info ELSE Info("Exiting", NoJob)

(* Exit tells every worker that is not dead, *)
SendExit ==
    /\ pc = "exit"
    /\ workerMap' = [w \in Worker |-> Tells(workerMap[w])]
    /\ pc' = "wait"
    /\ UNCHANGED <<state, phase, workInfo, readyWork, workerId, wpc, job, read, files>>

(* and looks once a second whether all have died.                          *)
IsAllDeath == \A w \in Worker : workerMap[w].state \in {"unknown", "Death"}

AwaitDeaths == pc = "wait" /\ ~IsAllDeath /\ UNCHANGED vars

AllDead ==
    /\ pc = "wait"
    /\ IsAllDeath
    /\ state' = "Death"
    /\ pc' = "done"
    /\ UNCHANGED <<phase, workInfo, workerMap, readyWork, workerId, wpc, job, read, files>>

-----------------------------------------------------------------------------
(* The workers, and the RPC handlers they call *)

(* CallRegisterWorker and RegisterWorker: a coordinator that is not at     *)
(* work refuses, and the worker exits.                                     *)
Register(w) ==
    /\ wpc[w] = "new"
    /\ IF state = "Working"
       THEN /\ workerMap' = [workerMap EXCEPT ![w] = Info("Free", NoJob)]
            /\ wpc' = [wpc EXCEPT ![w] = "poll"]
       ELSE /\ wpc' = [wpc EXCEPT ![w] = "gone"]
            /\ UNCHANGED workerMap
    /\ UNCHANGED <<pc, state, phase, workInfo, readyWork, workerId, job, read, files>>

(* GetWorkerInfo says Ready: do_it.  On Free, and on Death, the worker     *)
(* only asks again.                                                        *)
TakeJob(w) ==
    /\ wpc[w] = "poll" /\ pc # "done"
    /\ workerMap[w].state = "Ready"
    /\ job' = [job EXCEPT ![w] = workerMap[w].work]
    /\ wpc' = [wpc EXCEPT ![w] = IF workerMap[w].work.type = "Map" THEN "map" ELSE "reduce"]
    /\ UNCHANGED <<coordVars, read, files>>

(* do_mapf: map the input into private files, one for each reduce task.    *)
MapFile(w) ==
    /\ wpc[w] = "map"
    /\ tmp' = [tmp EXCEPT ![w] = @ \cup ({job[w].id} \X Reduces)]
    /\ wpc' = [wpc EXCEPT ![w] = "mapped"]
    /\ UNCHANGED <<coordVars, job, read, inter, out, history>>

(* WorkFinish: a worker that counts as dead is refused; otherwise it is    *)
(* free again and the task is done.                                        *)
Accepts(w) == workerMap[w].state # "Death"

WorkFinish(w) ==
    IF Accepts(w)
    THEN /\ workerMap' = [workerMap EXCEPT ![w] = Info("Free", NoJob)]
         /\ workInfo' = [workInfo EXCEPT ![job[w].id] = "done"]
    ELSE UNCHANGED <<workerMap, workInfo>>

(* A refused report leaves the tmp files; an accepted one is followed by   *)
(* the renaming, and meanwhile the task counts as done.                    *)
RefuseMap(w) ==
    /\ wpc[w] = "mapped" /\ pc # "done"
    /\ ~Accepts(w)
    /\ WorkFinish(w)
    /\ wpc' = [wpc EXCEPT ![w] = "poll"]
    /\ UNCHANGED <<pc, state, phase, readyWork, workerId, job, read, files>>

FinishMap(w) ==
    /\ wpc[w] = "mapped" /\ pc # "done"
    /\ Accepts(w)
    /\ WorkFinish(w)
    /\ wpc' = [wpc EXCEPT ![w] = "renaming"]
    /\ UNCHANGED <<pc, state, phase, readyWork, workerId, job, read, files>>

(* os.Rename, one file after the other, whatever this worker's tmp files.  *)
Rename(w) ==
    /\ wpc[w] = "renaming"
    /\ \E f \in tmp[w] :
         /\ tmp' = [tmp EXCEPT ![w] = @ \ {f}]
         /\ inter' = inter \cup {f}
         /\ wpc' = [wpc EXCEPT ![w] = IF tmp[w] = {f} THEN "poll" ELSE @]
    /\ UNCHANGED <<coordVars, job, read, out, history>>

(* do_reducef: list the directory and read the files it shows; *)
ReadInter(w) ==
    /\ wpc[w] = "reduce"
    /\ read' = [read EXCEPT ![w] = {m \in Maps : <<m, job[w].id>> \in inter}]
    /\ missed' = missed \cup {f \in Maps \X {job[w].id} : f \notin inter}
    /\ wpc' = [wpc EXCEPT ![w] = "create"]
    /\ UNCHANGED <<coordVars, job, tmp, inter, out, unrenamed, unwritten>>

(* os.Create empties the file if it exists, whoever has the task by now;   *)
Create(w) ==
    /\ wpc[w] = "create"
    /\ out' = [out EXCEPT ![job[w].id] = [b \in Blocks |-> Hole]]
    /\ wpc' = [wpc EXCEPT ![w] = "write1"]
    /\ UNCHANGED <<coordVars, job, read, tmp, inter, history>>

(* the output is written part by part, each writer at its own place.       *)
Write(w) ==
    /\ wpc[w] \in {"write1", "write2"}
    /\ out' = [out EXCEPT ![job[w].id][IF wpc[w] = "write1" THEN 1 ELSE 2] = read[w]]
    /\ wpc' = [wpc EXCEPT ![w] = IF @ = "write1" THEN "write2" ELSE "reduced"]
    /\ UNCHANGED <<coordVars, job, read, tmp, inter, history>>

FinishReduce(w) ==
    /\ wpc[w] = "reduced" /\ pc # "done"
    /\ WorkFinish(w)
    /\ wpc' = [wpc EXCEPT ![w] = "poll"]
    /\ UNCHANGED <<pc, state, phase, readyWork, workerId, job, read, files>>

(* A file that cannot be opened, listed or written ends do_it.  Before the *)
(* report, the tmp file at hand is left incomplete and the earlier ones    *)
(* are written; the worker finds the same job when it asks again.          *)
GiveUpMap(w) ==
    /\ "io error" \in Faults
    /\ wpc[w] = "map"
    /\ \E r \in Reduces :
         tmp' = [tmp EXCEPT ![w] =
                   (@ \cup ({job[w].id} \X (1..(r - 1)))) \ {<<job[w].id, r>>}]
    /\ wpc' = [wpc EXCEPT ![w] = "poll"]
    /\ UNCHANGED <<coordVars, job, read, inter, out, history>>

GiveUpReduce(w) ==
    /\ "io error" \in Faults
    /\ wpc[w] = "reduce"
    /\ wpc' = [wpc EXCEPT ![w] = "poll"]
    /\ UNCHANGED <<coordVars, job, read, files>>

(* After the report, no error brings the task back: the directory cannot   *)
(* be listed, or os.Rename fails (on any of the files, in any order),      *)
(* which nobody looks at.  The files keep their private names.             *)
GiveUpRename(w) ==
    /\ "io error" \in Faults
    /\ wpc[w] = "renaming"
    /\ wpc' = [wpc EXCEPT ![w] = "poll"]
    /\ unrenamed' = unrenamed \cup {w}
    /\ UNCHANGED <<coordVars, job, read, tmp, inter, out, missed, unwritten>>

(* The errors of os.Create and Fprintf are dropped: without a file nothing *)
(* is written, and the task is reported as if it were.                     *)
CreateFails(w) ==
    /\ "io error" \in Faults
    /\ wpc[w] = "create"
    /\ wpc' = [wpc EXCEPT ![w] = "reduced"]
    /\ unwritten' = unwritten \cup {job[w].id}
    /\ UNCHANGED <<coordVars, job, read, tmp, inter, out, unrenamed, missed>>

WriteFails(w) ==
    /\ "io error" \in Faults
    /\ wpc[w] \in {"write1", "write2"}
    /\ wpc' = [wpc EXCEPT ![w] = IF @ = "write1" THEN "write2" ELSE "reduced"]
    /\ unwritten' = unwritten \cup {job[w].id}
    /\ UNCHANGED <<coordVars, job, read, tmp, inter, out, unrenamed, missed>>

(* GetWorkerInfo says Exiting: report and exit. *)
LearnExit(w) ==
    /\ wpc[w] = "poll" /\ pc # "done"
    /\ workerMap[w].state = "Exiting"
    /\ wpc' = [wpc EXCEPT ![w] = "dying"]
    /\ UNCHANGED <<coordVars, job, read, files>>

WorkerDeath(w) ==
    /\ wpc[w] = "dying"
    /\ workerMap' = [workerMap EXCEPT ![w] = Info("Death", NoJob)]
    /\ wpc' = [wpc EXCEPT ![w] = "gone"]
    /\ UNCHANGED <<pc, state, phase, workInfo, readyWork, workerId, job, read, files>>

(* The coordinator process has ended: the next call ends the worker.       *)
Orphaned(w) ==
    /\ pc = "done"
    /\ wpc[w] \in {"poll", "mapped", "reduced"}
    /\ wpc' = [wpc EXCEPT ![w] = "gone"]
    /\ UNCHANGED <<coordVars, job, read, files>>

Crashed == {w \in Worker : wpc[w] = "crashed"}

HasTask(w) == w \in Holders(Held)

Crash(w) ==
    /\ Cardinality(Crashed) < MaxCrashes
    /\ wpc[w] \notin {"new", "gone", "crashed"}
    /\ \/ "idle crash" \in Faults
       \/ HasTask(w) \/ workerMap[w].state = "Death"
    /\ wpc' = [wpc EXCEPT ![w] = "crashed"]
    /\ UNCHANGED <<coordVars, job, read, files>>

-----------------------------------------------------------------------------
(* What may be overdue: any task that is held, or only a crashed worker's. *)
MayBeOverdue ==
    {i \in Held : "slow" \in Faults \/ workInfo[i] \in Crashed}

Coordinator ==
    \/ Start
    \/ \E overdue \in SUBSET MayBeOverdue : Recover(overdue)
    \/ FindReady \/ FindWait \/ MapPhaseDone \/ ReducePhaseDone
    \/ PickWorker \/ NoFreeWorker \/ Assign \/ Announce
    \/ SendExit \/ AwaitDeaths \/ AllDead

Work(w) ==
    \/ TakeJob(w) \/ MapFile(w)
    \/ RefuseMap(w) \/ FinishMap(w) \/ Rename(w)
    \/ ReadInter(w) \/ Create(w) \/ Write(w) \/ FinishReduce(w)
    \/ LearnExit(w) \/ WorkerDeath(w) \/ Orphaned(w)

(* The job has ended. *)
Ended == pc = "done" /\ UNCHANGED vars

Errors(w) ==
    \/ GiveUpMap(w) \/ GiveUpReduce(w) \/ GiveUpRename(w)
    \/ CreateFails(w) \/ WriteFails(w)

Next ==
    \/ Coordinator
    \/ \E w \in Worker : Register(w) \/ Work(w) \/ Errors(w) \/ Crash(w)
    \/ Ended

(* The coordinator's loop runs; a worker that lives goes on, in the end    *)
(* past errors of its files; and 10 seconds pass for a crashed worker.     *)
Fairness ==
    /\ WF_vars(Coordinator)
    /\ SF_vars(Held # {} /\ Recover({i \in Held : workInfo[i] \in Crashed}))
    /\ \A w \in Worker :
         /\ WF_vars(Register(w)) /\ WF_vars(Work(w))
         /\ SF_vars(MapFile(w) \/ ReadInter(w))

Spec == Init /\ [][Next]_vars
FairSpec == Spec /\ Fairness

-----------------------------------------------------------------------------
(* Properties *)

(* Who the coordinator takes for alive works on the task it was given, of  *)
(* this phase: WorkFinish, which looks at nothing but the Death mark,      *)
(* never marks another task, or one of the next phase, as done             *)
(* (coordinator.go:83-94).                                                 *)
FinishesOwnTask ==
    \A w \in Worker :
        /\ wpc[w] \in {"map", "mapped", "reduce", "create", "write1", "write2", "reduced"}
        /\ workerMap[w].state # "Death"
        => /\ job[w].type = phase
           /\ job[w].id \in DOMAIN workInfo
           /\ workInfo[job[w].id] = w

(* No worker is given two tasks, whatever reports and registers while the  *)
(* coordinator is between its locks (coordinator.go:194-226).              *)
OneTaskEach ==
    \A i, j \in Held : workInfo[i] = workInfo[j] => i = j

MapDone(m) == phase = "Reduce" \/ (m \in DOMAIN workInfo /\ workInfo[m] = "done")

(* What a finished map task made is never lost: each of its files is in    *)
(* place, or a worker is about to rename it, or crashed before it did, or  *)
(* could not rename it and keeps it.  That is what the early report leaves *)
(* (worker.go:148-176): the files need not be in place when a reducer      *)
(* looks for them.                                                         *)
MapsKept ==
    \A m \in Maps, r \in Reduces : MapDone(m) =>
        \/ <<m, r>> \in inter
        \/ \E w \in Worker :
             /\ <<m, r>> \in tmp[w]
             /\ wpc[w] \in {"renaming", "crashed"} \/ w \in unrenamed

(* A worker that is no longer waited for has mr-out-r open, or crashed     *)
(* with it open.                                                           *)
IsOverwritten(r) ==
    \E w \in Worker :
        /\ workerMap[w].state = "Death"
        /\ wpc[w] \in {"write1", "write2", "crashed"}
        /\ job[w] = [type |-> "Reduce", id |-> r]

(* A reduce task that counts as done has its whole output, made of all map *)
(* tasks, however many workers have written it: except for the files that  *)
(* a reducer looked for before they were renamed, and unless a write       *)
(* failed unnoticed or a worker that was too slow is writing the file over *)
(* again (worker.go:203-247).                                              *)
OutputComplete ==
    phase = "Reduce" =>
        \A r \in DOMAIN workInfo :
            workInfo[r] = "done" /\ r \notin unwritten /\ ~IsOverwritten(r)
            => \A b \in Blocks :
                   /\ out[r][b] # Hole
                   /\ \A m \in Maps : <<m, r>> \in missed \/ m \in out[r][b]

(* The workers that are there and that the coordinator has not given up.   *)
Usable ==
    {w \in Worker : wpc[w] \notin {"new", "gone", "crashed"} /\ workerMap[w].state # "Death"}

(* The job ends, unless the workers run out before the tasks do: no task   *)
(* is left with a worker that died or was too slow, and Exit does not wait *)
(* for one (Done, coordinator.go:295-309).                                 *)
Terminates ==
    \/ <>(state = "Death")
    \/ <>[](state = "Working" /\ Usable = {})

=============================================================================
