-------------------------- MODULE MapReduceProofs ---------------------------
(***************************************************************************)
(* The safety properties of MapReduce, for any number of workers, tasks    *)
(* and crashes.                                                            *)
(***************************************************************************)
EXTENDS MapReduce, NaturalsInduction, WellFoundedInduction, TLAPS

Jobs == [type : {"Map", "Reduce", "none"}, id : Nat]
WorkerInfo == [state : {"unknown", "Free", "Ready", "Exiting", "Death"}, work : Jobs]

AtMap == {"map", "mapped"}
AtReduce == {"reduce", "create", "write1", "write2", "reduced"}
AtWork == AtMap \cup AtReduce
Looping == {"recover", "find", "pick", "assign", "announce"}

TypeInv ==
    /\ pc \in {"start", "exit", "wait", "done"} \cup Looping
    /\ state \in {"Starting", "Working", "Exiting", "Death"}
    /\ state = "Working" => pc \in Looping
    /\ state = "Death" => pc = "done"
    /\ phase \in {"Map", "Reduce"}
    /\ workInfo \in [IF pc = "start" THEN {} ELSE Tasks(phase) -> Worker \cup {"ready", "done"}]
    /\ workerMap \in [Worker -> WorkerInfo]
    /\ readyWork \in Nat
    /\ wpc \in [Worker -> AtWork \cup {"new", "poll", "renaming", "dying", "gone", "crashed"}]
    /\ job \in [Worker -> Jobs]
    /\ read \in [Worker -> SUBSET Maps]
    /\ tmp \in [Worker -> SUBSET (Maps \X Reduces)]
    /\ inter \subseteq Maps \X Reduces

(* What the coordinator's loop knows from its earlier blocks still holds:  *)
(* the task it found is ready, the worker it picked is free, and once the  *)
(* reduce phase is over everything is done.                                *)
LoopInv ==
    /\ pc \in {"pick", "assign"} =>
         readyWork \in DOMAIN workInfo /\ workInfo[readyWork] = "ready"
    /\ pc \in {"assign", "announce"} =>
         workerId \in Worker /\ workerMap[workerId].state = "Free"
    /\ pc = "announce" =>
         readyWork \in DOMAIN workInfo /\ workInfo[readyWork] = workerId
    /\ pc = "start" => phase = "Map"
    /\ pc \in {"exit", "wait", "done"} =>
         phase = "Reduce" /\ \A i \in DOMAIN workInfo : workInfo[i] = "done"

(* A task that somebody has is that worker's job, or about to be.          *)
HeldInv ==
    \A i \in DOMAIN workInfo : workInfo[i] \in Worker =>
        \/ workerMap[workInfo[i]].state = "Ready" /\ workerMap[workInfo[i]].work.id = i
        \/ pc = "announce" /\ readyWork = i

(* A worker that is at work has been told to, and has not been taken for   *)
(* dead unless it is marked so.                                            *)
WorkerInv(w) ==
    /\ wpc[w] = "new" => workerMap[w].state = "unknown"
    /\ wpc[w] = "dying" => workerMap[w].state = "Exiting"
    /\ wpc[w] \in AtWork => workerMap[w].state \in {"Ready", "Death"}
    /\ workerMap[w].state = "Ready" =>
         /\ workerMap[w].work.type = phase
         /\ workerMap[w].work.id \in DOMAIN workInfo
         /\ workInfo[workerMap[w].work.id] = w
         /\ wpc[w] \in AtWork => job[w] = workerMap[w].work
    /\ wpc[w] \in AtMap \cup {"renaming"} => job[w].type = "Map" /\ job[w].id \in Maps
    /\ wpc[w] \in AtReduce =>
         job[w].type = "Reduce" /\ job[w].id \in Reduces /\ phase = "Reduce"

TaskInv == TypeInv /\ LoopInv /\ HeldInv /\ \A w \in Worker : WorkerInv(w)

(* Where the intermediate files of a finished map task are: with a worker  *)
(* only if it is not making them again.                                    *)
Keeps(w, m, r) ==
    /\ <<m, r>> \in tmp[w]
    /\ wpc[w] \in {"renaming", "crashed"} \/ w \in unrenamed
    /\ ~(wpc[w] \in AtMap /\ job[w].id = m)

InterInv ==
    /\ \A w \in Worker : wpc[w] = "mapped" => {job[w].id} \X Reduces \subseteq tmp[w]
    /\ \A m \in Maps, r \in Reduces : MapDone(m) =>
         <<m, r>> \in inter \/ \E w \in Worker : Keeps(w, m, r)

(* A part of the output that is written, of all map tasks that were found. *)
Good(r, b) ==
    /\ out[r][b] # Hole
    /\ \A m \in Maps : <<m, r>> \in missed \/ m \in out[r][b]

(* A worker that has the file open, as the owner of the task or after the  *)
(* task was taken from it, and has not come past the given places.         *)
OpenAt(w, r, places) ==
    /\ wpc[w] \in places \cup {"crashed"}
    /\ job[w].type = "Reduce" /\ job[w].id = r
    /\ \/ workerMap[w].state = "Death"
       \/ workerMap[w].state = "Ready" /\ workerMap[w].work = job[w]

(* Nobody has come to write the file. *)
Fresh(r) ==
    /\ phase = "Reduce" => r \in DOMAIN workInfo /\ workInfo[r] # "done"
    /\ \A w \in Worker : wpc[w] \in {"write1", "write2", "reduced"} => job[w].id # r

(* A part that is not good was emptied by a worker that has yet to write   *)
(* it, or the output has once failed.                                      *)
Written(r, b, places) ==
    Good(r, b) \/ r \in unwritten \/ Fresh(r) \/ \E w \in Worker : OpenAt(w, r, places)

OutInv ==
    /\ out \in [Reduces -> [Blocks -> SUBSET (Maps \cup Hole)]]
    /\ \A w \in Worker : wpc[w] \in {"create", "write1", "write2"} =>
         \A m \in Maps : <<m, job[w].id>> \in missed \/ m \in read[w]
    /\ \A r \in Reduces :
         Written(r, 1, {"write1"}) /\ Written(r, 2, {"write1", "write2"})

-----------------------------------------------------------------------------
(* A non-empty set of tasks has a first one. *)
LEMMA FirstTask ==
    ASSUME NEW T \in SUBSET Nat, T # {}
    PROVE  Min(T) \in T
<1>1. PICK x \in T : \A y \in T : ~(<<y, x>> \in OpToRel(<, Nat))
  BY NatLessThanWellFounded, WFMin
<1>2. \A y \in T : ~(y < x)
  BY <1>1, Zenon DEF OpToRel
<1>3. \A y \in T : x =< y
  BY <1>2
<1> QED
  BY <1>3 DEF Min

LEMMA InitTasks == Init => TaskInv
BY MRAssumption
   DEF Init, TaskInv, TypeInv, LoopInv, HeldInv, WorkerInv, Looping, Tasks, Info, NoJob, Jobs,
       WorkerInfo, AtWork, AtMap, AtReduce

-----------------------------------------------------------------------------
(* The coordinator's blocks, in the order of AllocWork and Exit. *)

LEMMA StartKeeps ==
    ASSUME TaskInv, Start
    PROVE  TaskInv'
BY MRAssumption
   DEF Start, TaskInv, TypeInv, LoopInv, HeldInv, WorkerInv, Looping, Tasks, files, history,
       AtWork, AtMap, AtReduce

(* Whoever is taken for dead had one task, which is ready again. *)
LEMMA RecoverKeeps ==
    ASSUME TaskInv, NEW overdue \in SUBSET Held, Recover(overdue)
    PROVE  TaskInv'
<1> USE DEF TaskInv, Recover, files, history
<1>1. /\ pc = "recover" /\ pc' = "find"
      /\ workInfo \in [Tasks(phase) -> Worker \cup {"ready", "done"}]
      /\ workInfo' \in [Tasks(phase) -> Worker \cup {"ready", "done"}]
      /\ \A i \in Tasks(phase) : workInfo'[i] = IF i \in overdue THEN "ready" ELSE workInfo[i]
  BY DEF TypeInv
<1>2. /\ workerMap' \in [Worker -> WorkerInfo]
      /\ \A w \in Worker : IF w \in Holders(overdue)
                            THEN workerMap'[w].state = "Death"
                            ELSE workerMap'[w] = workerMap[w]
  BY DEF TypeInv, WorkerInfo, Info, NoJob, Jobs
<1>3. TypeInv'
  BY <1>1, <1>2 DEF TypeInv, Looping
<1>4. LoopInv'
  BY <1>1, <1>3 DEF LoopInv
<1>5. ASSUME NEW i \in Tasks(phase), workInfo'[i] \in Worker
      PROVE  /\ workInfo[i] = workInfo'[i] /\ i \notin overdue
             /\ workInfo[i] \notin Holders(overdue)
  <2>1. workInfo[i] = workInfo'[i] /\ i \notin overdue
    BY <1>1, <1>5, MRAssumption
  <2>2. ASSUME NEW j \in overdue, workInfo[j] = workInfo[i] PROVE FALSE
    BY <1>1, <1>5, <2>1, <2>2 DEF HeldInv, Held
  <2> QED
    BY <2>1, <2>2 DEF Holders
<1>6. HeldInv'
  BY <1>1, <1>2, <1>5 DEF HeldInv
<1>7. ASSUME NEW w \in Worker PROVE WorkerInv(w)'
  <2>1. CASE w \in Holders(overdue)
    <3>1. PICK i \in overdue : w = workInfo[i]
      BY <2>1 DEF Holders
    <3>2. workerMap[w].state = "Ready"
      BY <1>1, <3>1 DEF HeldInv, Held
    <3> QED
      BY <1>1, <1>2, <2>1, <3>2 DEF WorkerInv, AtWork
  <2>2. CASE w \notin Holders(overdue)
    <3>1. workerMap[w].state = "Ready" => workerMap[w].work.id \notin overdue
      BY <2>2 DEF WorkerInv, Holders
    <3> QED
      BY <1>1, <1>2, <2>2, <3>1 DEF WorkerInv
  <2> QED
    BY <2>1, <2>2
<1> QED
  BY <1>3, <1>4, <1>6, <1>7

LEMMA FindKeeps ==
    ASSUME TaskInv, FindReady \/ FindWait \/ MapPhaseDone \/ ReducePhaseDone
    PROVE  TaskInv'
<1> USE DEF TaskInv, files, history
<1>0. pc = "find" /\ workInfo \in [Tasks(phase) -> Worker \cup {"ready", "done"}]
  BY DEF FindReady, FindWait, MapPhaseDone, ReducePhaseDone, TypeInv
<1>1. CASE FindReady
  <2>1. readyWork' \in ReadyTasks /\ readyWork' \in Nat
    <3>1. ReadyTasks \subseteq Nat
      BY <1>0, MRAssumption DEF ReadyTasks, Tasks, Maps, Reduces
    <3> QED
      BY <1>1, <3>1, FirstTask DEF FindReady
  <2> QED
    BY <1>0, <1>1, <2>1
       DEF FindReady, ReadyTasks, TypeInv, LoopInv, HeldInv, WorkerInv, Looping
<1>2. CASE FindWait
  BY <1>0, <1>2 DEF FindWait, TypeInv, LoopInv, HeldInv, WorkerInv, Looping
<1>3. ASSUME AllTasksDone
      PROVE  /\ \A i \in DOMAIN workInfo : workInfo[i] = "done"
             /\ \A w \in Worker : workerMap[w].state # "Ready"
  <2>1. \A i \in DOMAIN workInfo : workInfo[i] = "done"
    BY <1>0, <1>3 DEF AllTasksDone, ReadyTasks, Held
  <2> QED
    BY <2>1, MRAssumption DEF WorkerInv
<1>4. CASE MapPhaseDone
  BY <1>0, <1>3, <1>4, MRAssumption
     DEF MapPhaseDone, TypeInv, LoopInv, HeldInv, WorkerInv, Looping, Tasks
<1>5. CASE ReducePhaseDone
  BY <1>0, <1>3, <1>5
     DEF ReducePhaseDone, TypeInv, LoopInv, HeldInv, WorkerInv, Looping
<1> QED
  BY <1>1, <1>2, <1>4, <1>5

LEMMA PickKeeps ==
    ASSUME TaskInv, PickWorker \/ NoFreeWorker
    PROVE  TaskInv'
<1> USE DEF TaskInv, files, history
<1>1. CASE PickWorker
  BY <1>1 DEF PickWorker, FreeWorkers, TypeInv, LoopInv, HeldInv, WorkerInv, Looping
<1>2. CASE NoFreeWorker
  BY <1>2 DEF NoFreeWorker, TypeInv, LoopInv, HeldInv, WorkerInv, Looping
<1> QED
  BY <1>1, <1>2

(* The task goes to a worker that has none: a free worker has none. *)
LEMMA AssignKeeps ==
    ASSUME TaskInv, Assign
    PROVE  TaskInv'
<1> USE DEF TaskInv, Assign, files, history
<1>1. /\ pc = "assign" /\ pc' = "announce"
      /\ workInfo \in [Tasks(phase) -> Worker \cup {"ready", "done"}]
      /\ workerId \in Worker /\ workerMap[workerId].state = "Free"
      /\ readyWork \in Tasks(phase) /\ workInfo[readyWork] = "ready"
  BY DEF TypeInv, LoopInv
<1>2. TypeInv' /\ LoopInv'
  BY <1>1 DEF TypeInv, LoopInv, Looping
<1>3. HeldInv'
  BY <1>1 DEF HeldInv
<1>4. ASSUME NEW w \in Worker PROVE WorkerInv(w)'
  BY <1>1, MRAssumption DEF WorkerInv
<1> QED
  BY <1>2, <1>3, <1>4

LEMMA AnnounceKeeps ==
    ASSUME TaskInv, Announce
    PROVE  TaskInv'
<1> USE DEF TaskInv, Announce, files, history
<1>1. /\ pc = "announce" /\ pc' = "recover"
      /\ workInfo \in [Tasks(phase) -> Worker \cup {"ready", "done"}] /\ workInfo' = workInfo
      /\ workerId \in Worker /\ workerMap[workerId].state = "Free"
      /\ readyWork \in Tasks(phase) /\ workInfo[readyWork] = workerId
  BY DEF TypeInv, LoopInv
<1>2. /\ workerMap' \in [Worker -> WorkerInfo]
      /\ workerMap'[workerId].state = "Ready"
      /\ workerMap'[workerId].work.type = phase
      /\ workerMap'[workerId].work.id = readyWork
      /\ \A w \in Worker \ {workerId} : workerMap'[w] = workerMap[w]
  BY <1>1 DEF TypeInv, WorkerInfo, NewJob, Info, Jobs
<1>3. TypeInv' /\ LoopInv'
  BY <1>1, <1>2 DEF TypeInv, LoopInv, Looping
<1>4. HeldInv'
  BY <1>1, <1>2 DEF HeldInv
<1>5. ASSUME NEW w \in Worker PROVE WorkerInv(w)'
  BY <1>1, <1>2, MRAssumption DEF WorkerInv, AtWork, AtMap, AtReduce
<1> QED
  BY <1>3, <1>4, <1>5

LEMMA ExitKeeps ==
    ASSUME TaskInv, SendExit \/ AllDead
    PROVE  TaskInv'
<1> USE DEF TaskInv, files, history
<1>1. CASE SendExit
  <2>1. /\ workerMap' \in [Worker -> WorkerInfo]
        /\ \A w \in Worker :
             \/ workerMap[w].state \in {"unknown", "Death"} /\ workerMap'[w] = workerMap[w]
             \/ /\ workerMap[w].state \notin {"unknown", "Death"}
                /\ workerMap'[w].state = "Exiting"
    BY <1>1 DEF SendExit, Tells, TypeInv, WorkerInfo, Info, NoJob, Jobs
  <2>2. \A i \in DOMAIN workInfo : workInfo[i] \notin Worker
    BY <1>1, MRAssumption DEF SendExit, LoopInv
  <2>3. TypeInv' /\ LoopInv' /\ HeldInv'
    BY <1>1, <2>1, <2>2 DEF SendExit, TypeInv, LoopInv, HeldInv, Looping
  <2>4. ASSUME NEW w \in Worker PROVE WorkerInv(w)'
    BY <1>1, <2>1, <2>2 DEF SendExit, WorkerInv
  <2> QED
    BY <2>3, <2>4
<1>2. CASE AllDead
  BY <1>2 DEF AllDead, TypeInv, LoopInv, HeldInv, WorkerInv, Looping
<1> QED
  BY <1>1, <1>2

-----------------------------------------------------------------------------
(* The workers. *)

LEMMA RegisterKeeps ==
    ASSUME TaskInv, NEW w \in Worker, Register(w)
    PROVE  TaskInv'
<1> USE DEF TaskInv, Register, files, history
<1>1. CASE state = "Working"
  <2>1. /\ workerMap' \in [Worker -> WorkerInfo]
        /\ workerMap'[w].state = "Free" /\ workerMap[w].state = "unknown"
        /\ \A v \in Worker \ {w} : workerMap'[v] = workerMap[v]
    <3>1. workerMap[w].state = "unknown"
      BY DEF WorkerInv
    <3>2. Info("Free", NoJob) \in WorkerInfo /\ Info("Free", NoJob).state = "Free"
      BY DEF WorkerInfo, Info, NoJob, Jobs
    <3> QED
      BY <1>1, <3>1, <3>2 DEF TypeInv
  <2>2. TypeInv' /\ LoopInv'
    BY <1>1, <2>1 DEF TypeInv, LoopInv
  <2>3. HeldInv'
    BY <1>1, <2>1 DEF HeldInv
  <2>4. ASSUME NEW v \in Worker PROVE WorkerInv(v)'
    BY <1>1, <2>1 DEF TypeInv, WorkerInv, AtWork, AtMap, AtReduce
  <2> QED
    BY <2>2, <2>3, <2>4
<1>2. CASE state # "Working"
  BY <1>2 DEF TypeInv, LoopInv, HeldInv, WorkerInv, AtWork, AtMap, AtReduce
<1> QED
  BY <1>1, <1>2

LEMMA TakeJobKeeps ==
    ASSUME TaskInv, NEW w \in Worker, TakeJob(w)
    PROVE  TaskInv'
<1> USE DEF TaskInv, TakeJob, coordVars, files, history
<1>1. /\ workerMap[w].state = "Ready" /\ workerMap[w].work \in Jobs
      /\ workerMap[w].work.type = phase /\ workerMap[w].work.id \in Tasks(phase)
  BY DEF TypeInv, WorkerInv, WorkerInfo
<1>2. TypeInv' /\ LoopInv' /\ HeldInv'
  BY <1>1 DEF TypeInv, LoopInv, HeldInv, AtWork, AtMap, AtReduce
<1>3. ASSUME NEW v \in Worker PROVE WorkerInv(v)'
  <2>1. CASE v = w
    BY <1>1, <2>1 DEF TypeInv, WorkerInv, Tasks, AtWork, AtMap, AtReduce
  <2>2. CASE v # w
    BY <2>2 DEF TypeInv, WorkerInv
  <2> QED
    BY <2>1, <2>2
<1> QED
  BY <1>2, <1>3

(* Work on files. *)
LEMMA FilesKeep ==
    ASSUME TaskInv, NEW w \in Worker,
           \/ MapFile(w) \/ Rename(w) \/ ReadInter(w) \/ Create(w) \/ Write(w)
           \/ GiveUpMap(w) \/ CreateFails(w) \/ WriteFails(w)
    PROVE  TaskInv'
<1> USE DEF TaskInv, coordVars, files, history
<1>1. /\ wpc' \in [Worker -> AtWork \cup {"new", "poll", "renaming", "dying", "gone", "crashed"}]
      /\ job' = job
      /\ \A v \in Worker \ {w} : wpc'[v] = wpc[v]
      /\ \/ wpc[w] \in AtMap /\ wpc'[w] \in AtMap
         \/ wpc[w] \in AtReduce /\ wpc'[w] \in AtReduce
         \/ wpc[w] = "renaming" /\ wpc'[w] = "renaming"
         \/ wpc'[w] = "poll"
  BY DEF MapFile, Rename, ReadInter, Create, Write, GiveUpMap, CreateFails, WriteFails,
         TypeInv, AtWork, AtMap, AtReduce
<1>2. /\ tmp' \in [Worker -> SUBSET (Maps \X Reduces)] /\ inter' \subseteq Maps \X Reduces
      /\ read' \in [Worker -> SUBSET Maps]
  <2>1. CASE MapFile(w)
    <3>1. {job[w].id} \X Reduces \subseteq Maps \X Reduces
      BY <2>1 DEF MapFile, WorkerInv, AtMap
    <3> QED
      BY <2>1, <3>1 DEF MapFile, TypeInv
  <2>2. CASE Rename(w)
    BY <2>2 DEF Rename, TypeInv
  <2>3. CASE ReadInter(w) \/ Create(w) \/ Write(w) \/ CreateFails(w) \/ WriteFails(w)
    BY <2>3 DEF ReadInter, Create, Write, CreateFails, WriteFails, TypeInv
  <2>4. CASE GiveUpMap(w)
    <3>1. PICK r \in Reduces :
             tmp' = [tmp EXCEPT ![w] =
                       (@ \cup ({job[w].id} \X (1..(r - 1)))) \ {<<job[w].id, r>>}]
      BY <2>4 DEF GiveUpMap
    <3>2. 1..(r - 1) \subseteq Reduces
      BY MRAssumption DEF Reduces
    <3>3. {job[w].id} \X (1..(r - 1)) \subseteq Maps \X Reduces
      BY <2>4, <3>2 DEF GiveUpMap, WorkerInv, AtMap
    <3> QED
      BY <2>4, <3>1, <3>3 DEF GiveUpMap, TypeInv
  <2> QED
    BY <2>1, <2>2, <2>3, <2>4
<1>3. /\ pc' = pc /\ state' = state /\ phase' = phase /\ workInfo' = workInfo
      /\ workerMap' = workerMap /\ readyWork' = readyWork /\ workerId' = workerId
  BY DEF MapFile, Rename, ReadInter, Create, Write, GiveUpMap, CreateFails, WriteFails
<1>4. TypeInv' /\ LoopInv' /\ HeldInv'
  BY <1>1, <1>2, <1>3 DEF TypeInv, LoopInv, HeldInv
<1>5. ASSUME NEW v \in Worker PROVE WorkerInv(v)'
  BY <1>1, <1>3 DEF WorkerInv, AtWork, AtMap, AtReduce
<1> QED
  BY <1>4, <1>5

(* A worker whose report is accepted had the task it reports. *)
LEMMA ReportsOwn ==
    ASSUME TaskInv, NEW w \in Worker, wpc[w] \in AtWork, Accepts(w)
    PROVE  /\ workerMap[w].state = "Ready" /\ job[w] = workerMap[w].work
           /\ job[w].type = phase
           /\ job[w].id \in DOMAIN workInfo /\ workInfo[job[w].id] = w
BY DEF TaskInv, WorkerInv, Accepts

LEMMA FinishKeeps ==
    ASSUME TaskInv, NEW w \in Worker, RefuseMap(w) \/ FinishMap(w) \/ FinishReduce(w)
    PROVE  TaskInv'
<1> USE DEF TaskInv, files, history
<1>1. /\ wpc[w] \in {"mapped", "reduced"} /\ wpc[w] \in AtWork
      /\ wpc' = [wpc EXCEPT ![w] = wpc'[w]]
      /\ \/ wpc'[w] = "poll"
         \/ wpc'[w] = "renaming" /\ wpc[w] = "mapped"
      /\ WorkFinish(w)
      /\ pc' = pc /\ state' = state /\ phase' = phase
      /\ readyWork' = readyWork /\ workerId' = workerId
      /\ job' = job /\ read' = read /\ tmp' = tmp /\ inter' = inter
  BY DEF RefuseMap, FinishMap, FinishReduce, TypeInv, AtWork, AtMap, AtReduce
<1>2. CASE ~Accepts(w)
  <2>1. workerMap' = workerMap /\ workInfo' = workInfo
    BY <1>1, <1>2 DEF WorkFinish
  <2>2. TypeInv' /\ LoopInv' /\ HeldInv'
    BY <1>1, <2>1 DEF TypeInv, LoopInv, HeldInv
  <2>3. ASSUME NEW v \in Worker PROVE WorkerInv(v)'
    BY <1>1, <2>1 DEF TypeInv, WorkerInv, AtWork, AtMap, AtReduce
  <2> QED
    BY <2>2, <2>3
<1>3. CASE Accepts(w)
  <2> DEFINE i == job[w].id
  <2>1. /\ workerMap[w].state = "Ready" /\ job[w] = workerMap[w].work
        /\ i \in DOMAIN workInfo /\ workInfo[i] = w
    BY <1>1, <1>3, ReportsOwn
  <2>2. /\ workerMap' \in [Worker -> WorkerInfo]
        /\ workerMap'[w].state = "Free"
        /\ \A v \in Worker \ {w} : workerMap'[v] = workerMap[v]
    <3>1. Info("Free", NoJob) \in WorkerInfo /\ Info("Free", NoJob).state = "Free"
      BY DEF WorkerInfo, Info, NoJob, Jobs
    <3> QED
      BY <1>1, <1>3, <3>1 DEF WorkFinish, TypeInv
  <2>3. workInfo' = [workInfo EXCEPT ![i] = "done"]
    BY <1>1, <1>3 DEF WorkFinish
  <2>4. TypeInv'
    BY <1>1, <2>2, <2>3 DEF TypeInv
  <2>5. LoopInv'
    BY <1>1, <2>1, <2>2, <2>3, MRAssumption DEF LoopInv, TypeInv
  <2>6. HeldInv'
    BY <1>1, <2>1, <2>2, <2>3, MRAssumption DEF HeldInv, TypeInv
  <2>7. ASSUME NEW v \in Worker PROVE WorkerInv(v)'
    BY <1>1, <2>1, <2>2, <2>3 DEF TypeInv, WorkerInv, AtWork, AtMap, AtReduce
  <2> QED
    BY <2>4, <2>5, <2>6, <2>7
<1> QED
  BY <1>2, <1>3

LEMMA LeaveKeeps ==
    ASSUME TaskInv, NEW w \in Worker,
           \/ GiveUpReduce(w) \/ GiveUpRename(w)
           \/ LearnExit(w) \/ WorkerDeath(w) \/ Orphaned(w) \/ Crash(w)
    PROVE  TaskInv'
<1> USE DEF TaskInv, coordVars, files, history
<1>1. CASE WorkerDeath(w)
  <2>1. /\ workerMap' \in [Worker -> WorkerInfo]
        /\ workerMap'[w].state = "Death" /\ workerMap[w].state = "Exiting"
        /\ \A v \in Worker \ {w} : workerMap'[v] = workerMap[v]
    BY <1>1 DEF WorkerDeath, TypeInv, WorkerInv, WorkerInfo, Info, NoJob, Jobs
  <2>2. TypeInv' /\ LoopInv' /\ HeldInv'
    BY <1>1, <2>1 DEF WorkerDeath, TypeInv, LoopInv, HeldInv
  <2>3. ASSUME NEW v \in Worker PROVE WorkerInv(v)'
    BY <1>1, <2>1 DEF WorkerDeath, TypeInv, WorkerInv, AtWork, AtMap, AtReduce
  <2> QED
    BY <2>2, <2>3
<1>2. CASE GiveUpReduce(w) \/ GiveUpRename(w) \/ LearnExit(w) \/ Orphaned(w) \/ Crash(w)
  <2>1. /\ wpc' = [wpc EXCEPT ![w] = wpc'[w]]
        /\ \/ wpc'[w] \in {"poll", "gone", "crashed"}
           \/ wpc'[w] = "dying" /\ workerMap[w].state = "Exiting"
    BY <1>2 DEF GiveUpReduce, GiveUpRename, LearnExit, Orphaned, Crash, TypeInv
  <2>2. TypeInv' /\ LoopInv' /\ HeldInv'
    <3>1. TypeInv'
      BY <1>2, <2>1 DEF GiveUpReduce, GiveUpRename, LearnExit, Orphaned, Crash, TypeInv
    <3>2. LoopInv'
      BY <1>2 DEF GiveUpReduce, GiveUpRename, LearnExit, Orphaned, Crash, LoopInv
    <3>3. HeldInv'
      BY <1>2 DEF GiveUpReduce, GiveUpRename, LearnExit, Orphaned, Crash, HeldInv
    <3> QED
      BY <3>1, <3>2, <3>3
  <2>3. /\ phase' = phase /\ workInfo' = workInfo /\ workerMap' = workerMap /\ job' = job
    BY <1>2 DEF GiveUpReduce, GiveUpRename, LearnExit, Orphaned, Crash
  <2>4. ASSUME NEW v \in Worker PROVE WorkerInv(v)'
    <3>1. CASE v = w
      BY <2>1, <2>3, <3>1 DEF TypeInv, WorkerInv, AtWork, AtMap, AtReduce
    <3>2. CASE v # w
      BY <2>1, <2>3, <3>2 DEF TypeInv, WorkerInv
    <3> QED
      BY <3>1, <3>2
  <2> QED
    BY <2>2, <2>4
<1> QED
  BY <1>1, <1>2

LEMMA TaskStep == TaskInv /\ [Next]_vars => TaskInv'
<1> SUFFICES ASSUME TaskInv, [Next]_vars PROVE TaskInv'
  OBVIOUS
<1>1. CASE Coordinator
  <2>1. ASSUME NEW overdue \in SUBSET MayBeOverdue, Recover(overdue) PROVE TaskInv'
    BY <2>1, RecoverKeeps DEF MayBeOverdue
  <2>2. CASE AwaitDeaths
    BY <2>2 DEF AwaitDeaths, vars, TaskInv, TypeInv, LoopInv, HeldInv, WorkerInv
  <2> QED
    BY <1>1, <2>1, <2>2, StartKeeps, FindKeeps, PickKeeps, AssignKeeps, AnnounceKeeps,
       ExitKeeps DEF Coordinator
<1>2. ASSUME NEW w \in Worker, Register(w) \/ Work(w) \/ Errors(w) \/ Crash(w)
      PROVE  TaskInv'
  BY <1>2, RegisterKeeps, TakeJobKeeps, FilesKeep, FinishKeeps, LeaveKeeps DEF Work, Errors
<1>3. CASE UNCHANGED vars
  BY <1>3 DEF vars, TaskInv, TypeInv, LoopInv, HeldInv, WorkerInv
<1> QED
  BY <1>1, <1>2, <1>3 DEF Next, Ended

(* In every schedule and with every fault: a worker that is not marked     *)
(* dead reports the task it was given, of the phase that is on, so         *)
(* WorkFinish need not look at more than the mark (coordinator.go:83-94).  *)
THEOREM OwnTaskFinished == Spec => []FinishesOwnTask
<1>1. TaskInv => FinishesOwnTask
  BY DEF TaskInv, WorkerInv, FinishesOwnTask, AtWork, AtMap, AtReduce
<1> QED
  BY <1>1, InitTasks, TaskStep, PTL DEF Spec

(* In every schedule and with every fault: no worker has two tasks,        *)
(* although the coordinator picks a worker and hands out the task under    *)
(* different locks (coordinator.go:194-226).                               *)
THEOREM OneTaskOnly == Spec => []OneTaskEach
<1>1. TaskInv => OneTaskEach
  BY DEF TaskInv, HeldInv, LoopInv, OneTaskEach, Held
<1> QED
  BY <1>1, InitTasks, TaskStep, PTL DEF Spec

-----------------------------------------------------------------------------
(* Steps that leave the files, and what is known of them, alone: nobody    *)
(* begins, or gets done with, a map task, or leaves its renaming.          *)
LEMMA FilesAlone ==
    ASSUME InterInv, tmp' = tmp, inter' = inter, unrenamed' = unrenamed,
           \A w \in Worker : wpc'[w] \in AtMap => wpc[w] = wpc'[w] /\ job'[w] = job[w],
           \A w \in Worker : wpc[w] \in {"renaming", "crashed"} =>
                             wpc'[w] \in {"renaming", "crashed"},
           \A m \in Maps : MapDone(m)' => MapDone(m)
    PROVE  InterInv'
<1>1. \A w \in Worker : wpc'[w] = "mapped" => {job'[w].id} \X Reduces \subseteq tmp'[w]
  BY DEF InterInv, AtMap
<1>2. \A w \in Worker, m \in Maps, r \in Reduces : Keeps(w, m, r) => Keeps(w, m, r)'
  BY DEF Keeps
<1> QED
  BY <1>1, <1>2 DEF InterInv

LEMMA InterCoordinator ==
    ASSUME TaskInv, InterInv, Coordinator
    PROVE  InterInv'
<1> USE DEF TaskInv, files, history, MapDone
<1>1. CASE MapPhaseDone
  <2>1. \A m \in Maps : m \in DOMAIN workInfo /\ workInfo[m] = "done"
    BY <1>1 DEF MapPhaseDone, AllTasksDone, ReadyTasks, Held, TypeInv, Tasks
  <2> QED
    BY <1>1, <2>1, FilesAlone DEF MapPhaseDone
<1>2. CASE Start
  BY <1>2, FilesAlone DEF Start, TypeInv
<1>3. ASSUME NEW overdue \in SUBSET Held, Recover(overdue) PROVE InterInv'
  BY <1>3, FilesAlone DEF Recover
<1>4. CASE FindReady \/ FindWait \/ ReducePhaseDone \/ PickWorker \/ NoFreeWorker
  BY <1>4, FilesAlone DEF FindReady, FindWait, ReducePhaseDone, PickWorker, NoFreeWorker
<1>5. CASE Assign
  <2>1. workerId # "done"
    BY <1>5, MRAssumption DEF Assign, LoopInv
  <2> QED
    BY <1>5, <2>1, FilesAlone DEF Assign, TypeInv
<1>6. CASE Announce \/ SendExit \/ AllDead
  BY <1>6, FilesAlone DEF Announce, SendExit, AllDead
<1>7. CASE AwaitDeaths
  BY <1>7, FilesAlone DEF AwaitDeaths, vars
<1> QED
  BY <1>1, <1>2, <1>3, <1>4, <1>5, <1>6, <1>7 DEF Coordinator, MayBeOverdue

(* A worker that begins a map task has it: the task is not done, so nobody *)
(* counts on the files the worker is about to make.                        *)
LEMMA InterTakeJob ==
    ASSUME TaskInv, InterInv, NEW w \in Worker, TakeJob(w)
    PROVE  InterInv'
<1> USE DEF TaskInv, coordVars, files, history
<1>1. /\ wpc[w] = "poll" /\ workerMap[w].state = "Ready"
      /\ job' = [job EXCEPT ![w] = workerMap[w].work]
      /\ wpc' = [wpc EXCEPT ![w] = IF workerMap[w].work.type = "Map" THEN "map" ELSE "reduce"]
      /\ tmp' = tmp /\ inter' = inter /\ unrenamed' = unrenamed
      /\ phase' = phase /\ workInfo' = workInfo
  BY DEF TakeJob
<1>2. ASSUME NEW m \in Maps, MapDone(m), wpc'[w] \in AtMap PROVE job'[w].id # m
  <2>1. workerMap[w].work.type = "Map" /\ job'[w] = workerMap[w].work
    BY <1>1, <1>2 DEF TypeInv, AtMap
  <2>2. phase = "Map" /\ workInfo[workerMap[w].work.id] = w
    BY <1>1, <2>1 DEF WorkerInv
  <2> QED
    BY <1>2, <2>1, <2>2, MRAssumption DEF MapDone
<1>3. ASSUME NEW v \in Worker, NEW m \in Maps, NEW r \in Reduces, MapDone(m), Keeps(v, m, r)
      PROVE  Keeps(v, m, r)'
  <2>1. CASE v = w
    BY <1>1, <1>2, <1>3, <2>1 DEF Keeps, TypeInv
  <2>2. CASE v # w
    BY <1>1, <1>3, <2>2 DEF Keeps, TypeInv
  <2> QED
    BY <2>1, <2>2
<1>4. \A v \in Worker : wpc'[v] = "mapped" => {job'[v].id} \X Reduces \subseteq tmp'[v]
  BY <1>1 DEF InterInv, TypeInv
<1> QED
  BY <1>1, <1>3, <1>4 DEF InterInv, MapDone

(* Making the files of a task, whole or not, touches no other task's.      *)
LEMMA InterMap ==
    ASSUME TaskInv, InterInv, NEW w \in Worker, MapFile(w) \/ GiveUpMap(w)
    PROVE  InterInv'
<1> USE DEF TaskInv, coordVars, files, history
<1>1. /\ wpc[w] = "map" /\ inter' = inter /\ unrenamed' = unrenamed /\ job' = job
      /\ phase' = phase /\ workInfo' = workInfo
      /\ \A v \in Worker \ {w} : wpc'[v] = wpc[v] /\ tmp'[v] = tmp[v]
      /\ wpc'[w] \in {"mapped", "poll"}
      /\ wpc'[w] = "mapped" => {job[w].id} \X Reduces \subseteq tmp'[w]
  <2>1. CASE MapFile(w)
    BY <2>1 DEF MapFile, TypeInv
  <2>2. CASE GiveUpMap(w)
    <3>1. wpc'[w] = "poll"
      BY <2>2 DEF GiveUpMap, TypeInv
    <3>2. \A v \in Worker \ {w} : wpc'[v] = wpc[v] /\ tmp'[v] = tmp[v]
      BY <2>2 DEF GiveUpMap, TypeInv
    <3> QED
      BY <2>2, <3>1, <3>2 DEF GiveUpMap
  <2> QED
    BY <2>1, <2>2
<1>2. ASSUME NEW m, NEW r, <<m, r>> \in tmp[w], m # job[w].id
      PROVE  <<m, r>> \in tmp'[w]
  BY <1>2 DEF MapFile, GiveUpMap, TypeInv
<1>3. ASSUME NEW v \in Worker, NEW m \in Maps, NEW r \in Reduces, Keeps(v, m, r)
      PROVE  Keeps(v, m, r)'
  <2>1. CASE v = w
    BY <1>1, <1>2, <1>3, <2>1 DEF Keeps, AtMap
  <2>2. CASE v # w
    BY <1>1, <1>3, <2>2 DEF Keeps
  <2> QED
    BY <2>1, <2>2
<1>4. \A v \in Worker : wpc'[v] = "mapped" => {job'[v].id} \X Reduces \subseteq tmp'[v]
  BY <1>1 DEF InterInv
<1> QED
  BY <1>1, <1>3, <1>4 DEF InterInv, MapDone

(* A file that is renamed is in place. *)
LEMMA InterRename ==
    ASSUME TaskInv, InterInv, NEW w \in Worker, Rename(w)
    PROVE  InterInv'
<1> USE DEF TaskInv, coordVars, files, history
<1>1. PICK f \in tmp[w] :
         /\ tmp' = [tmp EXCEPT ![w] = @ \ {f}]
         /\ inter' = inter \cup {f}
         /\ wpc' = [wpc EXCEPT ![w] = IF tmp[w] = {f} THEN "poll" ELSE @]
  BY DEF Rename
<1>2. /\ wpc[w] = "renaming" /\ phase' = phase /\ workInfo' = workInfo /\ job' = job
      /\ unrenamed' = unrenamed
  BY DEF Rename
<1>3. \A v \in Worker : wpc'[v] = "mapped" => {job'[v].id} \X Reduces \subseteq tmp'[v]
  BY <1>1, <1>2 DEF TypeInv, InterInv
<1>4. ASSUME NEW m \in Maps, NEW r \in Reduces, NEW v \in Worker, Keeps(v, m, r), <<m, r>> # f
      PROVE  Keeps(v, m, r)'
  <2>1. CASE v = w
    BY <1>1, <1>2, <1>4, <2>1 DEF Keeps, TypeInv, AtMap
  <2>2. CASE v # w
    BY <1>1, <1>2, <1>4, <2>2 DEF Keeps, TypeInv
  <2> QED
    BY <2>1, <2>2
<1>5. ASSUME NEW m \in Maps, NEW r \in Reduces, MapDone(m)'
      PROVE  <<m, r>> \in inter' \/ \E v \in Worker : Keeps(v, m, r)'
  <2>1. MapDone(m)
    BY <1>2, <1>5 DEF MapDone
  <2> QED
    BY <1>1, <1>4, <2>1 DEF InterInv
<1> QED
  BY <1>3, <1>5 DEF InterInv

LEMMA InterWorker ==
    ASSUME TaskInv, InterInv, NEW w \in Worker,
           Register(w) \/ Work(w) \/ Errors(w) \/ Crash(w)
    PROVE  InterInv'
<1> USE DEF TaskInv, coordVars, files, history
<1>1. CASE FinishMap(w)
  <2>1. /\ job[w].type = "Map" /\ job[w].type = phase
        /\ workInfo' = [workInfo EXCEPT ![job[w].id] = "done"]
        /\ phase' = phase /\ tmp' = tmp /\ inter' = inter /\ job' = job
        /\ unrenamed' = unrenamed
        /\ wpc[w] = "mapped" /\ wpc' = [wpc EXCEPT ![w] = "renaming"]
    BY <1>1, ReportsOwn DEF FinishMap, WorkFinish, WorkerInv, AtWork, AtMap
  <2>2. \A r \in Reduces : <<job[w].id, r>> \in tmp[w]
    BY <2>1 DEF InterInv
  <2>3. \A v \in Worker, m \in Maps, r \in Reduces : Keeps(v, m, r) => Keeps(v, m, r)'
    BY <2>1 DEF Keeps, TypeInv, AtMap
  <2>4. \A r \in Reduces : Keeps(w, job[w].id, r)'
    BY <2>1, <2>2 DEF Keeps, TypeInv, AtMap
  <2>5. \A m \in Maps : MapDone(m)' => MapDone(m) \/ m = job[w].id
    BY <2>1 DEF MapDone, TypeInv
  <2>6. \A v \in Worker : wpc'[v] = "mapped" => {job'[v].id} \X Reduces \subseteq tmp'[v]
    BY <2>1 DEF InterInv, TypeInv
  <2> QED
    BY <2>1, <2>3, <2>4, <2>5, <2>6 DEF InterInv
<1>2. CASE RefuseMap(w)
  BY <1>2, FilesAlone DEF RefuseMap, WorkFinish, TypeInv, MapDone, AtMap
<1>3. CASE FinishReduce(w)
  <2>1. phase = "Reduce"
    BY <1>3 DEF FinishReduce, WorkerInv, AtReduce
  <2> QED
    BY <1>3, <2>1, FilesAlone DEF FinishReduce, TypeInv, MapDone, AtMap
<1>4. CASE Register(w)
  BY <1>4, FilesAlone DEF Register, TypeInv, MapDone, AtMap
<1>5. CASE ReadInter(w) \/ Create(w) \/ CreateFails(w) \/ GiveUpReduce(w)
  BY <1>5, FilesAlone DEF ReadInter, Create, CreateFails, GiveUpReduce, TypeInv, MapDone, AtMap
<1>6. CASE Write(w) \/ WriteFails(w)
  BY <1>6, FilesAlone DEF Write, WriteFails, TypeInv, MapDone, AtMap
<1>7. CASE LearnExit(w) \/ WorkerDeath(w) \/ Orphaned(w) \/ Crash(w)
  BY <1>7, FilesAlone DEF LearnExit, WorkerDeath, Orphaned, Crash, TypeInv, MapDone, AtMap
<1>8. CASE GiveUpRename(w)
  <2>1. \A v \in Worker, m \in Maps, r \in Reduces : Keeps(v, m, r) => Keeps(v, m, r)'
    BY <1>8 DEF GiveUpRename, Keeps, TypeInv, AtMap
  <2>2. \A v \in Worker : wpc'[v] = "mapped" => {job'[v].id} \X Reduces \subseteq tmp'[v]
    BY <1>8 DEF GiveUpRename, InterInv, TypeInv
  <2> QED
    BY <1>8, <2>1, <2>2 DEF GiveUpRename, InterInv, MapDone
<1> QED
  BY <1>1, <1>2, <1>3, <1>4, <1>5, <1>6, <1>7, <1>8, InterTakeJob, InterMap, InterRename
     DEF Work, Errors

LEMMA InterStep ==
    ASSUME TaskInv, InterInv, [Next]_vars
    PROVE  InterInv'
<1>1. CASE UNCHANGED vars
  BY <1>1, FilesAlone DEF vars, MapDone
<1> QED
  BY <1>1, InterCoordinator, InterWorker DEF Next, Ended

(* In every schedule and with every fault: no file of a finished map task  *)
(* is lost, although the task is reported before its files are renamed and *)
(* an error of the renaming is not looked at (worker.go:148-176).          *)
THEOREM FinishedMapsKept == Spec => []MapsKept
<1>1. Init => InterInv
  BY DEF Init, InterInv, MapDone
<1>2. TaskInv /\ InterInv /\ [Next]_vars => InterInv'
  BY InterStep
<1>3. InterInv => MapsKept
  BY DEF InterInv, Keeps, MapsKept
<1> QED
  BY <1>1, <1>2, <1>3, InitTasks, TaskStep, PTL DEF Spec

-----------------------------------------------------------------------------
AtOutput == {"write1", "write2", "reduced"}

(* The two parts of an output file.                                        *)
LEMMA TwoBlocks == Blocks = {1, 2}
  BY SMT DEF Blocks

(* Whoever has a file open stays so when he crashes or loses the task; no  *)
(* step but his own ends it.                                               *)
LEMMA OutputAlone ==
    ASSUME OutInv, out' = out, read' = read, missed' = missed, unwritten' = unwritten,
           \A w \in Worker : wpc'[w] \in AtOutput \cup {"create"} =>
               wpc[w] = wpc'[w] /\ job'[w] = job[w],
           \A w \in Worker, r \in Reduces, places \in SUBSET {"write1", "write2"} :
               OpenAt(w, r, places) => OpenAt(w, r, places)',
           \A r \in Reduces :
               (phase = "Reduce" => r \in DOMAIN workInfo /\ workInfo[r] # "done")
               => (phase' = "Reduce" => r \in DOMAIN workInfo' /\ workInfo'[r] # "done")
    PROVE  OutInv'
<1>1. \A r \in Reduces, b \in Blocks : Good(r, b) => Good(r, b)'
  BY DEF Good
<1>2. \A r \in Reduces : Fresh(r) => Fresh(r)'
  BY DEF Fresh, AtOutput
<1>3. \A r \in Reduces : Written(r, 1, {"write1"}) => Written(r, 1, {"write1"})'
  BY <1>1, <1>2, TwoBlocks DEF Written
<1>4. \A r \in Reduces : Written(r, 2, {"write1", "write2"}) => Written(r, 2, {"write1", "write2"})'
  BY <1>1, <1>2, TwoBlocks DEF Written
<1>5. \A w \in Worker : wpc'[w] \in {"create", "write1", "write2"} =>
          \A m \in Maps : <<m, job'[w].id>> \in missed' \/ m \in read'[w]
  BY DEF OutInv, AtOutput
<1> QED
  BY <1>3, <1>4, <1>5 DEF OutInv

LEMMA OutCoordinator ==
    ASSUME TaskInv, OutInv, Coordinator
    PROVE  OutInv'
<1> USE DEF TaskInv, files, history
<1>1. CASE Start
  BY <1>1, OutputAlone DEF Start, OpenAt, LoopInv
<1>2. CASE MapPhaseDone
  <2>1. \A r \in Reduces : r \in DOMAIN workInfo' /\ workInfo'[r] # "done"
    BY <1>2 DEF MapPhaseDone
  <2> QED
    BY <1>2, <2>1, OutputAlone DEF MapPhaseDone, OpenAt
<1>3. ASSUME NEW overdue \in SUBSET Held, Recover(overdue) PROVE OutInv'
  <2>1. \A i \in DOMAIN workInfo : workInfo'[i] = "done" => workInfo[i] = "done"
    BY <1>3 DEF Recover
  <2>2. \A w \in Worker : workerMap'[w].state = "Death" \/ workerMap'[w] = workerMap[w]
    BY <1>3 DEF Recover, Info
  <2> QED
    BY <1>3, <2>1, <2>2, OutputAlone DEF Recover, OpenAt
<1>4. CASE FindReady \/ FindWait \/ ReducePhaseDone \/ PickWorker \/ NoFreeWorker \/ AllDead
  BY <1>4, OutputAlone DEF FindReady, FindWait, ReducePhaseDone, PickWorker, NoFreeWorker,
                           AllDead, OpenAt
<1>5. CASE Assign
  <2>1. workerId # "done"
    BY <1>5, MRAssumption DEF Assign, LoopInv
  <2> QED
    BY <1>5, <2>1, OutputAlone DEF Assign, TypeInv, OpenAt
<1>6. CASE Announce
  <2>1. workerMap[workerId].state = "Free" /\ workerId \in Worker
    BY <1>6 DEF Announce, LoopInv
  <2>2. \A w \in Worker : workerMap[w].state # "Free" => workerMap'[w] = workerMap[w]
    BY <1>6, <2>1 DEF Announce, TypeInv
  <2> QED
    BY <1>6, <2>2, OutputAlone DEF Announce, OpenAt
<1>7. CASE SendExit
  <2>1. \A w \in Worker : workerMap[w].state # "Ready"
    BY <1>7, MRAssumption DEF SendExit, LoopInv, WorkerInv
  <2>2. \A w \in Worker : workerMap[w].state = "Death" => workerMap'[w] = workerMap[w]
    BY <1>7 DEF SendExit, Tells
  <2> QED
    BY <1>7, <2>1, <2>2, OutputAlone DEF SendExit, OpenAt
<1>8. CASE AwaitDeaths
  BY <1>8, OutputAlone DEF AwaitDeaths, vars, OpenAt
<1> QED
  BY <1>1, <1>2, <1>3, <1>4, <1>5, <1>6, <1>7, <1>8 DEF Coordinator, MayBeOverdue

(* Workers that do not write output: none of them has a file open, unless  *)
(* it crashes.                                                             *)
LEMMA OutWorker ==
    ASSUME TaskInv, OutInv, NEW w \in Worker,
           \/ Register(w) \/ TakeJob(w) \/ MapFile(w) \/ RefuseMap(w) \/ FinishMap(w)
           \/ Rename(w) \/ LearnExit(w) \/ WorkerDeath(w) \/ Orphaned(w) \/ Crash(w)
           \/ GiveUpMap(w) \/ GiveUpReduce(w) \/ GiveUpRename(w)
    PROVE  OutInv'
<1> USE DEF TaskInv, coordVars, files, history
<1>1. CASE Register(w)
  <2>1. \A v \in Worker, r \in Reduces, places \in SUBSET {"write1", "write2"} :
            OpenAt(v, r, places) => OpenAt(v, r, places)'
    BY <1>1 DEF Register, TypeInv, OpenAt
  <2> QED
    BY <1>1, <2>1, OutputAlone DEF Register, TypeInv, AtOutput
<1>2. CASE TakeJob(w)
  <2>1. \A v \in Worker, r \in Reduces, places \in SUBSET {"write1", "write2"} :
            OpenAt(v, r, places) => OpenAt(v, r, places)'
    BY <1>2 DEF TakeJob, TypeInv, OpenAt
  <2> QED
    BY <1>2, <2>1, OutputAlone DEF TakeJob, TypeInv, AtOutput
<1>3. CASE MapFile(w) \/ GiveUpMap(w) \/ GiveUpReduce(w) \/ GiveUpRename(w)
  BY <1>3, OutputAlone
     DEF MapFile, GiveUpMap, GiveUpReduce, GiveUpRename, TypeInv, AtOutput, OpenAt
<1>4. CASE Rename(w)
  <2>1. wpc[w] = "renaming" /\ wpc'[w] \in {"poll", "renaming"}
    BY <1>4 DEF Rename, TypeInv
  <2>2. \A v \in Worker \ {w} : wpc'[v] = wpc[v]
    BY <1>4 DEF Rename, TypeInv
  <2> QED
    BY <1>4, <2>1, <2>2, OutputAlone DEF Rename, AtOutput, OpenAt
<1>5. CASE RefuseMap(w)
  BY <1>5, OutputAlone DEF RefuseMap, WorkFinish, TypeInv, AtOutput, OpenAt
<1>6. CASE FinishMap(w)
  <2>1. phase = "Map"
    BY <1>6, ReportsOwn DEF FinishMap, WorkerInv, AtWork, AtMap
  <2>2. \A v \in Worker, r \in Reduces, places \in SUBSET {"write1", "write2"} :
            OpenAt(v, r, places) => OpenAt(v, r, places)'
    BY <1>6 DEF FinishMap, WorkFinish, TypeInv, OpenAt
  <2> QED
    BY <1>6, <2>1, <2>2, OutputAlone DEF FinishMap, WorkFinish, TypeInv, AtOutput
<1>7. CASE LearnExit(w) \/ Orphaned(w) \/ Crash(w)
  BY <1>7, OutputAlone DEF LearnExit, Orphaned, Crash, TypeInv, AtOutput, OpenAt
<1>8. CASE WorkerDeath(w)
  <2>1. \A v \in Worker, r \in Reduces, places \in SUBSET {"write1", "write2"} :
            OpenAt(v, r, places) => OpenAt(v, r, places)'
    BY <1>8 DEF WorkerDeath, TypeInv, OpenAt
  <2> QED
    BY <1>8, <2>1, OutputAlone DEF WorkerDeath, TypeInv, AtOutput
<1> QED
  BY <1>1, <1>2, <1>3, <1>4, <1>5, <1>6, <1>7, <1>8

(* The outputs of the tasks that a reducer is not at are as good as they   *)
(* were.                                                                   *)
LEMMA OutOthers ==
    ASSUME OutInv, NEW w \in Worker, wpc[w] \in AtReduce, wpc'[w] \in AtReduce \cup {"poll"},
           job' = job, phase' = phase, missed \subseteq missed', unwritten \subseteq unwritten',
           \A v \in Worker \ {w} : wpc'[v] = wpc[v] /\ workerMap'[v] = workerMap[v],
           NEW r \in Reduces, r # job[w].id, out'[r] = out[r],
           r \in DOMAIN workInfo => r \in DOMAIN workInfo' /\ workInfo'[r] = workInfo[r]
    PROVE  Written(r, 1, {"write1"})' /\ Written(r, 2, {"write1", "write2"})'
<1>1. \A b \in Blocks : Good(r, b) => Good(r, b)'
  BY DEF Good
<1>2. Fresh(r) => Fresh(r)'
  BY DEF Fresh
<1>3. \A v \in Worker, places \in SUBSET {"write1", "write2"} :
          OpenAt(v, r, places) => OpenAt(v, r, places)'
  BY DEF OpenAt
<1> QED
  BY <1>1, <1>2, <1>3, TwoBlocks DEF OutInv, Written

(* The worker that writes, late or not. *)
LEMMA OutReduce ==
    ASSUME TaskInv, OutInv, NEW w \in Worker,
           \/ ReadInter(w) \/ Create(w) \/ Write(w) \/ FinishReduce(w)
           \/ CreateFails(w) \/ WriteFails(w)
    PROVE  OutInv'
<1> USE DEF TaskInv, coordVars, files, history
<1>0. /\ wpc[w] \in AtReduce /\ phase = "Reduce" /\ job[w].id \in Reduces /\ job[w].type = "Reduce"
      /\ DOMAIN workInfo = Reduces
      /\ \/ workerMap[w].state = "Death"
         \/ workerMap[w].state = "Ready" /\ workerMap[w].work = job[w]
  <2>1. wpc[w] \in AtReduce /\ wpc[w] \in AtWork
    BY DEF ReadInter, Create, Write, FinishReduce, CreateFails, WriteFails, AtReduce, AtWork
  <2> QED
    BY <2>1 DEF WorkerInv, TypeInv, Tasks, LoopInv
<1>i. PICK i \in Reduces : i = job[w].id
  BY <1>0
<1>1. CASE ReadInter(w)
  <2>1. /\ wpc[w] = "reduce" /\ wpc' = [wpc EXCEPT ![w] = "create"]
        /\ read' = [read EXCEPT ![w] = {m \in Maps : <<m, i>> \in inter}]
        /\ missed' = missed \cup {f \in Maps \X {i} : f \notin inter}
        /\ out' = out /\ unwritten' = unwritten /\ job' = job
        /\ phase' = phase /\ workInfo' = workInfo /\ workerMap' = workerMap
    BY <1>1, <1>i DEF ReadInter
  <2>2. ASSUME NEW r \in Reduces
        PROVE  Written(r, 1, {"write1"})' /\ Written(r, 2, {"write1", "write2"})'
    <3>1. \A b \in Blocks : Good(r, b) => Good(r, b)'
      BY <2>1 DEF Good
    <3>2. Fresh(r) => Fresh(r)'
      BY <2>1 DEF Fresh, TypeInv
    <3>3. \A v \in Worker, places \in SUBSET {"write1", "write2"} :
              OpenAt(v, r, places) => OpenAt(v, r, places)'
      BY <2>1 DEF OpenAt, TypeInv
    <3> QED
      BY <2>1, <3>1, <3>2, <3>3, TwoBlocks DEF OutInv, Written
  <2>3. \A m \in Maps : <<m, i>> \in missed' \/ m \in read'[w]
    BY <2>1 DEF TypeInv
  <2>4. ASSUME NEW v \in Worker, wpc'[v] \in {"create", "write1", "write2"}
        PROVE  \A m \in Maps : <<m, job'[v].id>> \in missed' \/ m \in read'[v]
    BY <1>i, <2>1, <2>3, <2>4 DEF OutInv, TypeInv
  <2> QED
    BY <2>1, <2>2, <2>4 DEF OutInv
<1>2. CASE Create(w)
  <2>1. /\ out' = [out EXCEPT ![i] = [b \in Blocks |-> Hole]]
        /\ wpc[w] = "create" /\ wpc' = [wpc EXCEPT ![w] = "write1"]
        /\ read' = read /\ missed' = missed /\ unwritten' = unwritten /\ job' = job
        /\ phase' = phase /\ workInfo' = workInfo /\ workerMap' = workerMap
    BY <1>2, <1>i DEF Create
  <2>2. /\ out' \in [Reduces -> [Blocks -> SUBSET (Maps \cup Hole)]]
        /\ \A r \in Reduces : r # i => out'[r] = out[r]
    BY <1>0, <1>i, <2>1 DEF OutInv
  <2>3. OpenAt(w, i, {"write1"})' /\ OpenAt(w, i, {"write1", "write2"})'
    BY <1>0, <1>i, <2>1 DEF OpenAt, TypeInv
  <2>4. ASSUME NEW r \in Reduces
        PROVE  Written(r, 1, {"write1"})' /\ Written(r, 2, {"write1", "write2"})'
    <3>1. CASE r = i
      BY <2>3, <3>1 DEF Written
    <3>2. CASE r # i
      BY <1>0, <1>i, <2>1, <2>2, <3>2, OutOthers DEF TypeInv, AtReduce
    <3> QED
      BY <3>1, <3>2
  <2> QED
    BY <2>1, <2>2, <2>4 DEF OutInv, TypeInv
<1>3. CASE Write(w)
  <2>0. wpc[w] \in {"write1", "write2"}
    BY <1>3 DEF Write
  <2>1. PICK b \in Blocks : b = IF wpc[w] = "write1" THEN 1 ELSE 2
    BY TwoBlocks
  <2>2. /\ out' = [out EXCEPT ![i][b] = read[w]]
        /\ wpc' = [wpc EXCEPT ![w] = IF @ = "write1" THEN "write2" ELSE "reduced"]
        /\ read' = read /\ missed' = missed /\ unwritten' = unwritten /\ job' = job
        /\ phase' = phase /\ workInfo' = workInfo /\ workerMap' = workerMap
    BY <1>3, <1>i, <2>1 DEF Write
  <2>3. /\ out' \in [Reduces -> [Blocks -> SUBSET (Maps \cup Hole)]]
        /\ \A r \in Reduces : r # i => out'[r] = out[r]
        /\ out'[i][b] = read[w]
        /\ \A c \in Blocks : c # b => out'[i][c] = out[i][c]
    BY <1>0, <1>i, <2>1, <2>2 DEF OutInv, TypeInv
  <2>4. Good(i, b)'
    <3>1. read[w] # Hole
      BY MRAssumption DEF TypeInv, Maps, Hole
    <3>2. \A m \in Maps : <<m, i>> \in missed \/ m \in read[w]
      BY <1>i, <2>0 DEF OutInv
    <3> QED
      BY <2>2, <2>3, <3>1, <3>2 DEF Good
  <2>5. ASSUME wpc[w] = "write1"
        PROVE  Written(i, 1, {"write1"})' /\ Written(i, 2, {"write1", "write2"})'
    <3>1. OpenAt(w, i, {"write1", "write2"})'
      BY <1>0, <1>i, <2>2, <2>5 DEF OpenAt, TypeInv
    <3> QED
      BY <2>1, <2>4, <2>5, <3>1 DEF Written
  <2>6. ASSUME wpc[w] = "write2"
        PROVE  Written(i, 1, {"write1"})' /\ Written(i, 2, {"write1", "write2"})'
    <3>1. ~Fresh(i)
      BY <1>i, <2>6 DEF Fresh
    <3>2. Good(i, 1) => Good(i, 1)'
      BY <2>1, <2>2, <2>3, <2>6, TwoBlocks DEF Good
    <3>3. \A v \in Worker : OpenAt(v, i, {"write1"}) => OpenAt(v, i, {"write1"})'
      BY <2>2, <2>6 DEF OpenAt, TypeInv
    <3>4. Written(i, 1, {"write1"})'
      BY <1>0, <1>i, <2>2, <3>1, <3>2, <3>3 DEF OutInv, Written
    <3> QED
      BY <2>1, <2>4, <2>6, <3>4 DEF Written
  <2>7. ASSUME NEW r \in Reduces
        PROVE  Written(r, 1, {"write1"})' /\ Written(r, 2, {"write1", "write2"})'
    <3>1. CASE r = i
      BY <2>0, <2>5, <2>6, <3>1
    <3>2. CASE r # i
      BY <1>0, <1>i, <2>2, <2>3, <3>2, OutOthers DEF TypeInv, AtReduce
    <3> QED
      BY <3>1, <3>2
  <2> QED
    BY <2>0, <2>2, <2>3, <2>7 DEF OutInv, TypeInv
<1>4. CASE CreateFails(w) \/ WriteFails(w)
  <2>1. /\ unwritten' = unwritten \cup {i}
        /\ out' = out /\ read' = read /\ missed' = missed /\ job' = job
        /\ phase' = phase /\ workInfo' = workInfo /\ workerMap' = workerMap
        /\ wpc'[w] \in {"write2", "reduced"} /\ wpc[w] \in {"create", "write1", "write2"}
        /\ \A v \in Worker \ {w} : wpc'[v] = wpc[v]
    BY <1>4, <1>i DEF CreateFails, WriteFails, TypeInv
  <2>2. ASSUME NEW r \in Reduces
        PROVE  Written(r, 1, {"write1"})' /\ Written(r, 2, {"write1", "write2"})'
    <3>1. CASE r = i
      BY <2>1, <3>1 DEF Written
    <3>2. CASE r # i
      BY <1>0, <1>i, <2>1, <3>2, OutOthers DEF AtReduce
    <3> QED
      BY <3>1, <3>2
  <2> QED
    BY <2>1, <2>2 DEF OutInv
<1>5. CASE FinishReduce(w)
  <2>1. /\ wpc[w] = "reduced" /\ wpc' = [wpc EXCEPT ![w] = "poll"] /\ WorkFinish(w)
        /\ out' = out /\ read' = read /\ phase' = phase /\ job' = job
        /\ missed' = missed /\ unwritten' = unwritten
    BY <1>5 DEF FinishReduce
  <2>2. /\ \A v \in Worker \ {w} : workerMap'[v] = workerMap[v]
        /\ DOMAIN workInfo' = Reduces
        /\ \A r \in Reduces : r # i => workInfo'[r] = workInfo[r]
    BY <1>0, <1>i, <2>1 DEF WorkFinish, TypeInv
  <2>3. ASSUME NEW r \in Reduces
        PROVE  Written(r, 1, {"write1"})' /\ Written(r, 2, {"write1", "write2"})'
    <3>1. CASE r = i
      <4>1. ~Fresh(i)
        BY <1>i, <2>1 DEF Fresh
      <4>2. \A b \in Blocks : Good(i, b) => Good(i, b)'
        BY <2>1 DEF Good
      <4>3. \A v \in Worker, places \in SUBSET {"write1", "write2"} :
                OpenAt(v, i, places) => OpenAt(v, i, places)'
        BY <2>1, <2>2 DEF OpenAt, TypeInv
      <4> QED
        BY <2>1, <3>1, <4>1, <4>2, <4>3, TwoBlocks DEF OutInv, Written
    <3>2. CASE r # i
      BY <1>0, <1>i, <2>1, <2>2, <3>2, OutOthers DEF TypeInv
    <3> QED
      BY <3>1, <3>2
  <2> QED
    BY <2>1, <2>3 DEF OutInv, TypeInv
<1> QED
  BY <1>1, <1>2, <1>3, <1>4, <1>5

LEMMA OutStep ==
    ASSUME TaskInv, OutInv, [Next]_vars
    PROVE  OutInv'
<1>1. CASE UNCHANGED vars
  BY <1>1, OutputAlone DEF vars, OpenAt
<1> QED
  BY <1>1, OutCoordinator, OutReduce, OutWorker DEF Next, Work, Errors, Ended

(* In every schedule and with every fault: the output of a finished reduce *)
(* task is whole and made of all files its reducers found, unless a write  *)
(* failed unnoticed or a worker that lost the task is writing it again; so *)
(* a file that was not renamed in time, an ignored error and a late writer *)
(* are all that can spoil what Done reports (worker.go:203-247,            *)
(* coordinator.go:295-309).                                                *)
THEOREM OutputStaysComplete == Spec => []OutputComplete
<1>1. Init => OutInv
  <2> SUFFICES ASSUME Init PROVE OutInv
    OBVIOUS
  <2>1. out \in [Reduces -> [Blocks -> SUBSET (Maps \cup Hole)]]
    BY DEF Init
  <2>2. \A r \in Reduces : Fresh(r)
    BY DEF Init, Fresh
  <2> QED
    BY <2>1, <2>2 DEF Init, OutInv, Written
<1>2. TaskInv /\ OutInv /\ [Next]_vars => OutInv'
  BY OutStep
<1>3. TaskInv /\ OutInv => OutputComplete
  <2> SUFFICES ASSUME TaskInv, OutInv, phase = "Reduce", NEW r \in DOMAIN workInfo,
                      workInfo[r] = "done", r \notin unwritten, ~IsOverwritten(r),
                      NEW b \in Blocks
               PROVE  Good(r, b)
    BY DEF OutputComplete, Good
  <2>1. r \in Reduces /\ ~Fresh(r)
    BY DEF TaskInv, TypeInv, LoopInv, Tasks, Fresh
  <2>2. ASSUME NEW w \in Worker, OpenAt(w, r, {"write1", "write2"})
        PROVE  FALSE
    <3>1. CASE workerMap[w].state = "Death"
      <4>1. job[w] = [type |-> "Reduce", id |-> r]
        BY <2>2 DEF TaskInv, TypeInv, Jobs, OpenAt
      <4> QED
        BY <2>2, <3>1, <4>1 DEF OpenAt, IsOverwritten
    <3>2. CASE workerMap[w].state = "Ready" /\ workerMap[w].work.id = r
      BY <3>2, MRAssumption DEF TaskInv, WorkerInv
    <3> QED
      BY <2>2, <3>1, <3>2 DEF OpenAt
  <2>3. \A w \in Worker : ~OpenAt(w, r, {"write1"})
    BY <2>2 DEF OpenAt
  <2> QED
    BY <2>1, <2>2, <2>3, TwoBlocks DEF OutInv, Written
<1> QED
  BY <1>1, <1>2, <1>3, InitTasks, TaskStep, PTL DEF Spec

=============================================================================
