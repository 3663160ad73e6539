----------------------------- MODULE RaceTrace ------------------------------
(***************************************************************************)
(* The programs of Programs, some of them in a build with DATA_RACE_TRACE. *)
(* There the tasks are numbered as they are registered, and their bodies   *)
(* call the tracer (DataRaceTrace.cpp), which keeps the greatest number of *)
(* a task that read, and of one that wrote, an address since the last wait *)
(* and stops the program when a task finds a number greater than its own.  *)
(*                                                                         *)
(* The records are updated without a lock: one action is one access to a   *)
(* record.  The macro MAX of an update reads the record a second time when *)
(* the number of the task is not the greater one.  What tasks declare, and *)
(* so the order the graph gives them, need not be what they trace.         *)
(***************************************************************************)
EXTENDS Programs

CONSTANTS
  Thread, NoLocalTask,
  Traced   \* the programs with calls of the tracer in their bodies

\* A call: the function and the address.
TraceOp == {"Read", "Write", "ReadHalo", "WriteHalo"}

ASSUME TracedAssumption ==
  /\ Traced \subseteq DOMAIN Texts
  /\ NoLocalTask \notin Nat \X Nat
  /\ \A p \in Traced : \A s \in ToSet(Texts[p].text) :
       s.op = "loop" => \A t \in ToSet(s.tasks) :
         t.calls \in Seq(ToSet(t.calls)) /\ \A c \in ToSet(t.calls) : c[1] \in TraceOp

VARIABLES
  GlobalTaskId,
  TaskPtr2Id,       \* numbers of the tasks registered since the last wait
  DataObjStateMap,  \* address -> the two records
  LocalTask,        \* the task of each thread
  tpc,              \* what the thread does in it
  callNo,           \* the call it has come to
  taken,            \* the number MAX has taken, before it is stored
  accessed,         \* calls that have updated a record since the last wait (history)
  earlier,          \* those before a thread's call began (history)
  lost              \* records that lost an update (history)

threadState == <<LocalTask, tpc, callNo, taken, earlier>>
roundState == <<accessed, lost>>
traceVars == <<GlobalTaskId, TaskPtr2Id, DataObjStateMap, threadState, roundState>>

-----------------------------------------------------------------------------
\* A task is one object: of this statement, in this place.
Pointer(t) == <<running[t[1]], t[2]>>

Op(th) == TaskOf(LocalTask[th]).calls[callNo[th]][1]
Address(th) == TaskOf(LocalTask[th]).calls[callNo[th]][2]
TaskId(th) == TaskPtr2Id[Pointer(LocalTask[th])]

\* The record a call updates.
Kind(op) == IF op \in {"Read", "ReadHalo"} THEN "read" ELSE "write"
Record(th) == DataObjStateMap[Address(th)][Kind(Op(th))]

\* assert(0) ends the program, whatever the other threads do.
Stopped == \E th \in Thread : tpc[th] \in {"unknown", "accused"}
Tracing == prog \in Traced /\ ~Stopped

Proceed(th, label) == tpc' = [tpc EXCEPT ![th] = label]

-----------------------------------------------------------------------------
\* A loop between begin_split_task_wrap and end_split_task_wrap: __AddTask2Trace of
\* its tasks, in order, and __AddData2Trace of the addresses they declare.
RegisterTraced ==
  /\ Tracing /\ Register
  /\ LET tasks == text[pc].tasks
         new == {pc} \X DOMAIN tasks
         data == UNION {tasks[h].reads \cup tasks[h].writes : h \in DOMAIN tasks}
     IN  /\ TaskPtr2Id' = [p \in DOMAIN TaskPtr2Id \cup new |->
              IF p \in new THEN GlobalTaskId + p[2] - 1 ELSE TaskPtr2Id[p]]
         /\ GlobalTaskId' = GlobalTaskId + Len(tasks)
         /\ DataObjStateMap' = [a \in DOMAIN DataObjStateMap \cup data |->
              IF a \in DOMAIN DataObjStateMap THEN DataObjStateMap[a]
              ELSE [read |-> 0, write |-> 0]]
  /\ UNCHANGED <<threadState, roundState>>

DagStartTraced == Tracing /\ DagStart /\ UNCHANGED traceVars

SpawnTraced == Tracing /\ Spawn /\ UNCHANGED traceVars

\* spawn_and_wait_wrap clears the tables when the wait is over; the numbers go on.
WaitedTraced ==
  /\ Tracing /\ Waited
  /\ TaskPtr2Id' = <<>> /\ DataObjStateMap' = <<>>
  /\ accessed' = {} /\ lost' = {}
  /\ UNCHANGED <<GlobalTaskId, threadState>>

-----------------------------------------------------------------------------
\* A thread runs a task, whose body begins with __EnterTaskExec.
Enter(th, t) ==
  /\ Tracing /\ LocalTask[th] = NoLocalTask
  /\ Ready(t) /\ \A o \in Thread : LocalTask[o] # t
  /\ LocalTask' = [LocalTask EXCEPT ![th] = t]
  /\ callNo' = [callNo EXCEPT ![th] = 1]
  /\ Proceed(th, "call")
  /\ UNCHANGED <<programVars, GlobalTaskId, TaskPtr2Id, DataObjStateMap, taken, earlier, roundState>>

\* Mutant: a write is not compared with the last read.
FirstCheckOfWrite(op) == IF op \in {"Read", "Write"} THEN "checkWrite" ELSE "compare"

\* The functions for halos check nothing.
FirstCheck(op) == CASE op = "Read" -> "checkWrite" [] op = "Write" -> "checkRead" [] OTHER -> "compare"

\* The tables are searched.  The tasks of a stored graph are in TaskPtr2Id only in the
\* round that built it; an address, if some task of the round declares it.
Call(th) ==
  /\ Tracing /\ tpc[th] = "call" /\ callNo[th] <= Len(TaskOf(LocalTask[th]).calls)
  /\ Proceed(th, IF Pointer(LocalTask[th]) \in DOMAIN TaskPtr2Id /\ Address(th) \in DOMAIN DataObjStateMap
              THEN FirstCheck(Op(th)) ELSE "unknown")
  /\ earlier' = [earlier EXCEPT ![th] = accessed]
  /\ UNCHANGED <<programVars, GlobalTaskId, TaskPtr2Id, DataObjStateMap, LocalTask, callNo, taken,
                 roundState>>

\* __WriteTrace looks for a later read first.
CheckRead(th) ==
  /\ Tracing /\ tpc[th] = "checkRead"
  /\ Proceed(th, IF DataObjStateMap[Address(th)].read > TaskId(th) THEN "accused" ELSE "checkWrite")
  /\ UNCHANGED <<programVars, GlobalTaskId, TaskPtr2Id, DataObjStateMap, LocalTask, callNo, taken,
                 earlier, roundState>>

CheckWrite(th) ==
  /\ Tracing /\ tpc[th] = "checkWrite"
  /\ Proceed(th, IF DataObjStateMap[Address(th)].write > TaskId(th) THEN "accused" ELSE "compare")
  /\ UNCHANGED <<programVars, GlobalTaskId, TaskPtr2Id, DataObjStateMap, LocalTask, callNo, taken,
                 earlier, roundState>>

\* MAX(taskId, record): taskId > record ? taskId : record.
Compare(th) ==
  /\ Tracing /\ tpc[th] = "compare"
  /\ IF TaskId(th) > Record(th)
     THEN taken' = [taken EXCEPT ![th] = TaskId(th)] /\ Proceed(th, "store")
     ELSE UNCHANGED taken /\ Proceed(th, "reread")
  /\ UNCHANGED <<programVars, GlobalTaskId, TaskPtr2Id, DataObjStateMap, LocalTask, callNo, earlier,
                 roundState>>

Reread(th) ==
  /\ Tracing /\ tpc[th] = "reread"
  /\ taken' = [taken EXCEPT ![th] = Record(th)]
  /\ Proceed(th, "store")
  /\ UNCHANGED <<programVars, GlobalTaskId, TaskPtr2Id, DataObjStateMap, LocalTask, callNo, earlier,
                 roundState>>

\* Another thread has taken a smaller number for the record and will put it there.
Undone(th) ==
  \E o \in Thread \ {th} : /\ tpc[o] = "store" /\ taken[o] < taken[th]
                           /\ Address(o) = Address(th) /\ Kind(Op(o)) = Kind(Op(th))

\* The call ends with the store.
Store(th) ==
  LET a == Address(th)
      kind == Kind(Op(th))
  IN
  /\ Tracing /\ tpc[th] = "store"
  /\ DataObjStateMap' = [DataObjStateMap EXCEPT ![a][kind] = taken[th]]
  /\ accessed' = accessed \cup {[on |-> a, kind |-> kind, id |-> TaskId(th)]}
  /\ lost' = IF Undone(th) THEN lost \cup {<<a, kind>>} ELSE lost
  /\ callNo' = [callNo EXCEPT ![th] = @ + 1]
  /\ Proceed(th, "call")
  /\ UNCHANGED <<programVars, GlobalTaskId, TaskPtr2Id, LocalTask, taken, earlier>>

\* The end of the task.
Leave(th) ==
  /\ Tracing /\ tpc[th] = "call" /\ callNo[th] > Len(TaskOf(LocalTask[th]).calls)
  /\ Run(LocalTask[th])
  /\ LocalTask' = [LocalTask EXCEPT ![th] = NoLocalTask]
  /\ Proceed(th, "out")
  /\ UNCHANGED <<GlobalTaskId, TaskPtr2Id, DataObjStateMap, callNo, taken, earlier, roundState>>

TraceInit ==
  /\ ProgramInit
  /\ GlobalTaskId = 0 /\ TaskPtr2Id = <<>> /\ DataObjStateMap = <<>>
  /\ LocalTask = [th \in Thread |-> NoLocalTask]
  /\ tpc = [th \in Thread |-> "out"]
  /\ callNo = [th \in Thread |-> 1] /\ taken = [th \in Thread |-> 0]
  /\ earlier = [th \in Thread |-> {}] /\ accessed = {} /\ lost = {}

\* The other programs have no such calls.
Untraced == prog \notin Traced /\ ProgramNext /\ UNCHANGED traceVars

TraceStep(th) ==
  \/ \E t \in All : Enter(th, t)
  \/ Call(th) \/ CheckRead(th) \/ CheckWrite(th) \/ Compare(th) \/ Reread(th) \/ Store(th)
  \/ Leave(th)

TraceNext ==
  \/ Untraced
  \/ DagStartTraced \/ RegisterTraced \/ SpawnTraced \/ WaitedTraced
  \/ \E th \in Thread : TraceStep(th)
  \/ prog \in Traced /\ (Stopped \/ Ended) /\ UNCHANGED <<programVars, traceVars>>

TraceSpec == TraceInit /\ [][TraceNext]_<<programVars, traceVars>>

-----------------------------------------------------------------------------
\* A call that has updated a record, by a task registered later than that of thread th,
\* breaks the order of the program: one of the two is a write.
Breaks(r, th) ==
  /\ r.on = Address(th) /\ r.id > TaskId(th)
  /\ r.kind = "write" \/ Op(th) = "Write"

\* Only a broken order is reported, although updates are lost.
Justified(th) == tpc[th] = "accused" => \E r \in accessed : Breaks(r, th)

\* A broken order is reported, except where the record of the later task's call has lost an
\* update: a call that has come past its checks has found all that was complete before it.
NotMissed(th) ==
  tpc[th] \in {"compare", "reread", "store"} /\ Op(th) \in {"Read", "Write"} =>
    \A r \in earlier[th] : Breaks(r, th) => <<r.on, r.kind>> \in lost

\* The earlier of two tasks can find a call of the later one.
Finds(t, u) ==
  \E c \in ToSet(t.calls), d \in ToSet(u.calls) :
    c[2] = d[2] /\ c[1] \in {"Read", "Write"} /\ (c[1] = "Write" \/ Kind(d[1]) = "write")

\* Of two such tasks with no wait between them, the later one depends on the other, as it
\* declares, directly or not.
Declares(s) ==
  LET loops == {k \in DOMAIN s : s[k].op = "loop"}
  IN  \A k \in loops : \A h \in DOMAIN s[k].tasks :
        LET above == Above(s, <<k, h>>)
        IN  \A j \in loops : j <= k /\ (\A x \in j .. k : s[x].op # "wait") =>
              \A g \in DOMAIN s[j].tasks :
                (j < k \/ g < h) /\ Finds(s[j].tasks[g], s[k].tasks[h]) => <<j, g>> \in above

\* A program that declares what it traces is not stopped for a broken order.
NoFalseAlarm(th) == tpc[th] = "accused" => ~Declares(text)

\* What the tracer is worth (__ReadTrace, __WriteTrace), in every order of the accesses of
\* its threads to the records, which no lock protects.
ReportsBrokenOrder == \A th \in Thread : Justified(th) /\ NotMissed(th) /\ NoFalseAlarm(th)
=============================================================================
