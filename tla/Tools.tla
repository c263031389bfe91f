------------------------------- MODULE Tools -------------------------------
(***************************************************************************)
(* The commands of the tools on one container, and the threads that the    *)
(* perf command starts.  A command or a thread is a sequence of calls of   *)
(* the interface; each call runs under the lock of the container list or   *)
(* of the container and is one step, so what interleaves are the calls.    *)
(* What is checked is the counting: references of the container and its    *)
(* objects, running threads, and the locks that are given back.            *)
(***************************************************************************)
EXTENDS Integers, FiniteSets

CONSTANTS
  Objs,        \* user objects
  MaxThreads,  \* bound: threads_num
  MaxKept,     \* bound: references left by the commands open and create
  CntMod       \* threads_cnt is counted modulo this; 2^32

ASSUME ToolsAssumption ==
  /\ MaxThreads \in Nat \ {0} /\ MaxKept \in Nat
  /\ CntMod \in Nat /\ CntMod > MaxThreads

VARIABLES
  ct,      \* the entry of g_container_list, or Closed
  file,    \* the container on disk
  known,   \* the objects recorded in $OBJID
  pc,      \* the next call of the command and of each thread
  cmd,     \* the command: [op, obj]
  para,    \* ifs_tools_para_t of the perf command
  kept     \* ghost: references taken by open and create, and not closed

vars == <<ct, file, known, pc, cmd, para, kept>>

UI == 0                    \* the thread that reads and executes commands
Threads == 1 .. MaxThreads
Actors == Threads \cup {UI}
NoObj == "invalid_objid"

\* objs: ref_cnt of each open object, 0 when it is not open.
\* leaked: somebody holds a read lock of ct_lock for good.
Closed == [ref |-> 0, objs |-> [o \in Objs |-> 0], leaked |-> FALSE]
Opened == [Closed EXCEPT !.ref = 1]

NoPara == [alive |-> FALSE, insert |-> FALSE, num |-> 0, cnt |-> 0, made |-> 0]
NothingKept == [ct |-> 0, objs |-> [o \in Objs |-> 0]]

Init ==
  /\ ct = Closed /\ file = "none" /\ known = {}
  /\ pc = [a \in Actors |-> IF a = UI THEN "idle" ELSE "none"]
  /\ cmd = [op |-> "none", obj |-> NoObj]
  /\ para = NoPara /\ kept = NothingKept

Goto(a, l) == pc' = [pc EXCEPT ![a] = l]

IsOpen == ct.ref > 0
-----------------------------------------------------------------------------
(***************************************************************************)
(* Calls of the interface.                                                 *)
(***************************************************************************)
\* ofs_open_container: ok says whether it succeeded.
OpenContainer(ok) ==
  IF IsOpen THEN ok /\ ct' = [ct EXCEPT !.ref = @ + 1]
  ELSE \/ ok /\ file = "valid" /\ ct' = Opened
       \/ ~ok /\ UNCHANGED ct

\* ofs_close_container; close_container closes the objects that are still open.
CloseContainer ==
  ct' = IF ct.ref > 1 THEN [ct EXCEPT !.ref = @ - 1] ELSE Closed

\* The calls on objects take ct_lock for writing.
Unlocked == ~ct.leaked

\* ofs_open_object; a read error is possible when the object is not open.
OpenObject(o, ok) ==
  /\ Unlocked
  /\ \/ ok /\ (ct.objs[o] > 0 \/ o \in known) /\ ct' = [ct EXCEPT !.objs[o] = @ + 1]
     \/ ~ok /\ ct.objs[o] = 0 /\ UNCHANGED ct

\* ofs_create_object refuses an object that is open or recorded.
CreateObject(o, ok) ==
  /\ Unlocked
  /\ \/ /\ ok /\ ct.objs[o] = 0 /\ o \notin known
        /\ ct' = [ct EXCEPT !.objs[o] = 1] /\ known' = known \cup {o}
     \/ ~ok /\ UNCHANGED <<ct, known>>

CloseObject(o) == Unlocked /\ ct' = [ct EXCEPT !.objs[o] = @ - 1]

\* ofs_get_object_info locks ct_lock twice for reading where it should unlock.
GetObjectInfo == ct' = [ct EXCEPT !.leaked = TRUE]
-----------------------------------------------------------------------------
(***************************************************************************)
(* insert, remove, dump, and the work of a perf thread: open the container *)
(* and the object, work, close both.                                       *)
(***************************************************************************)
OpenCt(a) ==
  /\ pc[a] = "open_ct"
  /\ \/ OpenContainer(TRUE) /\ Goto(a, "open_obj")
     \/ OpenContainer(FALSE) /\ Goto(a, IF a = UI THEN "idle" ELSE "count_down")
  /\ UNCHANGED <<file, known, cmd, para, kept>>

\* Bug: the container stays open when the object could not be opened.
AfterFailureStay(a) == IF a = UI THEN "idle" ELSE "count_down"

AfterFailure(a) == "close_ct"

OpenObj(a) ==
  /\ pc[a] = "open_obj"
  /\ \E ok \in BOOLEAN :
       /\ IF a # UI /\ para.insert THEN CreateObject(cmd.obj, ok)
          ELSE OpenObject(cmd.obj, ok) /\ UNCHANGED known
       /\ Goto(a, IF ok THEN "work" ELSE AfterFailure(a))
  /\ UNCHANGED <<file, cmd, para, kept>>

\* The keys are inserted or removed one by one under obj_lock.
Work(a) ==
  /\ pc[a] = "work" /\ Goto(a, "close_obj")
  /\ UNCHANGED <<ct, file, known, cmd, para, kept>>

CloseObj(a) ==
  /\ pc[a] = "close_obj" /\ CloseObject(cmd.obj)
  /\ IF cmd.op = "close"
     THEN Goto(a, "idle") /\ kept' = [kept EXCEPT !.objs[cmd.obj] = @ - 1]
     ELSE Goto(a, "close_ct") /\ UNCHANGED kept
  /\ UNCHANGED <<file, known, cmd, para>>

CloseCt(a) ==
  /\ pc[a] = "close_ct" /\ CloseContainer
  /\ Goto(a, IF a = UI THEN "idle" ELSE "count_down")
  /\ UNCHANGED <<file, known, cmd, para, kept>>
-----------------------------------------------------------------------------
(***************************************************************************)
(* The commands that are one or two calls.                                 *)
(***************************************************************************)
Issue(op, obj) == pc[UI] = "idle" /\ cmd' = [op |-> op, obj |-> obj]

\* create without -o: the file is emptied before the first write.
CmdCreateCt ==
  /\ Issue("create", NoObj) /\ ~IsOpen /\ Goto(UI, "idle")
  /\ \/ ct' = Opened /\ file' = "valid" /\ known' = {} /\ kept' = [NothingKept EXCEPT !.ct = 1]
     \/ file' \in {"valid", "broken"} /\ known' = {} /\ UNCHANGED <<ct, kept>>
  /\ UNCHANGED para

CmdOpenCt ==
  /\ Issue("open", NoObj) /\ kept.ct < MaxKept /\ Goto(UI, "idle")
  /\ OpenContainer(TRUE) /\ kept' = [kept EXCEPT !.ct = @ + 1]
  /\ UNCHANGED <<file, known, para>>

CmdCloseCt ==
  /\ Issue("close", NoObj) /\ IsOpen /\ Goto(UI, "idle")
  /\ CloseContainer
  /\ kept' = IF ct.ref > 1 THEN [kept EXCEPT !.ct = @ - 1] ELSE NothingKept
  /\ UNCHANGED <<file, known, para>>

\* create and open with -o leave the handle open.
CmdObj(o) ==
  /\ \E op \in {"create", "open"} : Issue(op, o)
  /\ IsOpen /\ kept.objs[o] < MaxKept
  /\ Goto(UI, "leave_obj")
  /\ UNCHANGED <<ct, file, known, para, kept>>

LeaveObj ==
  /\ pc[UI] = "leave_obj" /\ Goto(UI, "idle")
  /\ \E ok \in BOOLEAN :
       /\ IF cmd.op = "create" THEN CreateObject(cmd.obj, ok)
          ELSE OpenObject(cmd.obj, ok) /\ UNCHANGED known
       /\ kept' = IF ok THEN [kept EXCEPT !.objs[cmd.obj] = @ + 1] ELSE kept
  /\ UNCHANGED <<file, cmd, para>>

\* close with -o takes the first handle of the object.
CmdCloseObj(o) ==
  /\ Issue("close", o) /\ IsOpen /\ GetObjectInfo
  /\ Goto(UI, IF ct.objs[o] > 0 THEN "close_obj" ELSE "idle")
  /\ UNCHANGED <<file, known, para, kept>>

CmdListObj(o) ==
  /\ Issue("list", o) /\ IsOpen /\ GetObjectInfo /\ Goto(UI, "idle")
  /\ UNCHANGED <<file, known, para, kept>>

\* list -sb opens the container and takes ct_lock for writing to print.
CmdListSb ==
  /\ Issue("list", NoObj)
  /\ \/ OpenContainer(TRUE) /\ Goto(UI, "print_sb")
     \/ OpenContainer(FALSE) /\ Goto(UI, "idle")
  /\ UNCHANGED <<file, known, para, kept>>

PrintSb ==
  /\ pc[UI] = "print_sb" /\ Unlocked /\ Goto(UI, "close_ct")
  /\ UNCHANGED <<ct, file, known, cmd, para, kept>>

\* insert, remove, dump
CmdKey(o) ==
  /\ Issue("key", o) /\ Goto(UI, "open_ct")
  /\ UNCHANGED <<ct, file, known, para, kept>>

\* quit: ofs_exit_system closes what is open.
CmdQuit ==
  /\ Issue("quit", NoObj) /\ Goto(UI, "over")
  /\ ct' = Closed /\ kept' = NothingKept
  /\ UNCHANGED <<file, known, para>>
-----------------------------------------------------------------------------
(***************************************************************************)
(* perf: threads that insert, and when all are gone threads that remove.   *)
(***************************************************************************)
CmdPerf(o) ==
  /\ Issue("perf", o) /\ Goto(UI, "spawn")
  /\ \E n \in 1 .. MaxThreads :
       para' = [NoPara EXCEPT !.alive = TRUE, !.insert = TRUE, !.num = n]
  /\ UNCHANGED <<ct, file, known, kept>>

\* Bug: the thread is counted before it is known to run.
SpawnCounted ==
  /\ pc[UI] = "spawn"
  /\ \/ /\ pc' = [pc EXCEPT ![UI] = IF para.made + 1 < para.num THEN "spawn" ELSE "wait",
                            ![para.made + 1] = "open_ct"]
        /\ para' = [para EXCEPT !.made = @ + 1, !.cnt = (@ + 1) % CntMod]
     \/ Goto(UI, "wait") /\ para' = [para EXCEPT !.cnt = (@ + 1) % CntMod]
  /\ UNCHANGED <<ct, file, known, cmd, kept>>

Spawn ==
  /\ pc[UI] = "spawn"
  /\ \/ /\ pc' = [pc EXCEPT ![UI] = "count_up", ![para.made + 1] = "open_ct"]
        /\ para' = [para EXCEPT !.made = @ + 1]
     \/ Goto(UI, "wait") /\ UNCHANGED para
  /\ UNCHANGED <<ct, file, known, cmd, kept>>

\* The thread may have counted down already: threads_cnt wraps for a moment.
CountUp ==
  /\ pc[UI] = "count_up"
  /\ para' = [para EXCEPT !.cnt = (@ + 1) % CntMod]
  /\ Goto(UI, IF para.made < para.num THEN "spawn" ELSE "wait")
  /\ UNCHANGED <<ct, file, known, cmd, kept>>

CountDown(t) ==
  /\ pc[t] = "count_down"
  /\ para' = [para EXCEPT !.cnt = (@ - 1) % CntMod] /\ Goto(t, "exit")
  /\ UNCHANGED <<ct, file, known, cmd, kept>>

Exit(t) ==
  /\ pc[t] = "exit" /\ Goto(t, "gone")
  /\ UNCHANGED <<ct, file, known, cmd, para, kept>>

\* Bug: one thread may still be running.
WaitBelow ==
  /\ pc[UI] = "wait" /\ para.cnt < 2 /\ Goto(UI, "join")
  /\ UNCHANGED <<ct, file, known, cmd, para, kept>>

Wait ==
  /\ pc[UI] = "wait" /\ para.cnt = 0 /\ Goto(UI, "join")
  /\ UNCHANGED <<ct, file, known, cmd, para, kept>>

\* thread_destroy cancels and joins every thread that was created.
Join ==
  /\ pc[UI] = "join"
  /\ \A t \in 1 .. para.made : pc[t] = "gone"
  /\ pc' = [a \in Actors |-> IF a \in Threads THEN "none"
                             ELSE IF para.insert THEN "spawn" ELSE "idle"]
  /\ para' = IF para.insert
             THEN [para EXCEPT !.insert = FALSE, !.cnt = 0, !.made = 0] ELSE NoPara
  /\ UNCHANGED <<ct, file, known, cmd, kept>>
-----------------------------------------------------------------------------
Calls(a) == OpenCt(a) \/ OpenObj(a) \/ Work(a) \/ CloseObj(a) \/ CloseCt(a)

Command ==
  \/ CmdCreateCt \/ CmdOpenCt \/ CmdCloseCt \/ CmdListSb \/ CmdQuit
  \/ \E o \in Objs : CmdObj(o) \/ CmdCloseObj(o) \/ CmdListObj(o) \/ CmdKey(o) \/ CmdPerf(o)

UIStep == Calls(UI) \/ LeaveObj \/ PrintSb \/ Spawn \/ CountUp \/ Wait \/ Join

ThreadStep(t) == Calls(t) \/ CountDown(t) \/ Exit(t)

Next == Command \/ UIStep \/ \E t \in Threads : ThreadStep(t)

\* The system runs every thread that can go on, and a lock that is free in
\* between is taken at last: the callers are finitely many and each of them
\* asks finitely often.  Nobody need give a command.
Fairness == WF_vars(UIStep) /\ \A t \in Threads : WF_vars(ThreadStep(t))

Spec == Init /\ [][Next]_vars /\ Fairness
-----------------------------------------------------------------------------
(***************************************************************************)
(* Properties.                                                             *)
(***************************************************************************)
HoldsObj(a) == pc[a] \in {"work", "close_obj"} /\ cmd.op # "close"
HoldsCt(a) == HoldsObj(a) \/ pc[a] \in {"open_obj", "close_ct", "print_sb"}

\* The reference counts are the handles out: those the commands left open and
\* those of commands and threads under way.  So no container or object is torn
\* down under a thread that works on it, and none stays open for ever because
\* a failing thread forgot its handle.
RefsExact ==
  /\ ct.ref = kept.ct + Cardinality({a \in Actors : HoldsCt(a)})
  /\ \A o \in Objs :
       ct.objs[o] = kept.objs[o] + Cardinality({a \in Actors : HoldsObj(a) /\ cmd.obj = o})
  /\ ~IsOpen => ct = Closed

\* When the perf command starts to cancel its threads every one of them has
\* made its last call, although it was counted while the others ran: no call
\* is cut off with a lock held, no thread of the first phase meets the second,
\* and the parameters outlive the threads.
ThreadsOver ==
  /\ pc[UI] = "join" => \A t \in Threads : pc[t] \in {"none", "exit", "gone"}
  /\ \A t \in Threads : pc[t] # "none" => para.alive

\* Every command comes to an end, the perf command also when threads could not
\* be created or failed, as long as nobody keeps ct_lock.
CommandEnds == pc[UI] # "idle" ~> pc[UI] \in {"idle", "over"} \/ ct.leaked

\* The help of the tools (ifs_cmd_list) offers close with an object like any other
\* command: each should come to an end, whatever was asked before.  It does not
\* after a list of an object: ToolsLock.cfg refutes this, hence ct.leaked above.
CommandsAlwaysEnd == pc[UI] # "idle" ~> pc[UI] \in {"idle", "over"}
=============================================================================
