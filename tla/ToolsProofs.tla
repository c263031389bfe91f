---------------------------- MODULE ToolsProofs -----------------------------
(***************************************************************************)
(* Proofs about the commands of the tools, for any number of threads and   *)
(* objects: the reference counts of the container and of its objects are   *)
(* the handles out (RefsExact), and no thread of the perf command runs any *)
(* more when its threads are cancelled (ThreadsOver).                      *)
(***************************************************************************)
EXTENDS Tools, FiniteSetTheorems, TLAPS

-----------------------------------------------------------------------------
(***************************************************************************)
(* The inductive invariant.                                                *)
(***************************************************************************)
ObjectLabels == {"open_ct", "open_obj", "work", "close_obj", "close_ct"}
PerfLabels == {"spawn", "count_up", "wait", "join"}
UILabels == ObjectLabels \cup PerfLabels \cup {"idle", "over", "leave_obj", "print_sb"}
OverLabels == {"none", "exit", "gone"}
ThreadLabels == ObjectLabels \cup OverLabels \cup {"count_down"}

Ops == {"none", "create", "open", "close", "list", "key", "quit", "perf"}

TypeInv ==
  /\ ct \in [ref : Nat, objs : [Objs -> Nat], leaked : BOOLEAN]
  /\ kept \in [ct : Nat, objs : [Objs -> Nat]]
  /\ known \subseteq Objs
  /\ pc \in [Actors -> UILabels \cup ThreadLabels]
  /\ pc[UI] \in UILabels /\ \A t \in Threads : pc[t] \in ThreadLabels
  /\ cmd \in [op : Ops, obj : Objs \cup {NoObj}]
  /\ para \in [alive : BOOLEAN, insert : BOOLEAN, num : 0 .. MaxThreads,
               cnt : 0 .. CntMod - 1, made : 0 .. MaxThreads]

\* What the command is while the thread that executes it is at a call.
CmdInv ==
  /\ pc[UI] \in {"open_ct", "open_obj", "work"} => cmd.op = "key" /\ cmd.obj \in Objs
  /\ pc[UI] = "close_obj" =>
       /\ cmd.op \in {"key", "close"} /\ cmd.obj \in Objs
       /\ cmd.op = "close" => kept.objs[cmd.obj] > 0
  /\ pc[UI] \in {"close_ct", "print_sb"} => cmd.op \in {"key", "list"}
  /\ pc[UI] = "leave_obj" =>
       cmd.op \in {"create", "open"} /\ cmd.obj \in Objs /\ kept.ct > 0

\* Objects are left open only in a container that was left open.
KeptInv == kept.ct = 0 => \A o \in Objs : kept.objs[o] = 0

\* The threads that were made belong to the perf command that runs.
PerfInv ==
  /\ \A t \in Threads : pc[t] = "none" <=> t > para.made
  /\ pc[UI] \notin PerfLabels => para = NoPara
  /\ pc[UI] \in PerfLabels => cmd.op = "perf" /\ cmd.obj \in Objs /\ para.alive
                               /\ para.num > 0
  /\ para.made <= para.num
  /\ pc[UI] = "spawn" => para.made < para.num
  /\ pc[UI] = "join" => \A t \in Threads : pc[t] \in OverLabels

\* threads_cnt counts the threads that have not counted down, except the one
\* that was made and not counted yet.
Active == {t \in Threads : pc[t] \notin OverLabels}

Counted == IF pc[UI] = "count_up" THEN Cardinality(Active) - 1 ELSE Cardinality(Active)

CountInv == para.cnt = IF Counted = -1 THEN CntMod - 1 ELSE Counted

IInv == TypeInv /\ CmdInv /\ KeptInv /\ PerfInv /\ CountInv /\ RefsExact
-----------------------------------------------------------------------------
(***************************************************************************)
(* Who holds what, and how many.                                           *)
(***************************************************************************)
Holders == {a \in Actors : HoldsCt(a)}
Users(o) == {a \in Actors : HoldsObj(a) /\ cmd.obj = o}

Bit(P) == IF P THEN 1 ELSE 0

\* All actors together are finitely many, and so are some of them.
LEMMA SomeActors ==
  ASSUME NEW S \in SUBSET Actors
  PROVE  IsFiniteSet(S) /\ Cardinality(S) \in Nat
<1>1. IsFiniteSet(Actors)
  <2>1. IsFiniteSet(Threads)
    BY FS_Interval, ToolsAssumption DEF Threads
  <2>. QED BY <2>1, FS_AddElement DEF Actors
<1>. QED BY <1>1, FS_Subset, FS_CardinalityType

\* A set of actors that changes by one actor.
LEMMA OneChanges ==
  ASSUME NEW S \in SUBSET Actors, NEW T \in SUBSET Actors, NEW a \in Actors,
         \A b \in Actors : b # a => (b \in S <=> b \in T)
  PROVE  /\ Cardinality(S) \in Nat /\ Cardinality(T) \in Nat
         /\ Cardinality(T) = Cardinality(S) - Bit(a \in S) + Bit(a \in T)
<1>1. /\ IsFiniteSet(S) /\ Cardinality(S) \in Nat
      /\ IsFiniteSet(T) /\ Cardinality(T) \in Nat
  BY SomeActors
<1>2. CASE a \in S /\ a \notin T
  <2>1. T = S \ {a}
    BY <1>2
  <2>. QED BY <1>1, <1>2, <2>1, FS_RemoveElement DEF Bit
<1>3. CASE a \notin S /\ a \in T
  <2>1. T = S \cup {a}
    BY <1>3
  <2>. QED BY <1>1, <1>3, <2>1, FS_AddElement DEF Bit
<1>4. CASE a \in S <=> a \in T
  <2>1. T = S
    BY <1>4
  <2>. QED BY <1>1, <1>4, <2>1 DEF Bit
<1>. QED BY <1>2, <1>3, <1>4

\* The references are what was left open and what the actors hold.
LEMMA RefsAre ==
  RefsExact <=>
    /\ ct.ref = kept.ct + Cardinality(Holders)
    /\ \A o \in Objs : ct.objs[o] = kept.objs[o] + Cardinality(Users(o))
    /\ ~IsOpen => ct = Closed
BY DEF RefsExact, Holders, Users

\* A step of one actor to another call.
LEMMA ActorStep ==
  ASSUME IInv, NEW a \in Actors, NEW l, pc' = [pc EXCEPT ![a] = l], cmd' = cmd
  PROVE  /\ Cardinality(Holders) \in Nat
         /\ Cardinality(Holders') = Cardinality(Holders) - Bit(HoldsCt(a)) + Bit(HoldsCt(a)')
         /\ \A o \in Objs :
              /\ Cardinality(Users(o)) \in Nat
              /\ Cardinality(Users(o)') = Cardinality(Users(o))
                   - Bit(HoldsObj(a) /\ cmd.obj = o) + Bit(HoldsObj(a)' /\ cmd.obj = o)
         /\ Cardinality(Active) \in Nat
         /\ Cardinality(Active') = Cardinality(Active)
              - Bit(a \in Threads /\ pc[a] \notin OverLabels)
              + Bit(a \in Threads /\ l \notin OverLabels)
<1>1. /\ pc'[a] = l
      /\ \A b \in Actors : b # a => pc'[b] = pc[b]
  BY DEF IInv, TypeInv
<1>2. \A b \in Actors : b # a => HoldsObj(b)' = HoldsObj(b) /\ HoldsCt(b)' = HoldsCt(b)
  BY <1>1 DEF HoldsObj, HoldsCt
<1>3. /\ Cardinality(Holders) \in Nat
      /\ Cardinality(Holders') = Cardinality(Holders) - Bit(HoldsCt(a)) + Bit(HoldsCt(a)')
  <2>1. Holders \in SUBSET Actors /\ Holders' \in SUBSET Actors
    BY DEF Holders
  <2>2. /\ \A b \in Actors : b # a => (b \in Holders <=> b \in Holders')
        /\ a \in Holders <=> HoldsCt(a)
        /\ a \in Holders' <=> HoldsCt(a)'
    BY <1>2 DEF Holders
  <2>. QED BY <2>1, <2>2, OneChanges DEF Bit
<1>4. ASSUME NEW o \in Objs
      PROVE  /\ Cardinality(Users(o)) \in Nat
             /\ Cardinality(Users(o)') = Cardinality(Users(o))
                   - Bit(HoldsObj(a) /\ cmd.obj = o) + Bit(HoldsObj(a)' /\ cmd.obj = o)
  <2>1. Users(o) \in SUBSET Actors /\ Users(o)' \in SUBSET Actors
    BY DEF Users
  <2>2. /\ \A b \in Actors : b # a => (b \in Users(o) <=> b \in Users(o)')
        /\ a \in Users(o) <=> HoldsObj(a) /\ cmd.obj = o
        /\ a \in Users(o)' <=> HoldsObj(a)' /\ cmd.obj = o
    BY <1>2 DEF Users
  <2>. QED BY <2>1, <2>2, OneChanges DEF Bit
<1>5. /\ Cardinality(Active) \in Nat
      /\ Cardinality(Active') = Cardinality(Active)
              - Bit(a \in Threads /\ pc[a] \notin OverLabels)
              + Bit(a \in Threads /\ l \notin OverLabels)
  <2>1. Active \in SUBSET Actors /\ Active' \in SUBSET Actors
    BY DEF Active, Actors
  <2>2. /\ \A b \in Actors : b # a => (b \in Active <=> b \in Active')
        /\ a \in Active <=> a \in Threads /\ pc[a] \notin OverLabels
        /\ a \in Active' <=> a \in Threads /\ l \notin OverLabels
    BY <1>1 DEF Active, Actors
  <2>. QED BY <2>1, <2>2, OneChanges DEF Bit
<1>. QED BY <1>3, <1>4, <1>5

\* UI is not a thread of the perf command.
LEMMA UIFacts ==
  /\ UI \notin Threads /\ UI \in Actors /\ Threads \subseteq Actors
  /\ UILabels \cap ThreadLabels = ObjectLabels /\ UILabels \cap OverLabels = {}
BY DEF UI, Threads, Actors, UILabels, ThreadLabels, ObjectLabels, PerfLabels, OverLabels

\* What is left to show of a call of a perf thread.
LEMMA ThreadInv ==
  ASSUME IInv, NEW t \in Threads, pc[t] \notin OverLabels,
         NEW l \in ObjectLabels \cup {"count_down"}, pc' = [pc EXCEPT ![t] = l],
         UNCHANGED <<cmd, para, kept>>,
         ct' \in [ref : Nat, objs : [Objs -> Nat], leaked : BOOLEAN],
         known' \subseteq Objs, RefsExact'
  PROVE  IInv'
<1>1. /\ pc'[t] = l /\ pc'[UI] = pc[UI] /\ l \in ThreadLabels /\ l \notin OverLabels
      /\ \A u \in Threads : u # t => pc'[u] = pc[u]
  BY UIFacts DEF IInv, TypeInv, ThreadLabels, OverLabels, ObjectLabels
<1>2. TypeInv'
  BY <1>1, UIFacts DEF IInv, TypeInv
<1>3. CmdInv' /\ KeptInv'
  BY <1>1 DEF IInv, CmdInv, KeptInv
<1>4. PerfInv'
  BY <1>1 DEF IInv, PerfInv, OverLabels
<1>5. CountInv'
  <2>1. Active' = Active
    BY <1>1 DEF Active
  <2>. QED BY <1>1, <2>1 DEF IInv, CountInv, Counted
<1>. QED BY <1>2, <1>3, <1>4, <1>5 DEF IInv

\* And of a call that a command makes itself.
LEMMA CallInv ==
  ASSUME IInv, pc[UI] \notin PerfLabels, NEW l \in UILabels \ PerfLabels,
         pc' = [pc EXCEPT ![UI] = l], UNCHANGED para,
         cmd' \in [op : Ops, obj : Objs \cup {NoObj}],
         ct' \in [ref : Nat, objs : [Objs -> Nat], leaked : BOOLEAN],
         kept' \in [ct : Nat, objs : [Objs -> Nat]],
         known' \subseteq Objs, CmdInv', KeptInv', RefsExact'
  PROVE  IInv'
<1>1. /\ pc'[UI] = l
      /\ \A u \in Threads : pc'[u] = pc[u]
  BY UIFacts DEF IInv, TypeInv
<1>2. TypeInv'
  BY <1>1, UIFacts DEF IInv, TypeInv
<1>3. PerfInv'
  BY <1>1 DEF IInv, PerfInv, PerfLabels
<1>4. CountInv'
  <2>1. Active' = Active
    BY <1>1 DEF Active
  <2>. QED BY <1>1, <2>1 DEF IInv, CountInv, Counted, PerfLabels
<1>. QED BY <1>2, <1>3, <1>4 DEF IInv
-----------------------------------------------------------------------------
(***************************************************************************)
(* The calls of the interface.                                             *)
(***************************************************************************)

\* An open of a container that is open counts one more handle; the first open
\* finds no handles at all.
LEMMA OpenContainerIs ==
  ASSUME IInv, OpenContainer(TRUE)
  PROVE  ct' \in [ref : Nat, objs : [Objs -> Nat], leaked : BOOLEAN]
         /\ ct'.ref = ct.ref + 1 /\ ct'.objs = ct.objs
<1>1. CASE IsOpen
  BY <1>1 DEF OpenContainer, IInv, TypeInv
<1>2. CASE ~IsOpen
  <2>1. ct = Closed /\ ct' = Opened
    BY <1>2 DEF OpenContainer, IInv, RefsExact
  <2>2. ct.ref = 0 /\ ct.objs = [o \in Objs |-> 0]
    BY <2>1 DEF Closed
  <2>3. ct'.ref = 1 /\ ct'.objs = [o \in Objs |-> 0]
    BY <2>1 DEF Opened, Closed
  <2>4. ct' \in [ref : Nat, objs : [Objs -> Nat], leaked : BOOLEAN]
    BY <2>1 DEF Opened, Closed
  <2>. QED BY <2>2, <2>3, <2>4
<1>. QED BY <1>1, <1>2

\* An open that fails changes nothing.
LEMMA OpenContainerFails == OpenContainer(FALSE) => ct' = ct
BY DEF OpenContainer

\* A close gives one handle back; the last one finds all objects closed.
LEMMA CloseContainerIs ==
  ASSUME IInv, CloseContainer, ct.ref > 0,
         ct.ref = 1 => \A o \in Objs : ct.objs[o] = 0
  PROVE  /\ ct' \in [ref : Nat, objs : [Objs -> Nat], leaked : BOOLEAN]
         /\ ct'.ref = ct.ref - 1 /\ ct'.objs = ct.objs
         /\ ct'.ref = 0 => ct' = Closed
<1>1. CASE ct.ref > 1
  BY <1>1 DEF CloseContainer, IInv, TypeInv
<1>2. CASE ct.ref = 1
  <2>1. ct' = Closed
    BY <1>2 DEF CloseContainer
  <2>2. ct.objs = [o \in Objs |-> 0]
    BY <1>2 DEF IInv, TypeInv
  <2>. QED BY <1>2, <2>1, <2>2 DEF Closed
<1>. QED BY <1>1, <1>2 DEF IInv, TypeInv

\* open_object and create_object count a handle of one object when they succeed.
LEMMA OpenObjectIs ==
  ASSUME IInv, NEW o \in Objs, NEW ok \in BOOLEAN,
         \/ CreateObject(o, ok)
         \/ OpenObject(o, ok) /\ UNCHANGED known
  PROVE  /\ ct' \in [ref : Nat, objs : [Objs -> Nat], leaked : BOOLEAN]
         /\ known' \subseteq Objs
         /\ ct'.ref = ct.ref
         /\ \A p \in Objs : ct'.objs[p] = ct.objs[p] + Bit(ok /\ p = o)
         /\ ~ok => ct' = ct
<1>1. CASE CreateObject(o, ok)
  BY <1>1 DEF CreateObject, IInv, TypeInv, Bit
<1>2. CASE OpenObject(o, ok) /\ UNCHANGED known
  BY <1>2 DEF OpenObject, IInv, TypeInv, Bit
<1>. QED BY <1>1, <1>2

\* Where an actor can be under way, and with which command.
LEMMA UnderWay ==
  ASSUME IInv, NEW a \in Actors, pc[a] \in ObjectLabels
  PROVE  /\ pc[a] # "close_ct" => cmd.obj \in Objs
         /\ pc[a] # "close_obj" \/ a \in Threads => cmd.op # "close"
         /\ a \in Threads => cmd.op = "perf" /\ pc[a] \notin OverLabels /\ para.alive
         /\ a \notin Threads => a = UI /\ pc[UI] \notin PerfLabels
<1>1. CASE a \in Threads
  <2>1. pc[a] # "none"
    BY DEF ObjectLabels
  <2>2. para # NoPara
    BY <1>1, <2>1 DEF IInv, PerfInv, NoPara, Threads
  <2>. QED BY <1>1, <2>2 DEF IInv, PerfInv, OverLabels, ObjectLabels
<1>2. CASE a \notin Threads
  BY <1>2 DEF IInv, CmdInv, Actors, ObjectLabels, PerfLabels
<1>. QED BY <1>1, <1>2

\* A call that keeps the references exact keeps the invariant, whoever makes it.
LEMMA AnyCallInv ==
  ASSUME IInv, NEW a \in Actors, pc[a] \in ObjectLabels,
         NEW l \in ObjectLabels \cup {IF a = UI THEN "idle" ELSE "count_down"},
         pc' = [pc EXCEPT ![a] = l], UNCHANGED <<cmd, para, kept>>,
         l \in {"open_obj", "work", "open_ct"} => pc[a] \in {"open_obj", "open_ct", "work"},
         l = "close_obj" => pc[a] = "work",
         l = "close_ct" => cmd.op # "close",
         ct' \in [ref : Nat, objs : [Objs -> Nat], leaked : BOOLEAN],
         known' \subseteq Objs, RefsExact'
  PROVE  IInv'
<1>1. CASE a \in Threads
  BY <1>1, UnderWay, ThreadInv, UIFacts
<1>2. CASE a \notin Threads
  <2>1. a = UI /\ pc[UI] \notin PerfLabels /\ l \in UILabels \ PerfLabels
    BY <1>2, UnderWay DEF UILabels, PerfLabels, ObjectLabels
  <2>2. pc'[UI] = l
    BY <2>1, UIFacts DEF IInv, TypeInv
  <2>3. CmdInv'
    <3>1. CmdInv
      BY DEF IInv
    <3>2. l # "print_sb" /\ l # "leave_obj"
      BY <2>1 DEF ObjectLabels
    <3>. QED BY <2>1, <2>2, <3>1, <3>2 DEF CmdInv, ObjectLabels
  <2>4. KeptInv' /\ kept' \in [ct : Nat, objs : [Objs -> Nat]]
        /\ cmd' \in [op : Ops, obj : Objs \cup {NoObj}]
    BY DEF IInv, TypeInv, KeptInv
  <2>. QED BY <2>1, <2>3, <2>4, CallInv
<1>. QED BY <1>1, <1>2
-----------------------------------------------------------------------------
(***************************************************************************)
(* The calls of commands and of perf threads keep the invariant.           *)
(***************************************************************************)

\* What is to show of a call for the references to be exact after it.
LEMMA RefsStep ==
  ASSUME IInv, NEW a \in Actors, NEW l, pc' = [pc EXCEPT ![a] = l], cmd' = cmd,
         ct' \in [ref : Nat, objs : [Objs -> Nat], leaked : BOOLEAN],
         kept' \in [ct : Nat, objs : [Objs -> Nat]],
         ct'.ref + kept.ct = ct.ref + kept'.ct - Bit(HoldsCt(a)) + Bit(HoldsCt(a)'),
         \A o \in Objs :
           ct'.objs[o] + kept.objs[o] = ct.objs[o] + kept'.objs[o]
             - Bit(HoldsObj(a) /\ cmd.obj = o) + Bit(HoldsObj(a)' /\ cmd.obj = o),
         ct'.ref = 0 => ct' = Closed
  PROVE  RefsExact'
<1>1. RefsAre!:'
  BY RefsAre, PTL
<1>2. /\ ct'.ref = kept'.ct + Cardinality(Holders')
      /\ \A o \in Objs : ct'.objs[o] = kept'.objs[o] + Cardinality(Users(o)')
  <2>1. /\ ct.ref \in Nat /\ kept.ct \in Nat /\ ct'.ref \in Nat /\ kept'.ct \in Nat
        /\ \A o \in Objs : /\ ct.objs[o] \in Nat /\ kept.objs[o] \in Nat
                           /\ ct'.objs[o] \in Nat /\ kept'.objs[o] \in Nat
    BY DEF IInv, TypeInv
  <2>2. /\ ct.ref = kept.ct + Cardinality(Holders)
        /\ \A o \in Objs : ct.objs[o] = kept.objs[o] + Cardinality(Users(o))
    BY RefsAre DEF IInv
  <2>3. /\ Cardinality(Holders) \in Nat
        /\ Cardinality(Holders') = Cardinality(Holders) - Bit(HoldsCt(a)) + Bit(HoldsCt(a)')
        /\ \A o \in Objs :
             /\ Cardinality(Users(o)) \in Nat
             /\ Cardinality(Users(o)') = Cardinality(Users(o))
                  - Bit(HoldsObj(a) /\ cmd.obj = o) + Bit(HoldsObj(a)' /\ cmd.obj = o)
    BY ActorStep
  <2>4. ct'.ref = kept'.ct + Cardinality(Holders')
    <3>1. PICK b \in Int, bn \in Int : b = Bit(HoldsCt(a)) /\ bn = Bit(HoldsCt(a)')
      BY DEF Bit
    <3>2. ct'.ref + kept.ct = ct.ref + kept'.ct - b + bn
      BY <3>1
    <3>3. Cardinality(Holders') = Cardinality(Holders) - b + bn
      BY <2>3, <3>1
    <3>. QED BY <2>1, <2>2, <2>3, <3>2, <3>3
  <2>5. ASSUME NEW o \in Objs
        PROVE  ct'.objs[o] = kept'.objs[o] + Cardinality(Users(o)')
    <3>1. PICK b \in Int, bn \in Int : /\ b = Bit(HoldsObj(a) /\ cmd.obj = o)
                                       /\ bn = Bit(HoldsObj(a)' /\ cmd.obj = o)
      BY DEF Bit
    <3>2. ct'.objs[o] + kept.objs[o] = ct.objs[o] + kept'.objs[o] - b + bn
      BY <3>1
    <3>3. Cardinality(Users(o)') = Cardinality(Users(o)) - b + bn
      BY <2>3, <3>1
    <3>. QED BY <2>1, <2>2, <2>3, <3>2, <3>3
  <2>. QED BY <2>4, <2>5
<1>3. ~IsOpen' => ct' = Closed
  BY DEF IsOpen
<1>. QED BY <1>1, <1>2, <1>3

\* What the inductive invariant says of the container.
LEMMA CtFacts ==
  ASSUME IInv
  PROVE  /\ ct \in [ref : Nat, objs : [Objs -> Nat], leaked : BOOLEAN]
         /\ ct.ref \in Nat /\ \A o \in Objs : ct.objs[o] \in Nat
         /\ ct.ref = 0 => ct = Closed
<1>1. TypeInv /\ RefsExact
  BY DEF IInv
<1>2. ct \in [ref : Nat, objs : [Objs -> Nat], leaked : BOOLEAN]
  BY <1>1 DEF TypeInv
<1>3. ct.ref = 0 => ct = Closed
  BY <1>1, <1>2 DEF RefsExact, IsOpen
<1>. QED BY <1>2, <1>3

\* The same, for an actor whose holdings before and after are known.
LEMMA RefsChange ==
  ASSUME IInv, NEW a \in Actors, NEW l, pc' = [pc EXCEPT ![a] = l],
         UNCHANGED <<cmd, kept>>,
         ct' \in [ref : Nat, objs : [Objs -> Nat], leaked : BOOLEAN],
         NEW h \in BOOLEAN, HoldsCt(a) <=> h, NEW hn \in BOOLEAN, HoldsCt(a)' <=> hn,
         NEW u \in BOOLEAN, HoldsObj(a) <=> u, NEW un \in BOOLEAN, HoldsObj(a)' <=> un,
         ct'.ref = ct.ref - Bit(h) + Bit(hn),
         \A o \in Objs :
           cmd.obj = o => ct'.objs[o] = ct.objs[o] - Bit(u) + Bit(un),
         \A o \in Objs : cmd.obj # o => ct'.objs[o] = ct.objs[o],
         ct'.ref = 0 => ct' = Closed
  PROVE  RefsExact'
<1>1. /\ ct.ref \in Nat /\ kept.ct \in Nat /\ kept' = kept
      /\ \A o \in Objs : ct.objs[o] \in Nat /\ kept.objs[o] \in Nat
      /\ kept' \in [ct : Nat, objs : [Objs -> Nat]]
  BY DEF IInv, TypeInv
<1>2. ct'.ref + kept.ct = ct.ref + kept'.ct - Bit(HoldsCt(a)) + Bit(HoldsCt(a)')
  BY <1>1 DEF Bit
<1>3. ASSUME NEW o \in Objs
      PROVE  ct'.objs[o] + kept.objs[o] = ct.objs[o] + kept'.objs[o]
               - Bit(HoldsObj(a) /\ cmd.obj = o) + Bit(HoldsObj(a)' /\ cmd.obj = o)
  <2>1. CASE cmd.obj = o
    <3>1. ct'.objs[o] = ct.objs[o] - Bit(u) + Bit(un)
      BY <2>1
    <3>2. /\ Bit(HoldsObj(a) /\ cmd.obj = o) = Bit(u)
          /\ Bit(HoldsObj(a)' /\ cmd.obj = o) = Bit(un)
      BY <2>1 DEF Bit
    <3>3. Bit(u) \in Nat /\ Bit(un) \in Nat
      BY DEF Bit
    <3>. QED BY <1>1, <3>1, <3>2, <3>3
  <2>2. CASE cmd.obj # o
    <3>1. /\ Bit(HoldsObj(a) /\ cmd.obj = o) = 0
          /\ Bit(HoldsObj(a)' /\ cmd.obj = o) = 0
      BY <2>2 DEF Bit
    <3>2. ct'.objs[o] = ct.objs[o]
      BY <2>2
    <3>. QED BY <1>1, <3>1, <3>2
  <2>. QED BY <2>1, <2>2
<1>. QED BY <1>1, <1>2, <1>3, RefsStep

\* The container is open while somebody holds it.
LEMMA HeldIsOpen ==
  ASSUME IInv, NEW a \in Actors, HoldsCt(a)
  PROVE  ct.ref > 0
<1>1. Holders \in SUBSET Actors /\ a \in Holders
  BY DEF Holders
<1>2. IsFiniteSet(Holders) /\ Cardinality(Holders) \in Nat
  BY <1>1, SomeActors
<1>3. Cardinality(Holders \ {a}) = Cardinality(Holders) - 1
      /\ Cardinality(Holders \ {a}) \in Nat
  BY <1>1, <1>2, FS_RemoveElement, SomeActors
<1>. QED BY <1>2, <1>3, RefsAre DEF IInv, TypeInv

\* The last holder of a container that no command left open.
LEMMA LastHolder ==
  ASSUME IInv, NEW a \in Actors, HoldsCt(a), ~HoldsObj(a), ct.ref = 1
  PROVE  \A o \in Objs : ct.objs[o] = 0
<1>1. Holders \in SUBSET Actors /\ a \in Holders
  BY DEF Holders
<1>2. IsFiniteSet(Holders) /\ Cardinality(Holders) \in Nat
  BY <1>1, SomeActors
<1>3. /\ Cardinality(Holders \ {a}) = Cardinality(Holders) - 1
      /\ Cardinality(Holders \ {a}) \in Nat /\ IsFiniteSet(Holders \ {a})
  BY <1>1, <1>2, FS_RemoveElement, SomeActors
<1>4. kept.ct = 0 /\ Cardinality(Holders \ {a}) = 0
  BY <1>2, <1>3, RefsAre DEF IInv, TypeInv
<1>5. Holders \ {a} = {}
  BY <1>3, <1>4, FS_EmptySet
<1>6. ASSUME NEW o \in Objs PROVE ct.objs[o] = 0
  <2>1. Users(o) = {}
    BY <1>5 DEF Users, Holders, HoldsCt
  <2>2. kept.objs[o] = 0
    BY <1>4 DEF IInv, KeptInv
  <2>3. Cardinality({}) = 0
    BY FS_EmptySet
  <2>. QED BY <2>1, <2>2, <2>3, RefsAre DEF IInv
<1>. QED BY <1>6

\* ofs_open_container, then the object or the end.
LEMMA OpenCtInv == ASSUME NEW a \in Actors, IInv, OpenCt(a) PROVE IInv'
<1>1. pc[a] \in ObjectLabels /\ pc[a] = "open_ct" /\ ~HoldsObj(a) /\ ~HoldsCt(a)
  BY DEF OpenCt, ObjectLabels, HoldsObj, HoldsCt
<1>2. ct.ref \in Nat /\ \A o \in Objs : ct.objs[o] \in Nat
  BY DEF IInv, TypeInv
<1>3. CASE OpenContainer(TRUE) /\ Goto(a, "open_obj")
  <2>1. pc' = [pc EXCEPT ![a] = "open_obj"] /\ pc'[a] = "open_obj"
    BY <1>3 DEF Goto, IInv, TypeInv
  <2>2. ~HoldsObj(a)' /\ HoldsCt(a)'
    BY <2>1 DEF HoldsObj, HoldsCt
  <2>3. /\ ct' \in [ref : Nat, objs : [Objs -> Nat], leaked : BOOLEAN]
        /\ ct'.ref = ct.ref + 1 /\ ct'.objs = ct.objs
    BY <1>3, OpenContainerIs
  <2>4. /\ ct'.ref = ct.ref - Bit(FALSE) + Bit(TRUE) /\ ct'.ref # 0
        /\ \A o \in Objs : ct'.objs[o] = ct.objs[o] - Bit(FALSE) + Bit(FALSE)
    BY <1>2, <2>3 DEF Bit
  <2>5. UNCHANGED <<cmd, kept>>
    BY DEF OpenCt
  <2>6. RefsExact'
    BY <1>1, <2>1, <2>2, <2>3, <2>4, <2>5, RefsChange
  <2>. QED BY <1>1, <2>1, <2>3, <2>6, AnyCallInv
           DEF OpenCt, ObjectLabels, IInv, TypeInv
<1>4. CASE OpenContainer(FALSE) /\ Goto(a, IF a = UI THEN "idle" ELSE "count_down")
  <2> DEFINE l == IF a = UI THEN "idle" ELSE "count_down"
  <2>1. pc' = [pc EXCEPT ![a] = l] /\ pc'[a] = l
    BY <1>4 DEF Goto, IInv, TypeInv
  <2>2. ~HoldsObj(a)' /\ ~HoldsCt(a)' /\ ct' = ct
    <3>1. ct' = ct
      BY <1>4, OpenContainerFails
    <3>. HIDE DEF l
    <3>2. l \in {"idle", "count_down"}
      BY DEF l
    <3>. QED BY <2>1, <3>1, <3>2 DEF HoldsObj, HoldsCt
  <2>3. RefsExact'
    <3>1. /\ ct'.ref = ct.ref - Bit(FALSE) + Bit(FALSE)
          /\ \A o \in Objs : ct'.objs[o] = ct.objs[o] - Bit(FALSE) + Bit(FALSE)
      BY <1>2, <2>2 DEF Bit
    <3>2. UNCHANGED <<cmd, kept>>
      BY DEF OpenCt
    <3>3. ct'.ref = 0 => ct' = Closed
      BY <2>2, CtFacts
    <3>. QED BY <1>1, <2>1, <2>2, <3>1, <3>2, <3>3, CtFacts, RefsChange
  <2>. QED BY <1>1, <2>1, <2>2, <2>3, AnyCallInv DEF OpenCt, IInv, TypeInv
<1>. QED BY <1>3, <1>4 DEF OpenCt

\* open_object or create_object of the command's object.
LEMMA OpenObjInv == ASSUME NEW a \in Actors, IInv, OpenObj(a) PROVE IInv'
<1>1. PICK ok \in BOOLEAN :
        /\ IF a # UI /\ para.insert THEN CreateObject(cmd.obj, ok)
           ELSE OpenObject(cmd.obj, ok) /\ UNCHANGED known
        /\ Goto(a, IF ok THEN "work" ELSE AfterFailure(a))
  BY DEF OpenObj
<1>2. /\ pc[a] \in ObjectLabels /\ pc[a] = "open_obj" /\ ~HoldsObj(a) /\ HoldsCt(a)
      /\ cmd.obj \in Objs /\ cmd.op # "close"
  BY UnderWay DEF OpenObj, ObjectLabels, HoldsObj, HoldsCt
<1>3. /\ ct' \in [ref : Nat, objs : [Objs -> Nat], leaked : BOOLEAN]
      /\ known' \subseteq Objs
      /\ ct'.ref = ct.ref
      /\ \A p \in Objs : ct'.objs[p] = ct.objs[p] + Bit(ok /\ p = cmd.obj)
  BY <1>1, <1>2, OpenObjectIs
<1>4. PICK l \in {"work", "close_ct"} : l = IF ok THEN "work" ELSE "close_ct"
  OBVIOUS
<1>5. pc' = [pc EXCEPT ![a] = l] /\ pc'[a] = l
  BY <1>1, <1>4 DEF Goto, AfterFailure, IInv, TypeInv
<1>6. cmd' = cmd
  BY DEF OpenObj
<1>7. HoldsCt(a)' /\ (HoldsObj(a)' <=> ok)
  BY <1>2, <1>4, <1>5, <1>6 DEF HoldsObj, HoldsCt
<1>8. RefsExact'
  <2>1. ct.ref \in Nat /\ (\A o \in Objs : ct.objs[o] \in Nat) /\ ct.ref > 0
    BY <1>2, HeldIsOpen, CtFacts
  <2>2. /\ ct'.ref = ct.ref - Bit(TRUE) + Bit(TRUE) /\ ct'.ref # 0
        /\ \A o \in Objs : cmd.obj = o => ct'.objs[o] = ct.objs[o] - Bit(FALSE) + Bit(ok)
        /\ \A o \in Objs : cmd.obj # o => ct'.objs[o] = ct.objs[o]
    <3>1. ct'.ref = ct.ref - Bit(TRUE) + Bit(TRUE) /\ ct'.ref # 0
      BY <1>3, <2>1 DEF Bit
    <3>2. ASSUME NEW o \in Objs, cmd.obj = o
          PROVE  ct'.objs[o] = ct.objs[o] - Bit(FALSE) + Bit(ok)
      <4>1. ct'.objs[o] = ct.objs[o] + Bit(ok)
        <5>1. ct'.objs[o] = ct.objs[o] + Bit(ok /\ o = cmd.obj)
          BY <1>3
        <5>. QED BY <3>2, <5>1 DEF Bit
      <4>. QED BY <2>1, <4>1 DEF Bit
    <3>3. ASSUME NEW o \in Objs, cmd.obj # o PROVE ct'.objs[o] = ct.objs[o]
      <4>1. ct'.objs[o] = ct.objs[o] + Bit(ok /\ o = cmd.obj)
        BY <1>3
      <4>. QED BY <2>1, <3>3, <4>1 DEF Bit
    <3>. QED BY <3>1, <3>2, <3>3
  <2>3. UNCHANGED <<cmd, kept>>
    BY DEF OpenObj
  <2>. QED BY <1>2, <1>3, <1>5, <1>7, <2>2, <2>3, RefsChange
<1>. QED BY <1>2, <1>3, <1>4, <1>5, <1>8, AnyCallInv DEF OpenObj, ObjectLabels

\* The keys of the object change, its handle stays.
LEMMA WorkInv == ASSUME NEW a \in Actors, IInv, Work(a) PROVE IInv'
<1>1. pc[a] \in ObjectLabels /\ pc[a] = "work"
  BY DEF Work, ObjectLabels
<1>2. pc' = [pc EXCEPT ![a] = "close_obj"] /\ pc'[a] = "close_obj" /\ cmd' = cmd /\ ct' = ct
  BY DEF Work, Goto, IInv, TypeInv
<1>3. HoldsCt(a)' = HoldsCt(a) /\ HoldsObj(a)' = HoldsObj(a)
  BY <1>1, <1>2 DEF HoldsObj, HoldsCt
<1>4. RefsExact'
  <2>1. PICK h \in BOOLEAN, u \in BOOLEAN : (HoldsCt(a) <=> h) /\ (HoldsObj(a) <=> u)
    BY DEF HoldsCt, HoldsObj
  <2>2. /\ ct'.ref = ct.ref - Bit(h) + Bit(h)
        /\ \A o \in Objs : ct'.objs[o] = ct.objs[o] - Bit(u) + Bit(u)
        /\ \A o \in Objs : ct'.objs[o] = ct.objs[o]
    <3>1. ct.ref \in Nat /\ \A o \in Objs : ct.objs[o] \in Nat
      BY CtFacts
    <3>2. Bit(h) \in Nat /\ Bit(u) \in Nat
      BY DEF Bit
    <3>. QED BY <1>2, <3>1, <3>2
  <2>3. UNCHANGED <<cmd, kept>>
    BY DEF Work
  <2>. QED BY <1>2, <1>3, <2>1, <2>2, <2>3, CtFacts, RefsChange
<1>. QED BY <1>1, <1>2, <1>4, AnyCallInv DEF Work, ObjectLabels, IInv, TypeInv

\* close_container by an actor that holds the container and no object.
LEMMA CloseCtInv == ASSUME NEW a \in Actors, IInv, CloseCt(a) PROVE IInv'
<1>1. /\ pc[a] \in ObjectLabels /\ pc[a] = "close_ct" /\ ~HoldsObj(a) /\ HoldsCt(a)
  BY DEF CloseCt, ObjectLabels, HoldsObj, HoldsCt
<1>2. /\ ct' \in [ref : Nat, objs : [Objs -> Nat], leaked : BOOLEAN]
      /\ ct'.ref = ct.ref - 1 /\ ct'.objs = ct.objs
      /\ ct'.ref = 0 => ct' = Closed
  <2>1. ct.ref > 0
    BY <1>1, HeldIsOpen
  <2>2. ct.ref = 1 => \A o \in Objs : ct.objs[o] = 0
    BY <1>1, LastHolder
  <2>3. CloseContainer
    BY DEF CloseCt
  <2>. QED BY <2>1, <2>2, <2>3, CloseContainerIs
<1>3. PICK l \in {"idle", "count_down"} : l = IF a = UI THEN "idle" ELSE "count_down"
  OBVIOUS
<1>4. pc' = [pc EXCEPT ![a] = l] /\ pc'[a] = l
  BY <1>3 DEF CloseCt, Goto, IInv, TypeInv
<1>5. ~HoldsCt(a)' /\ ~HoldsObj(a)'
  BY <1>3, <1>4 DEF HoldsObj, HoldsCt
<1>6. RefsExact'
  <2>1. /\ ct'.ref = ct.ref - Bit(TRUE) + Bit(FALSE)
        /\ \A o \in Objs : ct'.objs[o] = ct.objs[o] - Bit(FALSE) + Bit(FALSE)
    <3>1. ct.ref \in Nat /\ \A o \in Objs : ct.objs[o] \in Nat
      BY CtFacts
    <3>. QED BY <1>2, <3>1 DEF Bit
  <2>2. UNCHANGED <<cmd, kept>>
    BY DEF CloseCt
  <2>. QED BY <1>1, <1>2, <1>4, <1>5, <2>1, <2>2, CtFacts, RefsChange
<1>. QED BY <1>1, <1>2, <1>3, <1>4, <1>6, AnyCallInv DEF CloseCt, IInv, TypeInv

\* close_object, of the handle that was opened for the work or of one that a
\* command left open.
LEMMA CloseObjInv == ASSUME NEW a \in Actors, IInv, CloseObj(a) PROVE IInv'
<1>1. /\ pc[a] \in ObjectLabels /\ pc[a] = "close_obj" /\ cmd.obj \in Objs /\ cmd' = cmd
      /\ ct' = [ct EXCEPT !.objs[cmd.obj] = @ - 1]
  BY UnderWay DEF CloseObj, CloseObject, ObjectLabels
<1>2. CASE cmd.op = "close"
  <2>1. a = UI /\ pc[UI] \notin PerfLabels
    BY <1>1, <1>2, UnderWay
  <2>2. /\ pc' = [pc EXCEPT ![UI] = "idle"] /\ pc'[UI] = "idle" /\ UNCHANGED <<para, known>>
        /\ kept' = [kept EXCEPT !.objs[cmd.obj] = @ - 1]
    BY <1>2, <2>1, UIFacts DEF CloseObj, Goto, IInv, TypeInv
  <2>3. kept.objs[cmd.obj] > 0 /\ KeptInv /\ kept \in [ct : Nat, objs : [Objs -> Nat]]
    BY <1>1, <1>2, <2>1 DEF IInv, CmdInv, TypeInv
  <2>4. /\ ct.objs[cmd.obj] = kept.objs[cmd.obj] + Cardinality(Users(cmd.obj))
        /\ Cardinality(Users(cmd.obj)) \in Nat
    BY <1>1, RefsAre, SomeActors DEF IInv, Users
  <2>5. /\ kept' \in [ct : Nat, objs : [Objs -> Nat]] /\ kept'.ct = kept.ct
        /\ \A o \in Objs :
             kept'.objs[o] = IF o = cmd.obj THEN kept.objs[o] - 1 ELSE kept.objs[o]
    BY <1>1, <2>2, <2>3
  <2>6. /\ ct' \in [ref : Nat, objs : [Objs -> Nat], leaked : BOOLEAN] /\ ct'.ref = ct.ref
        /\ \A o \in Objs : ct'.objs[o] = IF o = cmd.obj THEN ct.objs[o] - 1 ELSE ct.objs[o]
    BY <1>1, <2>3, <2>4, CtFacts
  <2>7. KeptInv' /\ kept.ct > 0
    BY <1>1, <2>3, <2>5 DEF KeptInv
  <2>8. RefsExact'
    <3>1. ~HoldsCt(a) /\ ~HoldsCt(a)' /\ ~HoldsObj(a) /\ ~HoldsObj(a)'
      BY <1>1, <1>2, <2>1, <2>2 DEF HoldsCt, HoldsObj
    <3>2. ct'.ref + kept.ct = ct.ref + kept'.ct - Bit(HoldsCt(a)) + Bit(HoldsCt(a)')
      BY <2>3, <2>5, <2>6, <3>1, CtFacts DEF Bit
    <3>3. ASSUME NEW o \in Objs
          PROVE  ct'.objs[o] + kept.objs[o] = ct.objs[o] + kept'.objs[o]
             - Bit(HoldsObj(a) /\ cmd.obj = o) + Bit(HoldsObj(a)' /\ cmd.obj = o)
      BY <2>3, <2>5, <2>6, <3>1, CtFacts DEF Bit
    <3>4. ct'.ref # 0
      BY <2>3, <2>6, <2>7, RefsAre, SomeActors, CtFacts DEF IInv, Holders
    <3>. QED BY <1>1, <2>1, <2>2, <2>5, <2>6, <3>2, <3>3, <3>4, RefsStep
  <2>9. CmdInv' /\ "idle" \in UILabels \ PerfLabels
    BY <2>2 DEF CmdInv, UILabels, PerfLabels
  <2>10. cmd' \in [op : Ops, obj : Objs \cup {NoObj}] /\ known' \subseteq Objs
    BY <1>1, <2>2 DEF IInv, TypeInv
  <2>. QED BY <2>1, <2>2, <2>5, <2>6, <2>7, <2>8, <2>9, <2>10, CallInv
<1>3. CASE cmd.op # "close"
  <2>1. /\ pc' = [pc EXCEPT ![a] = "close_ct"] /\ pc'[a] = "close_ct"
        /\ UNCHANGED <<para, known, kept>>
    BY <1>3 DEF CloseObj, Goto, IInv, TypeInv
  <2>2. HoldsCt(a) /\ HoldsObj(a) /\ HoldsCt(a)' /\ ~HoldsObj(a)'
    BY <1>1, <1>3, <2>1 DEF HoldsCt, HoldsObj
  <2>3. ct.ref > 0 /\ ct.objs[cmd.obj] > 0
    <3>1. a \in Users(cmd.obj) /\ Users(cmd.obj) \in SUBSET Actors
      BY <2>2 DEF Users
    <3>2. Cardinality(Users(cmd.obj)) \in Nat /\ Cardinality(Users(cmd.obj)) # 0
      BY <3>1, SomeActors, FS_EmptySet
    <3>3. ct.objs[cmd.obj] = kept.objs[cmd.obj] + Cardinality(Users(cmd.obj))
      BY <1>1, RefsAre DEF IInv
    <3>4. kept.objs[cmd.obj] \in Nat
      BY <1>1 DEF IInv, TypeInv
    <3>. QED BY <2>2, <3>2, <3>3, <3>4, HeldIsOpen
  <2>4. /\ ct' \in [ref : Nat, objs : [Objs -> Nat], leaked : BOOLEAN] /\ ct'.ref = ct.ref
        /\ \A o \in Objs : ct'.objs[o] = IF o = cmd.obj THEN ct.objs[o] - 1 ELSE ct.objs[o]
    BY <1>1, <2>3, CtFacts
  <2>5. RefsExact'
    <3>1. /\ ct'.ref = ct.ref - Bit(TRUE) + Bit(TRUE) /\ ct'.ref # 0
          /\ \A o \in Objs : cmd.obj = o => ct'.objs[o] = ct.objs[o] - Bit(TRUE) + Bit(FALSE)
          /\ \A o \in Objs : cmd.obj # o => ct'.objs[o] = ct.objs[o]
      BY <2>3, <2>4, CtFacts DEF Bit
    <3>. QED BY <1>1, <2>1, <2>2, <2>4, <3>1, RefsChange
  <2>6. known' \subseteq Objs /\ "close_ct" \in ObjectLabels
    BY <2>1 DEF IInv, TypeInv, ObjectLabels
  <2>. QED BY <1>1, <1>3, <2>1, <2>4, <2>5, <2>6, AnyCallInv
<1>. QED BY <1>2, <1>3

\* The calls of a command or of a perf thread.
LEMMA CallsInv == ASSUME NEW a \in Actors, IInv, Calls(a) PROVE IInv'
BY OpenCtInv, OpenObjInv, WorkInv, CloseObjInv, CloseCtInv DEF Calls
-----------------------------------------------------------------------------
(***************************************************************************)
(* Commands.                                                               *)
(***************************************************************************)

\* Between two commands no perf thread runs and nobody holds anything.
LEMMA BetweenCommands ==
  ASSUME IInv, pc[UI] = "idle"
  PROVE  /\ \A t \in Threads : pc[t] = "none"
         /\ ct.ref = kept.ct /\ \A o \in Objs : ct.objs[o] = kept.objs[o]
<1>1. \A t \in Threads : pc[t] = "none"
  BY DEF IInv, PerfInv, PerfLabels, NoPara, Threads
<1>2. \A a \in Actors : ~HoldsCt(a) /\ ~HoldsObj(a)
  BY <1>1 DEF HoldsCt, HoldsObj, Actors
<1>3. Holders = {} /\ \A o \in Objs : Users(o) = {}
  BY <1>2 DEF Holders, Users
<1>4. Cardinality({}) = 0
  BY FS_EmptySet
<1>5. /\ ct.ref = kept.ct + Cardinality(Holders)
      /\ \A o \in Objs : ct.objs[o] = kept.objs[o] + Cardinality(Users(o))
  BY RefsAre DEF IInv
<1>6. kept.ct \in Nat /\ \A o \in Objs : kept.objs[o] \in Nat
  BY DEF IInv, TypeInv
<1>7. ASSUME NEW o \in Objs PROVE ct.objs[o] = kept.objs[o]
  <2>1. Cardinality(Users(o)) = 0
    BY <1>3, <1>4
  <2>2. ct.objs[o] = kept.objs[o] + Cardinality(Users(o)) /\ kept.objs[o] \in Nat
    BY <1>5, <1>6
  <2>. QED BY <2>1, <2>2
<1>8. ct.ref = kept.ct
  <2>1. Cardinality(Holders) = 0
    BY <1>3, <1>4
  <2>. QED BY <1>5, <1>6, <2>1
<1>. QED BY <1>1, <1>7, <1>8

\* A command that holds nothing after its first step.
LEMMA CommandInv ==
  ASSUME IInv, pc[UI] = "idle",
         NEW l \in UILabels, l \notin {"open_obj", "work", "close_ct"},
         pc' = [pc EXCEPT ![UI] = l],
         l \notin PerfLabels, l = "close_obj" => cmd'.op = "close",
         cmd' \in [op : Ops, obj : Objs \cup {NoObj}], UNCHANGED para,
         ct' \in [ref : Nat, objs : [Objs -> Nat], leaked : BOOLEAN],
         kept' \in [ct : Nat, objs : [Objs -> Nat]], known' \subseteq Objs,
         ct'.ref = kept'.ct + Bit(l = "print_sb"),
         \A o \in Objs : ct'.objs[o] = kept'.objs[o],
         ct'.ref = 0 => ct' = Closed, KeptInv', CmdInv'
  PROVE  IInv'
<1>1. pc'[UI] = l /\ \A t \in Threads : pc'[t] = "none"
  BY BetweenCommands, UIFacts DEF IInv, TypeInv
<1>2. /\ \A a \in Actors : ~HoldsObj(a)' /\ (HoldsCt(a)' <=> a = UI /\ l = "print_sb")
  BY <1>1, UIFacts DEF HoldsCt, HoldsObj, Actors
<1>3. Cardinality(Holders') = Bit(l = "print_sb")
  <2>1. Holders' = IF l = "print_sb" THEN {UI} ELSE {}
    BY <1>2, UIFacts DEF Holders
  <2>. QED BY <2>1, FS_EmptySet, FS_Singleton DEF Bit
<1>4. \A o \in Objs : Cardinality(Users(o)') = 0
  <2>1. \A o \in Objs : Users(o)' = {}
    BY <1>2 DEF Users
  <2>. QED BY <2>1, FS_EmptySet
<1>5. RefsExact'
  <2>1. RefsAre!:'
    BY RefsAre, PTL
  <2>2. ~IsOpen' => ct' = Closed
    BY DEF IsOpen
  <2>3. \A o \in Objs : ct'.objs[o] = kept'.objs[o] + Cardinality(Users(o)')
    BY <1>4
  <2>. QED BY <1>3, <2>1, <2>2, <2>3
<1>6. pc[UI] \notin PerfLabels
  BY DEF PerfLabels
<1>. QED BY <1>5, <1>6, CallInv

\* The container is created, and left open.
LEMMA CreateCtInv == ASSUME IInv, CmdCreateCt PROVE IInv'
<1>1. /\ pc[UI] = "idle" /\ pc' = [pc EXCEPT ![UI] = "idle"] /\ pc'[UI] = "idle"
      /\ cmd' = [op |-> "create", obj |-> NoObj] /\ UNCHANGED para
      /\ known' = {} /\ ct = Closed
  BY UIFacts DEF CmdCreateCt, Issue, Goto, IInv, TypeInv, RefsExact
<1>2. kept'.ct \in Nat /\ CmdInv'
  BY <1>1 DEF CmdInv, CmdCreateCt, NothingKept, IInv, TypeInv
<1>3. /\ ct' \in [ref : Nat, objs : [Objs -> Nat], leaked : BOOLEAN]
      /\ kept' \in [ct : Nat, objs : [Objs -> Nat]]
      /\ ct'.ref = kept'.ct /\ \A o \in Objs : ct'.objs[o] = kept'.objs[o]
      /\ ct'.ref = 0 => ct' = Closed
      /\ KeptInv'
  <2>1. CASE ct' = Opened /\ kept' = [NothingKept EXCEPT !.ct = 1]
    BY <2>1 DEF Opened, Closed, NothingKept, KeptInv
  <2>2. CASE UNCHANGED <<ct, kept>>
    BY <1>1, <2>2, CtFacts, BetweenCommands DEF IInv, TypeInv, KeptInv
  <2>. QED BY <2>1, <2>2 DEF CmdCreateCt
<1>4. cmd' \in [op : Ops, obj : Objs \cup {NoObj}] /\ known' \subseteq Objs
      /\ "idle" \in UILabels \ PerfLabels
  BY <1>1 DEF Ops, UILabels, PerfLabels
<1>5. ct'.ref = kept'.ct + Bit("idle" = "print_sb")
  BY <1>2, <1>3 DEF Bit
<1>. QED BY <1>1, <1>2, <1>3, <1>4, <1>5, CommandInv

\* A command leaves the container open once more.
LEMMA OpenCmdInv == ASSUME IInv, CmdOpenCt PROVE IInv'
<1>1. /\ pc[UI] = "idle" /\ pc' = [pc EXCEPT ![UI] = "idle"] /\ pc'[UI] = "idle"
      /\ cmd' = [op |-> "open", obj |-> NoObj] /\ UNCHANGED <<para, known>>
      /\ kept' = [kept EXCEPT !.ct = @ + 1] /\ OpenContainer(TRUE)
  BY UIFacts DEF CmdOpenCt, Issue, Goto, IInv, TypeInv
<1>2. /\ ct' \in [ref : Nat, objs : [Objs -> Nat], leaked : BOOLEAN]
      /\ ct'.ref = ct.ref + 1 /\ ct'.objs = ct.objs
  BY <1>1, OpenContainerIs
<1>3. /\ kept.ct \in Nat /\ kept' \in [ct : Nat, objs : [Objs -> Nat]]
      /\ kept'.ct = kept.ct + 1 /\ kept'.objs = kept.objs
  BY <1>1 DEF IInv, TypeInv
<1>4. /\ ct'.ref = kept'.ct + Bit("idle" = "print_sb") /\ ct'.ref # 0
      /\ \A o \in Objs : ct'.objs[o] = kept'.objs[o]
  BY <1>1, <1>2, <1>3, BetweenCommands DEF Bit
<1>5. KeptInv' /\ CmdInv'
  BY <1>1, <1>3 DEF KeptInv, CmdInv
<1>6. cmd' \in [op : Ops, obj : Objs \cup {NoObj}] /\ known' \subseteq Objs
      /\ "idle" \in UILabels \ PerfLabels
  BY <1>1 DEF Ops, UILabels, PerfLabels, IInv, TypeInv
<1>. QED BY <1>1, <1>2, <1>3, <1>4, <1>5, <1>6, CommandInv

\* A command closes the container once; the last time its objects go, too.
LEMMA CloseCmdInv == ASSUME IInv, CmdCloseCt PROVE IInv'
<1>1. /\ pc[UI] = "idle" /\ pc' = [pc EXCEPT ![UI] = "idle"] /\ pc'[UI] = "idle"
      /\ cmd' = [op |-> "close", obj |-> NoObj] /\ UNCHANGED <<para, known>>
      /\ kept' = IF ct.ref > 1 THEN [kept EXCEPT !.ct = @ - 1] ELSE NothingKept
      /\ ct' = IF ct.ref > 1 THEN [ct EXCEPT !.ref = @ - 1] ELSE Closed
  BY UIFacts DEF CmdCloseCt, CloseContainer, Issue, Goto, IInv, TypeInv
<1>2. kept \in [ct : Nat, objs : [Objs -> Nat]] /\ KeptInv
  BY DEF IInv, TypeInv
<1>3. /\ ct' \in [ref : Nat, objs : [Objs -> Nat], leaked : BOOLEAN]
      /\ kept' \in [ct : Nat, objs : [Objs -> Nat]]
      /\ ct'.ref = kept'.ct /\ \A o \in Objs : ct'.objs[o] = kept'.objs[o]
      /\ ct'.ref = 0 => ct' = Closed
      /\ KeptInv'
  <2>1. CASE ct.ref > 1
    BY <1>1, <1>2, <2>1, CtFacts, BetweenCommands DEF KeptInv
  <2>2. CASE ~(ct.ref > 1)
    BY <1>1, <2>2 DEF Closed, NothingKept, KeptInv
  <2>. QED BY <2>1, <2>2
<1>4. CmdInv'
  BY <1>1 DEF CmdInv
<1>5. cmd' \in [op : Ops, obj : Objs \cup {NoObj}] /\ known' \subseteq Objs
      /\ "idle" \in UILabels \ PerfLabels
  BY <1>1 DEF Ops, UILabels, PerfLabels, IInv, TypeInv
<1>6. ct'.ref = kept'.ct + Bit("idle" = "print_sb")
  BY <1>3 DEF Bit
<1>. QED BY <1>1, <1>3, <1>4, <1>5, <1>6, CommandInv

\* A command that leaves all references as they are: with an object to open or
\* create, to close or to list, or with keys.
LEMMA QuietInv ==
  ASSUME IInv, pc[UI] = "idle",
         NEW l \in {"idle", "leave_obj", "close_obj", "open_ct"},
         pc' = [pc EXCEPT ![UI] = l],
         NEW op \in Ops, NEW o \in Objs, cmd' = [op |-> op, obj |-> o],
         l = "leave_obj" => op \in {"create", "open"} /\ ct.ref > 0,
         l = "close_obj" => op = "close" /\ ct.objs[o] > 0,
         l = "open_ct" => op = "key",
         UNCHANGED <<para, kept, known>>,
         ct' = ct \/ (ct' = [ct EXCEPT !.leaked = TRUE] /\ ct.ref > 0)
  PROVE  IInv'
<1>1. pc'[UI] = l /\ cmd'.op = op /\ cmd'.obj = o
  BY UIFacts DEF IInv, TypeInv
<1>2. /\ ct.ref = kept.ct /\ \A p \in Objs : ct.objs[p] = kept.objs[p]
      /\ kept \in [ct : Nat, objs : [Objs -> Nat]] /\ KeptInv /\ known \subseteq Objs
  BY BetweenCommands DEF IInv, TypeInv
<1>3. /\ ct' \in [ref : Nat, objs : [Objs -> Nat], leaked : BOOLEAN]
      /\ ct'.ref = ct.ref /\ ct'.objs = ct.objs
      /\ ct'.ref = 0 => ct' = Closed
  <2>1. /\ ct \in [ref : Nat, objs : [Objs -> Nat], leaked : BOOLEAN]
        /\ ct.ref = 0 => ct = Closed
    BY CtFacts
  <2>2. CASE ct' = ct
    BY <2>1, <2>2
  <2>3. CASE ct' = [ct EXCEPT !.leaked = TRUE] /\ ct.ref > 0
    <3>1. /\ ct' \in [ref : Nat, objs : [Objs -> Nat], leaked : BOOLEAN]
          /\ ct'.ref = ct.ref /\ ct'.objs = ct.objs
      BY <2>1, <2>3
    <3>2. ct'.ref # 0
      BY <2>1, <2>3, <3>1
    <3>. QED BY <3>1, <3>2
  <2>. QED BY <2>2, <2>3
<1>4. ct'.ref = kept'.ct + Bit(l = "print_sb")
  BY <1>2, <1>3 DEF Bit
<1>5. KeptInv' /\ \A p \in Objs : ct'.objs[p] = kept'.objs[p]
  BY <1>2, <1>3 DEF KeptInv
<1>6. CmdInv'
  BY <1>1, <1>2 DEF CmdInv
<1>7. l \in UILabels /\ l \notin PerfLabels
  BY DEF UILabels, PerfLabels, ObjectLabels
<1>8. cmd' \in [op : Ops, obj : Objs \cup {NoObj}] /\ known' \subseteq Objs
      /\ kept' \in [ct : Nat, objs : [Objs -> Nat]]
  BY <1>2
<1>. QED BY <1>1, <1>3, <1>4, <1>5, <1>6, <1>7, <1>8, CommandInv

\* create and open with -o.
LEMMA ObjCmdInv == ASSUME NEW o \in Objs, IInv, CmdObj(o) PROVE IInv'
<1>1. PICK op \in {"create", "open"} : Issue(op, o)
  BY DEF CmdObj
<1>2. op \in Ops /\ ct.ref > 0
  BY DEF Ops, CmdObj, IsOpen
<1>. QED BY <1>1, <1>2, QuietInv DEF CmdObj, Issue, Goto

\* close with -o.
LEMMA CloseObjCmdInv == ASSUME NEW o \in Objs, IInv, CmdCloseObj(o) PROVE IInv'
<1>1. PICK l \in {"close_obj", "idle"} : l = IF ct.objs[o] > 0 THEN "close_obj" ELSE "idle"
  OBVIOUS
<1>. QED BY <1>1, QuietInv DEF CmdCloseObj, Issue, Goto, GetObjectInfo, IsOpen, Ops

\* list with -o.
LEMMA ListObjInv == ASSUME NEW o \in Objs, IInv, CmdListObj(o) PROVE IInv'
BY QuietInv DEF CmdListObj, Issue, Goto, GetObjectInfo, IsOpen, Ops

\* insert, remove, dump.
LEMMA KeyInv == ASSUME NEW o \in Objs, IInv, CmdKey(o) PROVE IInv'
<1>1. /\ pc[UI] = "idle" /\ pc' = [pc EXCEPT ![UI] = "open_ct"]
      /\ cmd' = [op |-> "key", obj |-> o] /\ UNCHANGED <<ct, known, para, kept>>
  BY DEF CmdKey, Issue, Goto
<1>2. "key" \in Ops /\ "open_ct" \in {"idle", "leave_obj", "close_obj", "open_ct"}
  BY DEF Ops
<1>3. PICK l \in {"idle", "leave_obj", "close_obj", "open_ct"}, op \in Ops :
        l = "open_ct" /\ op = "key"
  BY <1>2
<1>4. /\ pc' = [pc EXCEPT ![UI] = l] /\ cmd' = [op |-> op, obj |-> o]
      /\ l # "leave_obj" /\ l # "close_obj" /\ ct' = ct
      /\ UNCHANGED <<para, kept, known>>
  BY <1>1, <1>3
<1>. QED BY <1>1, <1>3, <1>4, QuietInv

\* list with -sb opens the container for itself, and ends when it cannot.
LEMMA ListSbInv == ASSUME IInv, CmdListSb PROVE IInv'
<1>1. /\ pc[UI] = "idle" /\ UNCHANGED <<para, kept, known>>
      /\ cmd' = [op |-> "list", obj |-> NoObj]
  BY DEF CmdListSb, Issue
<1>2. /\ kept \in [ct : Nat, objs : [Objs -> Nat]] /\ KeptInv /\ known \subseteq Objs
      /\ cmd' \in [op : Ops, obj : Objs \cup {NoObj}]
  BY <1>1 DEF IInv, TypeInv, Ops
<1>3. CASE OpenContainer(TRUE) /\ Goto(UI, "print_sb")
  <2>1. pc' = [pc EXCEPT ![UI] = "print_sb"] /\ pc'[UI] = "print_sb"
    BY <1>3, UIFacts DEF Goto, IInv, TypeInv
  <2>2. /\ ct' \in [ref : Nat, objs : [Objs -> Nat], leaked : BOOLEAN]
        /\ ct'.ref = ct.ref + 1 /\ ct'.objs = ct.objs
    BY <1>3, OpenContainerIs
  <2>3. /\ ct'.ref = kept'.ct + Bit("print_sb" = "print_sb") /\ ct'.ref # 0
        /\ \A o \in Objs : ct'.objs[o] = kept'.objs[o]
    BY <1>1, <1>2, <2>2, BetweenCommands DEF Bit
  <2>4. KeptInv' /\ CmdInv'
    BY <1>1, <1>2, <2>1 DEF KeptInv, CmdInv
  <2>5. "print_sb" \in UILabels \ PerfLabels
    BY DEF UILabels, PerfLabels
  <2>. QED BY <1>1, <1>2, <2>1, <2>2, <2>3, <2>4, <2>5, CommandInv
<1>4. CASE OpenContainer(FALSE) /\ Goto(UI, "idle")
  <2>1. pc' = [pc EXCEPT ![UI] = "idle"] /\ pc'[UI] = "idle"
    BY <1>4, UIFacts DEF Goto, IInv, TypeInv
  <2>2. /\ ct' = ct /\ ct \in [ref : Nat, objs : [Objs -> Nat], leaked : BOOLEAN]
        /\ ct.ref = 0 => ct = Closed
    BY <1>4, CtFacts DEF OpenContainer
  <2>3. /\ ct'.ref = kept'.ct + Bit("idle" = "print_sb")
        /\ \A o \in Objs : ct'.objs[o] = kept'.objs[o]
    BY <1>1, <1>2, <2>2, BetweenCommands DEF Bit
  <2>4. KeptInv' /\ CmdInv'
    BY <1>1, <1>2, <2>1 DEF KeptInv, CmdInv
  <2>5. "idle" \in UILabels \ PerfLabels
    BY DEF UILabels, PerfLabels
  <2>. QED BY <1>1, <1>2, <2>1, <2>2, <2>3, <2>4, <2>5, CommandInv
<1>. QED BY <1>3, <1>4 DEF CmdListSb

\* quit closes whatever was left open.
LEMMA QuitInv == ASSUME IInv, CmdQuit PROVE IInv'
<1>1. /\ pc[UI] = "idle" /\ pc' = [pc EXCEPT ![UI] = "over"] /\ pc'[UI] = "over"
      /\ cmd' = [op |-> "quit", obj |-> NoObj] /\ UNCHANGED <<para, known>>
      /\ ct' = Closed /\ kept' = NothingKept
  BY UIFacts DEF CmdQuit, Issue, Goto, IInv, TypeInv
<1>2. /\ ct' \in [ref : Nat, objs : [Objs -> Nat], leaked : BOOLEAN]
      /\ kept' \in [ct : Nat, objs : [Objs -> Nat]]
      /\ ct'.ref = kept'.ct + Bit("over" = "print_sb")
      /\ \A o \in Objs : ct'.objs[o] = kept'.objs[o]
      /\ KeptInv'
  BY <1>1 DEF Closed, NothingKept, KeptInv, Bit
<1>3. CmdInv' /\ known' \subseteq Objs
  BY <1>1 DEF CmdInv, IInv, TypeInv
<1>4. cmd' \in [op : Ops, obj : Objs \cup {NoObj}] /\ "over" \in UILabels \ PerfLabels
  BY <1>1 DEF Ops, UILabels, PerfLabels
<1>. QED BY <1>1, <1>2, <1>3, <1>4, CommandInv

\* create and open with -o leave the object open.
LEMMA LeaveObjInv == ASSUME IInv, LeaveObj PROVE IInv'
<1>1. PICK ok \in BOOLEAN :
        /\ IF cmd.op = "create" THEN CreateObject(cmd.obj, ok)
           ELSE OpenObject(cmd.obj, ok) /\ UNCHANGED known
        /\ kept' = IF ok THEN [kept EXCEPT !.objs[cmd.obj] = @ + 1] ELSE kept
  BY DEF LeaveObj
<1>2. /\ pc[UI] = "leave_obj" /\ pc' = [pc EXCEPT ![UI] = "idle"] /\ pc'[UI] = "idle"
      /\ UNCHANGED <<cmd, para>> /\ cmd.obj \in Objs /\ kept.ct > 0
  BY UIFacts DEF LeaveObj, Goto, IInv, TypeInv, CmdInv
<1>3. /\ ct' \in [ref : Nat, objs : [Objs -> Nat], leaked : BOOLEAN]
      /\ known' \subseteq Objs /\ ct'.ref = ct.ref
      /\ \A p \in Objs : ct'.objs[p] = ct.objs[p] + Bit(ok /\ p = cmd.obj)
  BY <1>1, <1>2, OpenObjectIs
<1>4. kept \in [ct : Nat, objs : [Objs -> Nat]] /\ KeptInv
  BY DEF IInv, TypeInv
<1>5. /\ kept' \in [ct : Nat, objs : [Objs -> Nat]] /\ kept'.ct = kept.ct
      /\ \A p \in Objs : kept'.objs[p] = kept.objs[p] + Bit(ok /\ p = cmd.obj)
  BY <1>1, <1>2, <1>4 DEF Bit
<1>6. KeptInv' /\ CmdInv'
  BY <1>2, <1>5 DEF KeptInv, CmdInv
<1>7. RefsExact'
  <2>1. ~HoldsCt(UI) /\ ~HoldsCt(UI)' /\ ~HoldsObj(UI) /\ ~HoldsObj(UI)'
    BY <1>2 DEF HoldsCt, HoldsObj
  <2>2. ct'.ref + kept.ct = ct.ref + kept'.ct - Bit(HoldsCt(UI)) + Bit(HoldsCt(UI)')
    BY <1>3, <1>4, <1>5, <2>1, CtFacts DEF Bit
  <2>3. ASSUME NEW o \in Objs
        PROVE  ct'.objs[o] + kept.objs[o] = ct.objs[o] + kept'.objs[o]
           - Bit(HoldsObj(UI) /\ cmd.obj = o) + Bit(HoldsObj(UI)' /\ cmd.obj = o)
    BY <1>3, <1>4, <1>5, <2>1, CtFacts DEF Bit
  <2>4. ct'.ref # 0
    <3>1. ct.ref = kept.ct + Cardinality(Holders) /\ Cardinality(Holders) \in Nat
      BY RefsAre, SomeActors DEF IInv, Holders
    <3>. QED BY <1>2, <1>3, <1>4, <3>1
  <2>. QED BY <1>2, <1>3, <1>5, <2>2, <2>3, <2>4, UIFacts, RefsStep
<1>8. cmd' \in [op : Ops, obj : Objs \cup {NoObj}] /\ "idle" \in UILabels \ PerfLabels
      /\ pc[UI] \notin PerfLabels
  BY <1>2 DEF IInv, TypeInv, UILabels, PerfLabels
<1>. QED BY <1>2, <1>3, <1>5, <1>6, <1>7, <1>8, CallInv

\* The super block is printed under ct_lock.
LEMMA PrintSbInv == ASSUME IInv, PrintSb PROVE IInv'
<1>1. /\ pc[UI] = "print_sb" /\ pc' = [pc EXCEPT ![UI] = "close_ct"]
      /\ pc'[UI] = "close_ct" /\ UNCHANGED <<ct, known, cmd, para, kept>>
      /\ cmd.op \in {"key", "list"}
  BY UIFacts DEF PrintSb, Goto, IInv, TypeInv, CmdInv
<1>2. HoldsCt(UI) /\ ~HoldsObj(UI) /\ HoldsCt(UI)' /\ ~HoldsObj(UI)'
  BY <1>1 DEF HoldsCt, HoldsObj
<1>3. RefsExact'
  <2>1. /\ ct'.ref = ct.ref - Bit(TRUE) + Bit(TRUE)
        /\ \A o \in Objs : ct'.objs[o] = ct.objs[o] - Bit(FALSE) + Bit(FALSE)
        /\ \A o \in Objs : ct'.objs[o] = ct.objs[o]
    BY <1>1, CtFacts DEF Bit
  <2>. QED BY <1>1, <1>2, <2>1, CtFacts, UIFacts, RefsChange
<1>4. KeptInv' /\ CmdInv' /\ "close_ct" \in UILabels \ PerfLabels
      /\ pc[UI] \notin PerfLabels
  BY <1>1 DEF KeptInv, CmdInv, IInv, UILabels, PerfLabels, ObjectLabels
<1>. QED BY <1>1, <1>3, <1>4, CallInv DEF IInv, TypeInv
-----------------------------------------------------------------------------
(***************************************************************************)
(* The threads of the perf command.                                        *)
(***************************************************************************)

\* threads_cnt is counted up and down modulo CntMod.
LEMMA CntArithmetic ==
  /\ (CntMod - 1 + 1) % CntMod = 0 /\ (0 - 1) % CntMod = CntMod - 1
  /\ \A n \in 0 .. CntMod - 1 : n % CntMod = n
<1>1. CntMod \in Nat /\ CntMod > 0
  BY ToolsAssumption
<1>2. \A n \in 0 .. CntMod - 1 : n % CntMod = n
  BY <1>1
<1>3. (CntMod - 1 + 1) % CntMod = 0
  BY <1>1
<1>4. (0 - 1) % CntMod = CntMod - 1
  BY <1>1
<1>. QED BY <1>2, <1>3, <1>4

\* No more threads are active than there are.
LEMMA ActiveBound ==
  /\ Active \in SUBSET Actors
  /\ Cardinality(Active) \in 0 .. MaxThreads
<1>1. Active \in SUBSET Threads /\ Threads \in SUBSET Actors
  BY DEF Active, Actors
<1>2. IsFiniteSet(Threads) /\ Cardinality(Threads) = MaxThreads
  BY FS_Interval, ToolsAssumption DEF Threads
<1>3. IsFiniteSet(Active) /\ Cardinality(Active) <= MaxThreads
  BY <1>1, <1>2, FS_Subset
<1>. QED BY <1>1, <1>3, FS_CardinalityType, ToolsAssumption

\* A step of the perf command moves nobody who holds anything.
LEMMA NobodyHolds ==
  ASSUME IInv, UNCHANGED <<ct, kept, cmd>>,
         \A a \in Actors : HoldsCt(a)' = HoldsCt(a) /\ HoldsObj(a)' = HoldsObj(a)
  PROVE  RefsExact'
<1>1. Holders' = Holders /\ \A o \in Objs : Users(o)' = Users(o)
  BY DEF Holders, Users
<1>2. RefsAre!:'
  BY RefsAre, PTL
<1>3. /\ ct.ref = kept.ct + Cardinality(Holders)
      /\ \A o \in Objs : ct.objs[o] = kept.objs[o] + Cardinality(Users(o))
      /\ ~IsOpen => ct = Closed
  BY RefsAre DEF IInv
<1>4. IsOpen' = IsOpen
  BY DEF IsOpen
<1>5. ct'.ref = kept'.ct + Cardinality(Holders')
  BY <1>1, <1>3
<1>6. \A o \in Objs : ct'.objs[o] = kept'.objs[o] + Cardinality(Users(o)')
  BY <1>1, <1>3
<1>. QED BY <1>2, <1>3, <1>4, <1>5, <1>6

\* perf begins with no thread.
LEMMA PerfCmdInv == ASSUME NEW o \in Objs, IInv, CmdPerf(o) PROVE IInv'
<1>1. /\ pc[UI] = "idle" /\ pc' = [pc EXCEPT ![UI] = "spawn"] /\ pc'[UI] = "spawn"
      /\ cmd' = [op |-> "perf", obj |-> o] /\ UNCHANGED <<ct, known, kept>>
  BY UIFacts DEF CmdPerf, Issue, Goto, IInv, TypeInv
<1>2. PICK n \in 1 .. MaxThreads :
        para' = [NoPara EXCEPT !.alive = TRUE, !.insert = TRUE, !.num = n]
  BY DEF CmdPerf
<1>3. \A t \in Threads : pc[t] = "none" /\ pc'[t] = "none"
  BY <1>1, BetweenCommands, UIFacts DEF IInv, TypeInv
<1>4. TypeInv'
  <2>1. para' \in [alive : BOOLEAN, insert : BOOLEAN, num : 0 .. MaxThreads,
                    cnt : 0 .. CntMod - 1, made : 0 .. MaxThreads]
    <3>1. para' = [alive |-> TRUE, insert |-> TRUE, num |-> n, cnt |-> 0, made |-> 0]
      BY <1>2 DEF NoPara
    <3>2. 0 \in 0 .. MaxThreads /\ 0 \in 0 .. CntMod - 1 /\ n \in 0 .. MaxThreads
      BY ToolsAssumption
    <3>. QED BY <3>1, <3>2
  <2>2. cmd' \in [op : Ops, obj : Objs \cup {NoObj}]
    BY <1>1 DEF Ops
  <2>3. /\ pc' \in [Actors -> UILabels \cup ThreadLabels]
        /\ pc'[UI] \in UILabels /\ \A t \in Threads : pc'[t] \in ThreadLabels
    BY <1>1, <1>3 DEF IInv, TypeInv, UILabels, PerfLabels, ThreadLabels, OverLabels
  <2>. QED BY <1>1, <2>1, <2>2, <2>3 DEF IInv, TypeInv
<1>5. CmdInv' /\ KeptInv'
  BY <1>1 DEF IInv, CmdInv, KeptInv
<1>6. PerfInv'
  BY <1>1, <1>2, <1>3 DEF PerfInv, NoPara, PerfLabels, Threads
<1>7. CountInv'
  <2>1. Active' = {}
    BY <1>3 DEF Active, OverLabels
  <2>2. Counted' = 0
    BY <1>1, <2>1, FS_EmptySet DEF Counted
  <2>. QED BY <1>2, <2>2 DEF CountInv, NoPara
<1>8. RefsExact'
  <2>1. \A a \in Actors : /\ ~HoldsCt(a) /\ ~HoldsObj(a)
                          /\ ~HoldsCt(a)' /\ ~HoldsObj(a)'
    BY <1>1, <1>3 DEF HoldsCt, HoldsObj, Actors
  <2>2. Holders' = {} /\ (\A p \in Objs : Users(p)' = {}) /\ Cardinality({}) = 0
    BY <2>1, FS_EmptySet DEF Holders, Users
  <2>3. RefsAre!:'
    BY RefsAre, PTL
  <2>4. /\ ct.ref = kept.ct /\ \A p \in Objs : ct.objs[p] = kept.objs[p]
        /\ kept.ct \in Nat /\ \A p \in Objs : kept.objs[p] \in Nat
    BY <1>1, BetweenCommands DEF IInv, TypeInv
  <2>5. ct'.ref = kept'.ct + Cardinality(Holders')
    <3>1. Cardinality(Holders') = 0
      BY <2>2
    <3>. QED BY <1>1, <2>4, <3>1
  <2>6. ASSUME NEW p \in Objs
        PROVE  ct'.objs[p] = kept'.objs[p] + Cardinality(Users(p)')
    <3>1. Cardinality(Users(p)') = 0
      BY <2>2
    <3>. QED BY <1>1, <2>4, <3>1
  <2>7. ~IsOpen' => ct' = Closed
    BY <1>1 DEF IInv, RefsExact, IsOpen
  <2>. QED BY <2>3, <2>5, <2>6, <2>7
<1>. QED BY <1>4, <1>5, <1>6, <1>7, <1>8 DEF IInv

\* A thread is made, and not counted yet; or it could not be made.
LEMMA SpawnInv == ASSUME IInv, Spawn PROVE IInv'
<1>1. /\ pc[UI] = "spawn" /\ UNCHANGED <<ct, file, known, cmd, kept>> /\ TypeInv /\ PerfInv
  BY DEF Spawn, IInv
<1>2. CmdInv' /\ KeptInv'
  <2>1. pc'[UI] \in {"count_up", "wait"}
    BY <1>1, UIFacts DEF Spawn, Goto, TypeInv, UI, Threads
  <2>. QED BY <1>1, <2>1 DEF IInv, CmdInv, KeptInv
<1>3. CASE /\ pc' = [pc EXCEPT ![UI] = "count_up", ![para.made + 1] = "open_ct"]
           /\ para' = [para EXCEPT !.made = @ + 1]
  <2>1. para.made + 1 \in Threads /\ pc[para.made + 1] = "none" /\ para.made \in Nat
    BY <1>1, ToolsAssumption DEF TypeInv, PerfInv, Threads
  <2>2. PICK n \in Threads : n = para.made + 1
    BY <2>1
  <2>3. /\ pc'[UI] = "count_up" /\ pc'[n] = "open_ct" /\ pc[n] = "none"
        /\ \A t \in Threads : t # n => pc'[t] = pc[t]
        /\ pc' = [[pc EXCEPT ![UI] = "count_up"] EXCEPT ![n] = "open_ct"]
    BY <1>1, <1>3, <2>1, <2>2, UIFacts DEF TypeInv
  <2>4. /\ para' \in [alive : BOOLEAN, insert : BOOLEAN, num : 0 .. MaxThreads,
                      cnt : 0 .. CntMod - 1, made : 0 .. MaxThreads]
        /\ para'.made = n /\ para'.num = para.num /\ para'.alive = para.alive
        /\ para'.cnt = para.cnt
    BY <1>1, <1>3, <2>1, <2>2 DEF TypeInv, Threads
  <2>5. TypeInv'
    <3>1. /\ pc' \in [Actors -> UILabels \cup ThreadLabels]
          /\ pc'[UI] \in UILabels /\ \A t \in Threads : pc'[t] \in ThreadLabels
      BY <1>1, <2>3, UIFacts
         DEF TypeInv, UILabels, PerfLabels, ThreadLabels, ObjectLabels
    <3>. QED BY <1>1, <2>4, <3>1 DEF TypeInv
  <2>6. PerfInv'
    <3>1. ASSUME NEW t \in Threads PROVE pc'[t] = "none" <=> t > n
      <4>1. pc[t] = "none" <=> t > para.made
        BY <1>1 DEF PerfInv
      <4>2. t \in Nat /\ n \in Nat
        BY DEF Threads
      <4>3. CASE t = n
        BY <2>3, <4>2, <4>3
      <4>4. CASE t # n
        <5>1. t > para.made <=> t > n
          BY <2>1, <2>2, <4>2, <4>4
        <5>2. pc'[t] = pc[t]
          BY <2>3, <4>4
        <5>. QED BY <4>1, <5>1, <5>2
      <4>. QED BY <4>3, <4>4
    <3>2. n <= para.num
      BY <1>1, <2>1, <2>2, <2>4 DEF PerfInv, TypeInv
    <3>. QED BY <1>1, <2>3, <2>4, <3>1, <3>2 DEF PerfInv, PerfLabels
  <2>7. CountInv'
    <3>1. Active' = Active \cup {n} /\ n \notin Active
      BY <2>3 DEF Active, OverLabels
    <3>2. IsFiniteSet(Active) /\ Cardinality(Active) \in Nat
      BY ActiveBound, SomeActors
    <3>3. Cardinality(Active') = Cardinality(Active) + 1
      BY <3>1, <3>2, FS_AddElement
    <3>4. Counted' = Counted
      BY <1>1, <2>3, <3>2, <3>3 DEF Counted
    <3>. QED BY <2>4, <3>4 DEF IInv, CountInv
  <2>8. RefsExact'
    <3>1. \A a \in Actors : HoldsCt(a)' = HoldsCt(a) /\ HoldsObj(a)' = HoldsObj(a)
      BY <1>1, <2>3 DEF HoldsCt, HoldsObj, Actors
    <3>. QED BY <1>1, <3>1, NobodyHolds
  <2>. QED BY <1>2, <2>5, <2>6, <2>7, <2>8 DEF IInv
<1>4. CASE Goto(UI, "wait") /\ UNCHANGED para
  <2>1. /\ pc'[UI] = "wait" /\ pc' = [pc EXCEPT ![UI] = "wait"]
        /\ \A t \in Threads : pc'[t] = pc[t]
    BY <1>1, <1>4, UIFacts DEF Goto, TypeInv
  <2>2. TypeInv'
    BY <1>1, <1>4, <2>1, UIFacts DEF TypeInv, UILabels, PerfLabels
  <2>3. PerfInv'
    BY <1>1, <1>4, <2>1 DEF PerfInv, PerfLabels
  <2>4. CountInv'
    <3>1. Active' = Active
      BY <2>1 DEF Active
    <3>. QED BY <1>1, <1>4, <2>1, <3>1 DEF IInv, CountInv, Counted
  <2>5. RefsExact'
    <3>1. \A a \in Actors : HoldsCt(a)' = HoldsCt(a) /\ HoldsObj(a)' = HoldsObj(a)
      BY <1>1, <2>1 DEF HoldsCt, HoldsObj, Actors
    <3>. QED BY <1>1, <3>1, NobodyHolds
  <2>. QED BY <1>2, <2>2, <2>3, <2>4, <2>5 DEF IInv
<1>. QED BY <1>3, <1>4 DEF Spawn

\* The thread that was made is counted; it may have counted down already.
LEMMA CountUpInv == ASSUME IInv, CountUp PROVE IInv'
<1>1. /\ pc[UI] = "count_up" /\ UNCHANGED <<ct, file, known, cmd, kept>> /\ TypeInv /\ PerfInv
      /\ para' = [para EXCEPT !.cnt = (@ + 1) % CntMod]
  BY DEF CountUp, IInv
<1>2. PICK l \in {"spawn", "wait"} : l = IF para.made < para.num THEN "spawn" ELSE "wait"
  OBVIOUS
<1>3. /\ pc' = [pc EXCEPT ![UI] = l] /\ pc'[UI] = l
      /\ \A t \in Threads : pc'[t] = pc[t]
  BY <1>1, <1>2, UIFacts DEF CountUp, Goto, TypeInv
<1>4. CmdInv' /\ KeptInv'
  BY <1>1, <1>2, <1>3 DEF IInv, CmdInv, KeptInv
<1>5. /\ Counted' = Counted + 1 /\ Counted \in -1 .. MaxThreads - 1
  <2>1. Active' = Active
    BY <1>3 DEF Active
  <2>. QED BY <1>1, <1>2, <1>3, <2>1, ActiveBound, ToolsAssumption DEF Counted
<1>6. para.cnt \in Nat /\ (para.cnt + 1) % CntMod = Counted + 1
      /\ Counted + 1 \in 0 .. CntMod - 1
  <2>1. CASE Counted = -1
    <3>1. para.cnt = CntMod - 1
      BY <2>1 DEF IInv, CountInv
    <3>. QED BY <2>1, <3>1, CntArithmetic, ToolsAssumption
  <2>2. CASE Counted # -1
    <3>1. para.cnt = Counted
      BY <2>2 DEF IInv, CountInv
    <3>2. Counted + 1 \in 0 .. CntMod - 1 /\ Counted \in Nat
      BY <1>5, <2>2, ToolsAssumption
    <3>. QED BY <3>1, <3>2, CntArithmetic
  <2>. QED BY <2>1, <2>2
<1>7. /\ para' \in [alive : BOOLEAN, insert : BOOLEAN, num : 0 .. MaxThreads,
                    cnt : 0 .. CntMod - 1, made : 0 .. MaxThreads]
      /\ para'.made = para.made /\ para'.num = para.num /\ para'.alive = para.alive
      /\ para'.cnt = Counted'
  BY <1>1, <1>5, <1>6 DEF TypeInv
<1>8. TypeInv'
  BY <1>1, <1>2, <1>3, <1>7, UIFacts DEF TypeInv, UILabels, PerfLabels
<1>9. PerfInv'
  BY <1>1, <1>2, <1>3, <1>7 DEF PerfInv, PerfLabels
<1>10. CountInv'
  BY <1>5, <1>6, <1>7 DEF CountInv
<1>11. RefsExact'
  <2>1. \A a \in Actors : HoldsCt(a)' = HoldsCt(a) /\ HoldsObj(a)' = HoldsObj(a)
    BY <1>1, <1>2, <1>3 DEF HoldsCt, HoldsObj, Actors
  <2>. QED BY <1>1, <2>1, NobodyHolds
<1>. QED BY <1>4, <1>8, <1>9, <1>10, <1>11 DEF IInv

\* threads_cnt is 0: every thread has counted down.
LEMMA WaitInv == ASSUME IInv, Wait PROVE IInv'
<1>1. /\ pc[UI] = "wait" /\ UNCHANGED <<ct, file, known, cmd, para, kept>>
      /\ TypeInv /\ PerfInv /\ CountInv
      /\ pc' = [pc EXCEPT ![UI] = "join"] /\ pc'[UI] = "join" /\ para.cnt = 0
      /\ \A t \in Threads : pc'[t] = pc[t]
  BY UIFacts DEF Wait, Goto, IInv, TypeInv
<1>2. Active = {} /\ Active' = Active
  <2>1. Cardinality(Active) \in Nat /\ IsFiniteSet(Active)
    BY ActiveBound, SomeActors
  <2>2. Counted = Cardinality(Active)
    BY <1>1 DEF Counted
  <2>3. Cardinality(Active) = 0
    BY <1>1, <2>1, <2>2 DEF CountInv
  <2>4. Active' = Active
    BY <1>1 DEF Active
  <2>. QED BY <2>1, <2>3, <2>4, FS_EmptySet
<1>3. CmdInv' /\ KeptInv'
  BY <1>1 DEF IInv, CmdInv, KeptInv
<1>4. TypeInv'
  BY <1>1, UIFacts DEF TypeInv, UILabels, PerfLabels
<1>5. PerfInv'
  <2>1. \A t \in Threads : pc'[t] \in OverLabels
    BY <1>1, <1>2 DEF Active
  <2>. QED BY <1>1, <2>1 DEF PerfInv, PerfLabels
<1>6. CountInv'
  BY <1>1, <1>2 DEF CountInv, Counted
<1>7. RefsExact'
  <2>1. \A a \in Actors : HoldsCt(a)' = HoldsCt(a) /\ HoldsObj(a)' = HoldsObj(a)
    BY <1>1 DEF HoldsCt, HoldsObj, Actors
  <2>. QED BY <1>1, <2>1, NobodyHolds
<1>. QED BY <1>3, <1>4, <1>5, <1>6, <1>7 DEF IInv

\* All threads are joined, and the next phase or the next command begins.
LEMMA JoinInv == ASSUME IInv, Join PROVE IInv'
<1>1. /\ pc[UI] = "join" /\ UNCHANGED <<ct, file, known, cmd, kept>>
      /\ TypeInv /\ PerfInv
  BY DEF Join, IInv
<1>2. PICK l \in {"spawn", "idle"} : l = IF para.insert THEN "spawn" ELSE "idle"
  OBVIOUS
<1>3. /\ pc' = [a \in Actors |-> IF a \in Threads THEN "none" ELSE l]
      /\ pc'[UI] = l /\ \A t \in Threads : pc'[t] = "none"
  BY <1>2, UIFacts DEF Join
<1>4. /\ para' \in [alive : BOOLEAN, insert : BOOLEAN, num : 0 .. MaxThreads,
                    cnt : 0 .. CntMod - 1, made : 0 .. MaxThreads]
      /\ para'.made = 0 /\ para'.cnt = 0 /\ para'.made <= para'.num
      /\ l = "idle" => para' = NoPara
      /\ l = "spawn" => para'.num = para.num /\ para'.alive = para.alive
  <2>1. 0 \in 0 .. MaxThreads /\ 0 \in 0 .. CntMod - 1
    BY ToolsAssumption
  <2>2. CASE para.insert
    <3>1. para' = [para EXCEPT !.insert = FALSE, !.cnt = 0, !.made = 0] /\ l = "spawn"
      BY <1>2, <2>2 DEF Join
    <3>2. para \in [alive : BOOLEAN, insert : BOOLEAN, num : 0 .. MaxThreads,
                   cnt : 0 .. CntMod - 1, made : 0 .. MaxThreads]
      BY <1>1 DEF TypeInv
    <3>3. /\ para'.made = 0 /\ para'.cnt = 0 /\ para'.num = para.num
          /\ para'.alive = para.alive
      BY <3>1, <3>2
    <3>4. para' \in [alive : BOOLEAN, insert : BOOLEAN, num : 0 .. MaxThreads,
                    cnt : 0 .. CntMod - 1, made : 0 .. MaxThreads]
      BY <2>1, <3>1, <3>2
    <3>. QED BY <3>1, <3>2, <3>3, <3>4
  <2>3. CASE ~para.insert
    <3>1. para' = NoPara /\ l = "idle"
      BY <1>2, <2>3 DEF Join
    <3>. QED BY <2>1, <3>1 DEF NoPara
  <2>. QED BY <2>2, <2>3
<1>5. CmdInv' /\ KeptInv'
  BY <1>1, <1>2, <1>3 DEF IInv, CmdInv, KeptInv
<1>6. TypeInv'
  <2>1. /\ pc' \in [Actors -> UILabels \cup ThreadLabels]
        /\ pc'[UI] \in UILabels /\ \A t \in Threads : pc'[t] \in ThreadLabels
    BY <1>2, <1>3 DEF UILabels, PerfLabels, ThreadLabels, OverLabels
  <2>. QED BY <1>1, <1>4, <2>1 DEF TypeInv
<1>7. PerfInv'
  <2>1. \A t \in Threads : t > 0
    BY DEF Threads
  <2>2. /\ cmd'.op = "perf" /\ cmd'.obj \in Objs /\ para.alive /\ para.num > 0
    BY <1>1 DEF PerfInv, PerfLabels
  <2>3. CASE l = "idle"
    <3>1. para' = NoPara /\ pc'[UI] = "idle"
      BY <1>3, <1>4, <2>3
    <3>. QED BY <1>3, <1>4, <2>1, <3>1 DEF PerfInv, PerfLabels
  <2>4. CASE l = "spawn"
    <3>1. pc'[UI] = "spawn" /\ para'.num = para.num /\ para'.alive = para.alive
      BY <1>3, <1>4, <2>4
    <3>. QED BY <1>3, <1>4, <2>1, <2>2, <3>1 DEF PerfInv, PerfLabels
  <2>. QED BY <1>2, <2>3, <2>4
<1>8. CountInv'
  <2>1. Active' = {}
    BY <1>3 DEF Active, OverLabels
  <2>2. Counted' = 0
    BY <1>2, <1>3, <2>1, FS_EmptySet DEF Counted
  <2>. QED BY <1>4, <2>2 DEF CountInv
<1>9. RefsExact'
  <2>1. \A t \in Threads : pc[t] \in OverLabels
    BY <1>1 DEF PerfInv
  <2>2. \A a \in Actors : HoldsCt(a)' = HoldsCt(a) /\ HoldsObj(a)' = HoldsObj(a)
    BY <1>1, <1>2, <1>3, <2>1 DEF HoldsCt, HoldsObj, Actors, OverLabels
  <2>. QED BY <1>1, <2>2, NobodyHolds
<1>. QED BY <1>5, <1>6, <1>7, <1>8, <1>9 DEF IInv

\* A thread counts down after its last call, maybe before it was counted.
LEMMA CountDownInv == ASSUME NEW t \in Threads, IInv, CountDown(t) PROVE IInv'
<1>1. /\ pc[t] = "count_down" /\ UNCHANGED <<ct, file, known, cmd, kept>>
      /\ TypeInv /\ PerfInv
      /\ para' = [para EXCEPT !.cnt = (@ - 1) % CntMod]
      /\ pc' = [pc EXCEPT ![t] = "exit"] /\ pc'[t] = "exit" /\ pc'[UI] = pc[UI]
      /\ \A u \in Threads : u # t => pc'[u] = pc[u]
  BY UIFacts DEF CountDown, Goto, IInv, TypeInv
<1>2. CmdInv' /\ KeptInv'
  BY <1>1 DEF IInv, CmdInv, KeptInv
<1>3. Counted' = Counted - 1 /\ Counted \in 0 .. MaxThreads
  <2>1. Active' = Active \ {t} /\ t \in Active
    BY <1>1 DEF Active, OverLabels
  <2>2. IsFiniteSet(Active) /\ Cardinality(Active) \in 0 .. MaxThreads
    BY ActiveBound, SomeActors
  <2>3. Cardinality(Active') = Cardinality(Active) - 1 /\ Cardinality(Active) # 0
    BY <2>1, <2>2, FS_RemoveElement, FS_EmptySet
  <2>. QED BY <1>1, <2>2, <2>3, ToolsAssumption DEF Counted
<1>4. /\ para.cnt = Counted
      /\ (para.cnt - 1) % CntMod = IF Counted = 0 THEN CntMod - 1 ELSE Counted - 1
      /\ (para.cnt - 1) % CntMod \in 0 .. CntMod - 1
  <2>1. para.cnt = Counted
    BY <1>3 DEF IInv, CountInv
  <2>2. CASE Counted = 0
    BY <2>1, <2>2, CntArithmetic, ToolsAssumption
  <2>3. CASE Counted # 0
    <3>1. Counted - 1 \in 0 .. CntMod - 1
      BY <1>3, <2>3, ToolsAssumption
    <3>. QED BY <2>1, <2>3, <3>1, CntArithmetic
  <2>. QED BY <2>1, <2>2, <2>3
<1>5. /\ para' \in [alive : BOOLEAN, insert : BOOLEAN, num : 0 .. MaxThreads,
                    cnt : 0 .. CntMod - 1, made : 0 .. MaxThreads]
      /\ para'.made = para.made /\ para'.num = para.num /\ para'.alive = para.alive
      /\ para'.cnt = IF Counted' = -1 THEN CntMod - 1 ELSE Counted'
  BY <1>1, <1>3, <1>4 DEF TypeInv
<1>6. TypeInv'
  BY <1>1, <1>5, UIFacts DEF TypeInv, ThreadLabels, OverLabels
<1>7. PerfInv'
  <2>1. pc[t] # "none" /\ para # NoPara
    BY <1>1 DEF PerfInv, NoPara, Threads
  <2>. QED BY <1>1, <1>5, <2>1 DEF PerfInv, OverLabels
<1>8. CountInv'
  BY <1>5 DEF CountInv
<1>9. RefsExact'
  <2>1. \A a \in Actors : HoldsCt(a)' = HoldsCt(a) /\ HoldsObj(a)' = HoldsObj(a)
    BY <1>1 DEF HoldsCt, HoldsObj, Actors
  <2>. QED BY <1>1, <2>1, NobodyHolds
<1>. QED BY <1>2, <1>6, <1>7, <1>8, <1>9 DEF IInv

\* A thread ends.
LEMMA ExitInv == ASSUME NEW t \in Threads, IInv, Exit(t) PROVE IInv'
<1>1. /\ pc[t] = "exit" /\ UNCHANGED <<ct, file, known, cmd, para, kept>>
      /\ TypeInv /\ PerfInv
      /\ pc' = [pc EXCEPT ![t] = "gone"] /\ pc'[t] = "gone" /\ pc'[UI] = pc[UI]
      /\ \A u \in Threads : u # t => pc'[u] = pc[u]
  BY UIFacts DEF Exit, Goto, IInv, TypeInv
<1>2. CmdInv' /\ KeptInv'
  BY <1>1 DEF IInv, CmdInv, KeptInv
<1>3. TypeInv'
  BY <1>1, UIFacts DEF TypeInv, ThreadLabels, OverLabels
<1>4. PerfInv'
  BY <1>1 DEF PerfInv, OverLabels
<1>5. CountInv'
  <2>1. Active' = Active
    BY <1>1 DEF Active, OverLabels
  <2>. QED BY <1>1, <2>1 DEF IInv, CountInv, Counted
<1>6. RefsExact'
  <2>1. \A a \in Actors : HoldsCt(a)' = HoldsCt(a) /\ HoldsObj(a)' = HoldsObj(a)
    BY <1>1 DEF HoldsCt, HoldsObj, Actors
  <2>. QED BY <1>1, <2>1, NobodyHolds
<1>. QED BY <1>2, <1>3, <1>4, <1>5, <1>6 DEF IInv
-----------------------------------------------------------------------------
(***************************************************************************)
(* The theorems.                                                           *)
(***************************************************************************)

\* At first nothing is open and no thread was made.
LEMMA InitIInv == Init => IInv
<1>. SUFFICES ASSUME Init PROVE IInv
  OBVIOUS
<1>1. pc[UI] = "idle" /\ \A t \in Threads : pc[t] = "none"
  BY UIFacts DEF Init
<1>2. TypeInv
  <2>1. /\ pc \in [Actors -> UILabels \cup ThreadLabels]
        /\ pc[UI] \in UILabels /\ \A t \in Threads : pc[t] \in ThreadLabels
    BY <1>1 DEF Init, UILabels, ThreadLabels, OverLabels
  <2>2. /\ ct \in [ref : Nat, objs : [Objs -> Nat], leaked : BOOLEAN]
        /\ kept \in [ct : Nat, objs : [Objs -> Nat]]
    BY DEF Init, Closed, NothingKept
  <2>3. para \in [alive : BOOLEAN, insert : BOOLEAN, num : 0 .. MaxThreads,
                 cnt : 0 .. CntMod - 1, made : 0 .. MaxThreads]
    <3>1. 0 \in 0 .. MaxThreads /\ 0 \in 0 .. CntMod - 1
      BY ToolsAssumption
    <3>. QED BY <3>1 DEF Init, NoPara
  <2>4. known \subseteq Objs /\ cmd \in [op : Ops, obj : Objs \cup {NoObj}]
    BY DEF Init, Ops
  <2>. QED BY <2>1, <2>2, <2>3, <2>4 DEF TypeInv
<1>3. CmdInv /\ KeptInv
  BY <1>1 DEF CmdInv, KeptInv, Init, NothingKept
<1>4. PerfInv
  BY <1>1 DEF PerfInv, PerfLabels, Init, NoPara, Threads
<1>5. CountInv
  <2>1. Active = {}
    BY <1>1 DEF Active, OverLabels
  <2>2. Counted = 0
    BY <1>1, <2>1, FS_EmptySet DEF Counted
  <2>. QED BY <2>2 DEF CountInv, Init, NoPara
<1>6. RefsExact
  <2>1. \A a \in Actors : ~HoldsCt(a) /\ ~HoldsObj(a)
    BY <1>1 DEF HoldsCt, HoldsObj, Actors
  <2>2. Holders = {} /\ (\A o \in Objs : Users(o) = {}) /\ Cardinality({}) = 0
    BY <2>1, FS_EmptySet DEF Holders, Users
  <2>3. /\ ct = Closed /\ ct.ref = 0 /\ kept.ct = 0
        /\ \A o \in Objs : ct.objs[o] = 0 /\ kept.objs[o] = 0
    BY DEF Init, Closed, NothingKept
  <2>4. Cardinality(Holders) = 0 /\ \A o \in Objs : Cardinality(Users(o)) = 0
    BY <2>2
  <2>. QED BY <2>3, <2>4, RefsAre
<1>. QED BY <1>2, <1>3, <1>4, <1>5, <1>6 DEF IInv

\* A step that changes nothing.
LEMMA StutterInv == IInv /\ UNCHANGED vars => IInv'
<1>. SUFFICES ASSUME IInv, UNCHANGED vars PROVE IInv'
  OBVIOUS
<1>1. TypeInv' /\ CmdInv' /\ KeptInv' /\ PerfInv'
  BY DEF vars, IInv, TypeInv, CmdInv, KeptInv, PerfInv
<1>2. CountInv'
  BY DEF vars, IInv, CountInv, Counted, Active
<1>3. RefsExact'
  BY NobodyHolds DEF vars, HoldsCt, HoldsObj
<1>. QED BY <1>1, <1>2, <1>3 DEF IInv

\* Every step keeps the inductive invariant.
LEMMA NextIInv == IInv /\ [Next]_vars => IInv'
<1>. SUFFICES ASSUME IInv, Next PROVE IInv'
  BY StutterInv
<1>1. CASE Command
  <2>1. CASE CmdCreateCt \/ CmdOpenCt \/ CmdCloseCt \/ CmdListSb \/ CmdQuit
    BY <2>1, CreateCtInv, OpenCmdInv, CloseCmdInv, ListSbInv, QuitInv
  <2>2. ASSUME NEW o \in Objs,
               CmdObj(o) \/ CmdCloseObj(o) \/ CmdListObj(o) \/ CmdKey(o) \/ CmdPerf(o)
        PROVE  IInv'
    BY <2>2, ObjCmdInv, CloseObjCmdInv, ListObjInv, KeyInv, PerfCmdInv
  <2>. QED BY <1>1, <2>1, <2>2 DEF Command
<1>2. CASE UIStep
  BY <1>2, UIFacts, CallsInv, LeaveObjInv, PrintSbInv, SpawnInv, CountUpInv, WaitInv, JoinInv
     DEF UIStep
<1>3. ASSUME NEW t \in Threads, ThreadStep(t) PROVE IInv'
  BY <1>3, UIFacts, CallsInv, CountDownInv, ExitInv DEF ThreadStep
<1>. QED BY <1>1, <1>2, <1>3 DEF Next

\* The inductive invariant: beside the references, what command runs while
\* somebody is at a call, and how threads_cnt follows the threads.
THEOREM SpecIInv == Spec => []IInv
BY InitIInv, NextIInv, PTL DEF Spec

\* However the threads of the perf command interleave and fail, the references
\* of the container and of each object are the handles that are out, and a
\* container without references has no open object.
THEOREM SpecRefsExact == Spec => []RefsExact
<1>1. IInv => RefsExact
  BY DEF IInv
<1>. QED BY <1>1, SpecIInv, PTL

\* threads_cnt wraps when a thread counts down before it was counted, and yet
\* is 0 for the waiting perf command only when all threads have counted down.
THEOREM SpecThreadsOver == Spec => []ThreadsOver
<1>1. IInv => ThreadsOver
  <2>. SUFFICES ASSUME IInv PROVE ThreadsOver
    OBVIOUS
  <2>1. pc[UI] = "join" => \A t \in Threads : pc[t] \in {"none", "exit", "gone"}
    BY DEF IInv, PerfInv, OverLabels
  <2>2. ASSUME NEW t \in Threads, pc[t] # "none" PROVE para.alive
    <3>1. para # NoPara
      BY <2>2 DEF IInv, PerfInv, NoPara, Threads
    <3>. QED BY <3>1 DEF IInv, PerfInv
  <2>. QED BY <2>1, <2>2 DEF ThreadsOver
<1>. QED BY <1>1, SpecIInv, PTL
=============================================================================
