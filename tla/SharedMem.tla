----------------------------- MODULE SharedMem ------------------------------
(***************************************************************************)
(* src/kt_memory.c and its two users: the start-up and the exit of ktsnd,  *)
(* which creates the data and the control memory and writes the layout,    *)
(* and the start-up of an application under libktsn, which attaches to     *)
(* both and reads the layout once.                                         *)
(*                                                                         *)
(* Every start of ktsnd is a process of its own.  A shared memory object   *)
(* is named here by the daemon that created it; the name in /dev/shm is    *)
(* what "bound" says, and an object whose name is gone lives on for those  *)
(* who opened it.                                                          *)
(***************************************************************************)
EXTENDS Naturals

CONSTANTS Daemons,     \* starts of ktsnd
          Apps,        \* applications that preload libktsn
          None         \* no object

ASSUME ShmAssumption == None \notin Daemons /\ Daemons \cap Apps = {}

Procs == Daemons \cup Apps
Names == {"data", "ctrl"}

\* Sizes in pages; Full stands for KT_DEFAULT_MEMORY_SIZE.
Page == 1
Full == 2
NOffsets == 4            \* fields of struct kt_mem_layout

VARIABLES
    bound,     \* per name, the object it stands for
    size,      \* per name and object, its size
    fd,        \* per name, the object each application has opened
    pc,        \* where each process is in its start-up or exit
    run,       \* g_run of each daemon
    built,     \* whether allocator, rings and pools are in the data memory
    layout,    \* how many fields of its kt_mem_layout are written
    nread,     \* how many of them an application has read
    seen,      \* those it found written
    early,     \* history: those who opened the control memory before that
    mishap     \* history: a daemon was killed, or a call of it failed though
               \* the name was free

vars == <<bound, size, fd, pc, run, built, layout, nread, seen, early, mishap>>
appVars == <<fd, nread, seen, early>>

Init ==
    /\ bound = [n \in Names |-> None]
    /\ size = [n \in Names |-> [d \in Daemons |-> 0]]
    /\ fd = [n \in Names |-> [a \in Apps |-> None]]
    /\ pc = [p \in Procs |-> "off"]
    /\ run = [d \in Daemons |-> TRUE]
    /\ built = [d \in Daemons |-> FALSE]
    /\ layout = [d \in Daemons |-> 0]
    /\ nread = [a \in Apps |-> 0]
    /\ seen = [a \in Apps |-> {}]
    /\ early = {}
    /\ mishap = FALSE

Step(p, from, to) == pc[p] = from /\ pc' = [pc EXCEPT ![p] = to]

\* The places in _kt_memory_alloc, for each of the two memories.
OpenAt(n) == IF n = "data" THEN "dataOpen" ELSE "ctrlOpen"
TruncAt(n) == IF n = "data" THEN "dataTrunc" ELSE "ctrlTrunc"
MapAt(n) == IF n = "data" THEN "dataMap" ELSE "ctrlMap"

-----------------------------------------------------------------------------
(***************************************************************************)
(* The daemon                                                              *)
(***************************************************************************)
\* rte_eal_init, and the handler for SIGINT; or rte_exit.
EalInit(d) ==
    /\ Step(d, "off", "dataOpen") \/ Step(d, "off", "failed")
    /\ UNCHANGED <<bound, size, run, built, layout, appVars, mishap>>

\* kt_memory_create: shm_open with O_CREAT | O_EXCL.
Create(d, n) ==
    /\ bound[n] = None
    /\ Step(d, OpenAt(n), TruncAt(n))
    /\ bound' = [bound EXCEPT ![n] = d]
    /\ UNCHANGED <<size, run, built, layout, appVars, mishap>>

\* Mutant: a create that fails removes the name.
CreateExistsUnlinks(d, n) ==
    /\ bound[n] # None
    /\ Step(d, OpenAt(n), "failed")
    /\ bound' = [bound EXCEPT ![n] = None]
    /\ UNCHANGED <<size, run, built, layout, appVars, mishap>>

\* The name exists: main returns -1 and removes nothing.
CreateExists(d, n) ==
    /\ bound[n] # None
    /\ Step(d, OpenAt(n), "failed")
    /\ UNCHANGED <<bound, size, run, built, layout, appVars, mishap>>

\* ftruncate: the control memory of ktsnd is one page.
CreateTruncate(d, n) ==
    /\ Step(d, TruncAt(n), MapAt(n))
    /\ size' = [size EXCEPT ![n][d] = IF n = "data" THEN Full ELSE Page]
    /\ UNCHANGED <<bound, run, built, layout, appVars, mishap>>

CreateMap(d, n) ==
    /\ Step(d, MapAt(n), IF n = "data" THEN "ctrlOpen" ELSE "build")
    /\ UNCHANGED <<bound, size, run, built, layout, appVars, mishap>>

\* Mutant: the layout comes first.
BuildLate(d) ==
    /\ Step(d, "build", "write")
    /\ UNCHANGED <<bound, size, run, built, layout, appVars, mishap>>

\* The allocator, the rings with all slots in free_ring, and the pools.
Build(d) ==
    /\ Step(d, "build", "write")
    /\ built' = [built EXCEPT ![d] = TRUE]
    /\ UNCHANGED <<bound, size, run, layout, appVars, mishap>>

\* The four stores into mem_layout.
WriteLayout(d) ==
    /\ Step(d, "write", IF layout[d] + 1 = NOffsets THEN "mempool" ELSE "write")
    /\ layout' = [layout EXCEPT ![d] = @ + 1]
    /\ UNCHANGED <<bound, size, run, built, appVars, mishap>>

\* The DPDK mempool, and port_init, whatever it returns.
DpdkInit(d) ==
    /\ Step(d, "mempool", "loop")
    /\ UNCHANGED <<bound, size, run, built, layout, appVars, mishap>>

\* malloc, shm_open, ftruncate or mmap fails for a reason of its own, or there
\* is no mempool: main returns -1, and names created so far stay.
CreateFails(d) ==
    /\ \E l \in {"dataOpen", "dataTrunc", "dataMap", "ctrlOpen", "ctrlTrunc",
                 "ctrlMap", "mempool"} : Step(d, l, "failed")
    /\ mishap' = TRUE
    /\ UNCHANGED <<bound, size, run, built, layout, appVars>>

\* The handler only clears g_run, during start-up as well.
Sigint(d) ==
    /\ pc[d] \notin {"off", "failed", "killed", "done"}
    /\ run' = [run EXCEPT ![d] = FALSE]
    /\ UNCHANGED <<bound, size, pc, built, layout, appVars, mishap>>

\* Mutant: a signal that came before the loop is forgotten.
LeaveLoopLater(d) ==
    /\ ~run[d] /\ layout[d] > NOffsets
    /\ Step(d, "loop", "rmCtrl")
    /\ UNCHANGED <<bound, size, run, built, layout, appVars, mishap>>

LeaveLoop(d) ==
    /\ ~run[d]
    /\ Step(d, "loop", "rmCtrl")
    /\ UNCHANGED <<bound, size, run, built, layout, appVars, mishap>>

\* Mutant: the data memory is removed first.
DestroyDataFirst(d, n) ==
    /\ \/ n = "data" /\ Step(d, "rmCtrl", "rmData")
       \/ n = "ctrl" /\ Step(d, "rmData", "done")
    /\ bound' = [bound EXCEPT ![n] = None]
    /\ UNCHANGED <<size, run, built, layout, appVars, mishap>>

\* kt_memory_destroy: shm_unlink removes the name, whoever created it.
Destroy(d, n) ==
    /\ \/ n = "ctrl" /\ Step(d, "rmCtrl", "rmData")
       \/ n = "data" /\ Step(d, "rmData", "done")
    /\ bound' = [bound EXCEPT ![n] = None]
    /\ UNCHANGED <<size, run, built, layout, appVars, mishap>>

KillDaemon(d) ==
    /\ pc[d] \notin {"off", "failed", "killed", "done"}
    /\ pc' = [pc EXCEPT ![d] = "killed"]
    /\ mishap' = TRUE
    /\ UNCHANGED <<bound, size, run, built, layout, appVars>>

-----------------------------------------------------------------------------
(***************************************************************************)
(* An application: __libc_start_main of libktsn                            *)
(***************************************************************************)
AppStart(a) ==
    /\ Step(a, "off", "dataOpen")
    /\ UNCHANGED <<bound, size, run, built, layout, appVars, mishap>>

\* kt_memory_attach: shm_open of a name that exists ...
Attach(a, n) ==
    /\ bound[n] # None
    /\ Step(a, OpenAt(n), TruncAt(n))
    /\ fd' = [fd EXCEPT ![n][a] = bound[n]]
    /\ early' = IF n = "ctrl" /\ layout[bound[n]] < NOffsets THEN early \cup {a} ELSE early
    /\ UNCHANGED <<bound, size, run, built, layout, nread, seen, mishap>>

\* ... and of one that does not, or a call that fails: no main.
AttachFails(a) ==
    /\ \E n \in Names :
           \/ Step(a, OpenAt(n), "failed")
           \/ Step(a, TruncAt(n), "failed")
           \/ Step(a, MapAt(n), "failed")
    /\ UNCHANGED <<bound, size, run, built, layout, appVars, mishap>>

\* Mutant: an object that exists is taken as it is.
AttachKeepsSize(a, n) ==
    /\ Step(a, TruncAt(n), MapAt(n))
    /\ UNCHANGED <<bound, size, run, built, layout, appVars, mishap>>

\* An attach truncates as well, both memories to KT_DEFAULT_MEMORY_SIZE.
AttachTruncate(a, n) ==
    /\ Step(a, TruncAt(n), MapAt(n))
    /\ size' = [size EXCEPT ![n][fd[n][a]] = Full]
    /\ UNCHANGED <<bound, run, built, layout, appVars, mishap>>

AttachMap(a, n) ==
    /\ Step(a, MapAt(n), IF n = "data" THEN "ctrlOpen" ELSE "read")
    /\ UNCHANGED <<bound, size, run, built, layout, appVars, mishap>>

\* The four loads from g_mem_layout, then main.
ReadLayout(a) ==
    /\ Step(a, "read", IF nread[a] + 1 = NOffsets THEN "main" ELSE "read")
    /\ nread' = [nread EXCEPT ![a] = @ + 1]
    /\ seen' = [seen EXCEPT ![a] =
                   IF nread[a] < layout[fd["ctrl"][a]] THEN @ \cup {nread[a] + 1} ELSE @]
    /\ UNCHANGED <<bound, size, fd, run, built, layout, early, mishap>>

\* The application ends or is killed; nothing is detached.
AppEnds(a) ==
    /\ pc[a] \notin {"off", "failed", "ended"}
    /\ pc' = [pc EXCEPT ![a] = "ended"]
    /\ UNCHANGED <<bound, size, run, built, layout, appVars, mishap>>

-----------------------------------------------------------------------------
DaemonStep(d) ==
    \/ \E n \in Names : \/ Create(d, n) \/ CreateExists(d, n) \/ CreateMap(d, n)
                        \/ CreateTruncate(d, n) \/ Destroy(d, n)
    \/ Build(d) \/ WriteLayout(d) \/ DpdkInit(d) \/ LeaveLoop(d)
AppStep(a) ==
    \/ \E n \in Names : Attach(a, n) \/ AttachTruncate(a, n) \/ AttachMap(a, n)
    \/ ReadLayout(a)

Next ==
    \/ \E d \in Daemons : \/ EalInit(d) \/ DaemonStep(d) \/ CreateFails(d)
                          \/ Sigint(d) \/ KillDaemon(d)
    \/ \E a \in Apps : AppStart(a) \/ AppStep(a) \/ AttachFails(a) \/ AppEnds(a)

Spec == Init /\ [][Next]_vars

\* A running ktsnd goes on with its program.
FairSpec == Spec /\ \A d \in Daemons : WF_vars(DaemonStep(d))

-----------------------------------------------------------------------------
(***************************************************************************)
(* Properties                                                              *)
(***************************************************************************)
AllocLabels == {"dataOpen", "dataTrunc", "dataMap", "ctrlOpen", "ctrlTrunc", "ctrlMap"}
\* A daemon that is in one of these has created its data memory and not yet
\* removed it; the same for the control memory.
HasCtrl == {"ctrlTrunc", "ctrlMap", "build", "write", "mempool", "loop", "rmCtrl"}
HasData == {"dataTrunc", "dataMap", "ctrlOpen", "rmData"} \cup HasCtrl
Object == Daemons \cup {None}

TypeOK ==
    /\ bound \in [Names -> Object]
    /\ size \in [Names -> [Daemons -> {0, Page, Full}]]
    /\ fd \in [Names -> [Apps -> Object]]
    /\ pc \in [Procs -> AllocLabels \cup HasData
                        \cup {"off", "failed", "killed", "done", "read", "main", "ended"}]
    /\ \A d \in Daemons : pc[d] \notin {"read", "main", "ended"}
    /\ \A a \in Apps : pc[a] \in AllocLabels \cup {"off", "failed", "read", "main", "ended"}
    /\ run \in [Daemons -> BOOLEAN]
    /\ built \in [Daemons -> BOOLEAN]
    /\ layout \in [Daemons -> 0..NOffsets]
    /\ nread \in [Apps -> 0..NOffsets]
    /\ seen \in [Apps -> SUBSET (1..NOffsets)]
    /\ early \in SUBSET Apps
    /\ mishap \in BOOLEAN

\* A daemon in its main loop can be reached: both names stand for its own
\* objects, whatever other starts, failed starts and exits of ktsnd go on.  In
\* particular two daemons are never in their main loops together.
Reachable == \A d \in Daemons : pc[d] = "loop" => \A n \in Names : bound[n] = d

\* As long as no daemon is killed and no call fails but for a name that is
\* taken, the names are free whenever no daemon is running: the next start of
\* ktsnd finds no O_EXCL in its way, also when starts and exits overlapped.
RestartPossible ==
    ~mishap /\ (\A d \in Daemons : pc[d] \in {"off", "failed", "done"}) =>
        \A n \in Names : bound[n] = None

\* Whoever uses a shared memory finds it at least as large as what it uses
\* (no SIGBUS), in whatever order creators and attachers call ftruncate with
\* their different sizes.
InsideObject ==
    /\ \A d \in Daemons : pc[d] \in {"build", "write", "mempool", "loop"} =>
           size["data"][d] = Full /\ size["ctrl"][d] >= Page
    /\ \A a \in Apps :
           /\ pc[a] \in {"read", "main"} => size["data"][fd["data"][a]] = Full
           /\ pc[a] = "read" => size["ctrl"][fd["ctrl"][a]] >= Page

\* The two memories an application has opened are of the same daemon, unless
\* the daemon of its data memory made a clean exit while it was attaching.
PairedObjects ==
    \A a \in Apps :
        LET data == fd["data"][a]
            ctrl == fd["ctrl"][a]
        IN  ctrl # None /\ ctrl # data => pc[data] = "done"

\* What an application takes over from the layout is usable: an offset it
\* finds written belongs to data memory with rings and pools in place; and it
\* finds all four, unless it opened the control memory before they were there.
LayoutUsable ==
    \A a \in Apps :
        /\ seen[a] # {} => built[fd["data"][a]]
        /\ pc[a] = "main" /\ a \notin early => seen[a] = 1..NOffsets

\* SIGINT, at any moment after the handler is installed, gets the daemon's
\* names removed, unless the daemon is killed or its start-up fails.
SigintRemoves ==
    \A d \in Daemons :
        ~run[d] ~> \/ pc[d] \in {"failed", "killed"}
                   \/ \A n \in Names : bound[n] # d

-----------------------------------------------------------------------------
(***************************************************************************)
(* Why: the data memory's name is the lock.  It is created first and       *)
(* removed last, so the control memory's name never stands without it.     *)
(***************************************************************************)
NameOrder == bound["ctrl"] # None => bound["ctrl"] = bound["data"]

DaemonInv ==
    \A d \in Daemons :
        /\ pc[d] \in HasData => bound["data"] = d
        /\ pc[d] \in HasCtrl <=> bound["ctrl"] = d /\ pc[d] \notin {"failed", "killed"}
        /\ bound["data"] = d => pc[d] \in HasData \cup {"failed", "killed"}
        /\ bound["data"] = d /\ ~mishap => pc[d] \in HasData
        /\ pc[d] \in HasData \ {"dataTrunc"} => size["data"][d] = Full
        /\ pc[d] \in HasCtrl \ {"ctrlTrunc"} => size["ctrl"][d] >= Page
        /\ pc[d] \in {"write", "mempool", "loop", "rmCtrl", "rmData", "done"} => built[d]
        /\ layout[d] > 0 => built[d]
        /\ pc[d] = "write" => layout[d] < NOffsets
        /\ pc[d] \in {"off", "dataOpen", "dataTrunc", "dataMap", "ctrlOpen",
                      "ctrlTrunc", "ctrlMap", "build"} => layout[d] = 0

\* Before an application opens a memory, and after.
AppOK(a) ==
    LET data == fd["data"][a]
        ctrl == fd["ctrl"][a]
    IN  /\ pc[a] \in (AllocLabels \ {"dataOpen"}) \cup {"read", "main"} => data # None
        /\ pc[a] \in {"ctrlTrunc", "ctrlMap", "read", "main"} => ctrl # None
        /\ pc[a] \in {"off", "dataOpen", "dataTrunc", "dataMap", "ctrlOpen"} => ctrl = None
        /\ ctrl # None => data # None
        /\ data # None => data = bound["data"] \/ pc[data] = "done"
        /\ pc[a] \in {"dataMap", "ctrlOpen", "ctrlTrunc", "ctrlMap", "read", "main"} =>
               size["data"][data] = Full
        /\ pc[a] \in {"ctrlMap", "read"} => size["ctrl"][ctrl] >= Page
        /\ pc[a] = "read" => nread[a] < NOffsets
        /\ pc[a] \in AllocLabels \cup {"off"} => nread[a] = 0 /\ seen[a] = {}
        /\ pc[a] = "main" => nread[a] = NOffsets
        /\ seen[a] # {} => ctrl # None /\ layout[ctrl] > 0
        /\ ctrl # None /\ a \notin early => layout[ctrl] = NOffsets
        /\ pc[a] \in {"read", "main"} /\ a \notin early => seen[a] = 1..nread[a]
AppInv == \A a \in Apps : AppOK(a)

\* The inductive invariant: the names in order, where each process is and what
\* that says about names, sizes and layout, and the pairing of the objects.
ShmInv == TypeOK /\ NameOrder /\ DaemonInv /\ AppInv /\ PairedObjects
=============================================================================
