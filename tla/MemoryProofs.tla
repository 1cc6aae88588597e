---------------------------- MODULE MemoryProofs ----------------------------
(***************************************************************************)
(* The memory that ktsnd and the applications share: its objects, for any  *)
(* number of starts of ktsnd and any number of applications, and the pages *)
(* that are allocated in it, for every number of pages and every set of    *)
(* request sizes.                                                          *)
(***************************************************************************)
EXTENDS SharedMem, PageAlloc, FiniteSetTheorems, TLAPS

-----------------------------------------------------------------------------
(***************************************************************************)
(* The objects.  ShmInv is inductive: one lemma per action, with one step  *)
(* per conjunct.  The properties of SharedMem follow from it.              *)
(***************************************************************************)
\* rte_eal_init succeeds or exits: nothing is created yet.
LEMMA EalInitInv ==
    ASSUME ShmInv, NEW d \in Daemons, EalInit(d)
    PROVE  ShmInv'
<1>1. TypeOK'
    BY ShmAssumption DEF ShmInv, TypeOK, EalInit, Step, appVars, Procs,
     AllocLabels, HasData, HasCtrl
<1>2. NameOrder'
    BY DEF ShmInv, NameOrder, EalInit
<1>3. DaemonInv'
    BY ShmAssumption DEF ShmInv, TypeOK, DaemonInv, EalInit, Step, Procs,
     AllocLabels, HasData, HasCtrl
<1>4. AppInv'
    BY ShmAssumption DEF ShmInv, TypeOK, AppInv, AppOK, EalInit, Step,
     appVars, Procs, Names, Object, AllocLabels
<1>5. PairedObjects'
    BY ShmAssumption DEF ShmInv, TypeOK, NameOrder, DaemonInv, AppInv, AppOK,
     PairedObjects, EalInit, Step, appVars, Procs, Names, Page, Full,
     NOffsets, AllocLabels, HasData, HasCtrl, Object
<1> QED  BY <1>1, <1>2, <1>3, <1>4, <1>5 DEF ShmInv

\* shm_open with O_EXCL takes a free name; by NameOrder and DaemonInv a daemon
\* that comes to the control memory holds the data memory's name.
LEMMA CreateInv ==
    ASSUME ShmInv, NEW d \in Daemons, NEW n \in Names, Create(d, n)
    PROVE  ShmInv'
<1>1. TypeOK'
    BY ShmAssumption DEF ShmInv, TypeOK, Create, Step, OpenAt, TruncAt, MapAt,
     appVars, Procs, Names, Object, AllocLabels, HasData, HasCtrl
<1>2. NameOrder'
    BY ShmAssumption DEF ShmInv, TypeOK, NameOrder, DaemonInv, Create, Step,
     OpenAt, TruncAt, MapAt, Names, AllocLabels, HasData, HasCtrl
<1>3. DaemonInv'
    BY ShmAssumption DEF ShmInv, TypeOK, DaemonInv, NameOrder, Create, Step,
     OpenAt, TruncAt, MapAt, Procs, Names, AllocLabels, HasData, HasCtrl
<1>4. AppInv'
    BY ShmAssumption DEF ShmInv, TypeOK, AppInv, AppOK, DaemonInv, Create,
     Step, OpenAt, TruncAt, MapAt, appVars, Procs, Names, Object, AllocLabels,
     HasData, HasCtrl
<1>5. PairedObjects'
    BY ShmAssumption DEF ShmInv, TypeOK, AppInv, AppOK, PairedObjects, Create,
     Step, OpenAt, TruncAt, MapAt, appVars, Procs, Names, Object
<1> QED  BY <1>1, <1>2, <1>3, <1>4, <1>5 DEF ShmInv

\* A create that meets a taken name changes no name.
LEMMA CreateExistsInv ==
    ASSUME ShmInv, NEW d \in Daemons, NEW n \in Names, CreateExists(d, n)
    PROVE  ShmInv'
<1>1. TypeOK'
    BY ShmAssumption DEF ShmInv, TypeOK, CreateExists, Step, OpenAt, TruncAt,
     MapAt, appVars, Procs, AllocLabels, HasData, HasCtrl
<1>2. NameOrder'
    BY DEF ShmInv, NameOrder, CreateExists
<1>3. DaemonInv'
    BY ShmAssumption DEF ShmInv, TypeOK, NameOrder, DaemonInv, AppInv, AppOK,
     CreateExists, Step, OpenAt, TruncAt, MapAt, appVars, Procs, Names, Page,
     Full, NOffsets, AllocLabels, HasData, HasCtrl, Object
<1>4. AppInv'
    BY ShmAssumption DEF ShmInv, TypeOK, AppInv, AppOK, CreateExists, Step,
     OpenAt, TruncAt, MapAt, appVars, Procs, Names, Object, AllocLabels
<1>5. PairedObjects'
    BY ShmAssumption DEF ShmInv, TypeOK, AppInv, AppOK, PairedObjects,
     CreateExists, Step, OpenAt, TruncAt, MapAt, appVars, Procs, Names, Object
<1> QED  BY <1>1, <1>2, <1>3, <1>4, <1>5 DEF ShmInv

\* The creator's ftruncate makes its own object large enough.
LEMMA CreateTruncateInv ==
    ASSUME ShmInv, NEW d \in Daemons, NEW n \in Names, CreateTruncate(d, n)
    PROVE  ShmInv'
<1>1. TypeOK'
    BY ShmAssumption DEF ShmInv, TypeOK, CreateTruncate, Step, OpenAt,
     TruncAt, MapAt, appVars, Procs, Names, Page, Full, Object, AllocLabels,
     HasData, HasCtrl
<1>2. NameOrder'
    BY DEF ShmInv, NameOrder, CreateTruncate
<1>3. DaemonInv'
    BY ShmAssumption DEF ShmInv, TypeOK, DaemonInv, CreateTruncate, Step,
     OpenAt, TruncAt, MapAt, Procs, Names, Page, Full, AllocLabels, HasData,
     HasCtrl
<1>4. AppInv'
    BY ShmAssumption DEF ShmInv, TypeOK, AppInv, AppOK, DaemonInv,
     CreateTruncate, Step, OpenAt, TruncAt, MapAt, appVars, Procs, Names,
     Object, Page, Full, AllocLabels, HasData, HasCtrl
<1>5. PairedObjects'
    BY ShmAssumption DEF ShmInv, TypeOK, AppInv, AppOK, PairedObjects,
     CreateTruncate, Step, OpenAt, TruncAt, MapAt, appVars, Procs, Names,
     Object
<1> QED  BY <1>1, <1>2, <1>3, <1>4, <1>5 DEF ShmInv

\* mmap by the creator.
LEMMA CreateMapInv ==
    ASSUME ShmInv, NEW d \in Daemons, NEW n \in Names, CreateMap(d, n)
    PROVE  ShmInv'
<1>1. TypeOK'
    BY ShmAssumption DEF ShmInv, TypeOK, CreateMap, Step, OpenAt, TruncAt,
     MapAt, appVars, Procs, AllocLabels, HasData, HasCtrl
<1>2. NameOrder'
    BY DEF ShmInv, NameOrder, CreateMap
<1>3. DaemonInv'
    BY ShmAssumption DEF ShmInv, TypeOK, DaemonInv, CreateMap, Step, OpenAt,
     TruncAt, MapAt, Procs, AllocLabels, HasData, HasCtrl
<1>4. AppInv'
    BY ShmAssumption DEF ShmInv, TypeOK, AppInv, AppOK, CreateMap, Step,
     OpenAt, TruncAt, MapAt, appVars, Procs, Names, Object, AllocLabels
<1>5. PairedObjects'
    BY ShmAssumption DEF ShmInv, TypeOK, AppInv, AppOK, PairedObjects,
     CreateMap, Step, OpenAt, TruncAt, MapAt, appVars, Procs, Names, Object
<1> QED  BY <1>1, <1>2, <1>3, <1>4, <1>5 DEF ShmInv

\* Allocator, rings and pools are in place before the layout is begun.
LEMMA BuildInv ==
    ASSUME ShmInv, NEW d \in Daemons, Build(d)
    PROVE  ShmInv'
<1>1. TypeOK'
    BY ShmAssumption DEF ShmInv, TypeOK, Build, Step, appVars, Procs,
     AllocLabels, HasData, HasCtrl
<1>2. NameOrder'
    BY DEF ShmInv, NameOrder, Build
<1>3. DaemonInv'
    BY ShmAssumption DEF ShmInv, TypeOK, NameOrder, DaemonInv, AppInv, AppOK,
     Build, Step, appVars, Procs, Names, Page, Full, NOffsets, AllocLabels,
     HasData, HasCtrl, Object
<1>4. AppInv'
    BY ShmAssumption DEF ShmInv, TypeOK, AppInv, AppOK, Build, Step, appVars,
     Procs, Names, Object, AllocLabels
<1>5. PairedObjects'
    BY ShmAssumption DEF ShmInv, TypeOK, AppInv, AppOK, PairedObjects, Build,
     Step, appVars, Procs, Names, Object
<1> QED  BY <1>1, <1>2, <1>3, <1>4, <1>5 DEF ShmInv

\* One store into kt_mem_layout, in data memory that is built.
LEMMA WriteLayoutInv ==
    ASSUME ShmInv, NEW d \in Daemons, WriteLayout(d)
    PROVE  ShmInv'
<1>1. TypeOK'
    BY ShmAssumption DEF ShmInv, TypeOK, DaemonInv, WriteLayout, Step,
     appVars, Procs, NOffsets, AllocLabels, HasData, HasCtrl
<1>2. NameOrder'
    BY DEF ShmInv, NameOrder, WriteLayout
<1>3. DaemonInv'
    BY ShmAssumption DEF ShmInv, TypeOK, NameOrder, DaemonInv, AppInv, AppOK,
     WriteLayout, Step, appVars, Procs, Names, Page, Full, NOffsets,
     AllocLabels, HasData, HasCtrl, Object
<1>4. AppInv'
    BY ShmAssumption DEF ShmInv, TypeOK, AppInv, AppOK, DaemonInv,
     WriteLayout, Step, appVars, Procs, Names, Object, NOffsets, AllocLabels,
     HasData, HasCtrl
<1>5. PairedObjects'
    BY ShmAssumption DEF ShmInv, TypeOK, AppInv, AppOK, PairedObjects,
     WriteLayout, Step, appVars, Procs, Names, Object
<1> QED  BY <1>1, <1>2, <1>3, <1>4, <1>5 DEF ShmInv

\* The mempool and the port: the shared memories stay as they are.
LEMMA DpdkInitInv ==
    ASSUME ShmInv, NEW d \in Daemons, DpdkInit(d)
    PROVE  ShmInv'
<1>1. TypeOK'
    BY ShmAssumption DEF ShmInv, TypeOK, DpdkInit, Step, appVars, Procs,
     AllocLabels, HasData, HasCtrl
<1>2. NameOrder'
    BY DEF ShmInv, NameOrder, DpdkInit
<1>3. DaemonInv'
    BY ShmAssumption DEF ShmInv, TypeOK, DaemonInv, DpdkInit, Step, Procs,
     AllocLabels, HasData, HasCtrl
<1>4. AppInv'
    BY ShmAssumption DEF ShmInv, TypeOK, AppInv, AppOK, DpdkInit, Step,
     appVars, Procs, Names, Object, AllocLabels
<1>5. PairedObjects'
    BY ShmAssumption DEF ShmInv, TypeOK, AppInv, AppOK, PairedObjects,
     DpdkInit, Step, appVars, Procs, Names, Object
<1> QED  BY <1>1, <1>2, <1>3, <1>4, <1>5 DEF ShmInv

\* A failing call leaves the names of the daemon in place, as a mishap.
LEMMA CreateFailsInv ==
    ASSUME ShmInv, NEW d \in Daemons, CreateFails(d)
    PROVE  ShmInv'
<1>1. TypeOK'
    BY ShmAssumption DEF ShmInv, TypeOK, CreateFails, Step, appVars, Procs,
     AllocLabels, HasData, HasCtrl
<1>2. NameOrder'
    BY DEF ShmInv, NameOrder, CreateFails
<1>3. DaemonInv'
    BY ShmAssumption DEF ShmInv, TypeOK, DaemonInv, CreateFails, Step, Procs,
     AllocLabels, HasData, HasCtrl
<1>4. AppInv'
    BY ShmAssumption DEF ShmInv, TypeOK, AppInv, AppOK, CreateFails, Step,
     appVars, Procs, Names, Object, AllocLabels
<1>5. PairedObjects'
    BY ShmAssumption DEF ShmInv, TypeOK, AppInv, AppOK, PairedObjects,
     CreateFails, Step, appVars, Procs, Names, Object
<1> QED  BY <1>1, <1>2, <1>3, <1>4, <1>5 DEF ShmInv

\* The signal handler touches g_run only.
LEMMA SigintInv ==
    ASSUME ShmInv, NEW d \in Daemons, Sigint(d)
    PROVE  ShmInv'
<1>1. TypeOK'
    BY ShmAssumption DEF ShmInv, TypeOK, Sigint, appVars, Procs, AllocLabels,
     HasData, HasCtrl
<1>2. NameOrder'
    BY DEF ShmInv, NameOrder, Sigint
<1>3. DaemonInv'
    BY ShmAssumption DEF ShmInv, TypeOK, DaemonInv, Sigint, Procs,
     AllocLabels, HasData, HasCtrl
<1>4. AppInv'
    BY ShmAssumption DEF ShmInv, TypeOK, AppInv, AppOK, Sigint, appVars,
     Procs, Names, Object, AllocLabels
<1>5. PairedObjects'
    BY ShmAssumption DEF ShmInv, TypeOK, AppInv, AppOK, PairedObjects, Sigint,
     appVars, Procs, Names, Object
<1> QED  BY <1>1, <1>2, <1>3, <1>4, <1>5 DEF ShmInv

\* The main loop ends; both names are still the daemon's own.
LEMMA LeaveLoopInv ==
    ASSUME ShmInv, NEW d \in Daemons, LeaveLoop(d)
    PROVE  ShmInv'
<1>1. TypeOK'
    BY ShmAssumption DEF ShmInv, TypeOK, LeaveLoop, Step, appVars, Procs,
     AllocLabels, HasData, HasCtrl
<1>2. NameOrder'
    BY DEF ShmInv, NameOrder, LeaveLoop
<1>3. DaemonInv'
    BY ShmAssumption DEF ShmInv, TypeOK, DaemonInv, LeaveLoop, Step, Procs,
     AllocLabels, HasData, HasCtrl
<1>4. AppInv'
    BY ShmAssumption DEF ShmInv, TypeOK, AppInv, AppOK, LeaveLoop, Step,
     appVars, Procs, Names, Object, AllocLabels
<1>5. PairedObjects'
    BY ShmAssumption DEF ShmInv, TypeOK, AppInv, AppOK, PairedObjects,
     LeaveLoop, Step, appVars, Procs, Names, Object
<1> QED  BY <1>1, <1>2, <1>3, <1>4, <1>5 DEF ShmInv

\* shm_unlink removes the daemon's own name, the control memory's first, so
\* NameOrder survives the moment between the two calls.
LEMMA DestroyInv ==
    ASSUME ShmInv, NEW d \in Daemons, NEW n \in Names, Destroy(d, n)
    PROVE  ShmInv'
<1>1. TypeOK'
    BY ShmAssumption DEF ShmInv, TypeOK, Destroy, Step, appVars, Procs, Names,
     Object, AllocLabels, HasData, HasCtrl
<1>2. NameOrder'
    BY ShmAssumption DEF ShmInv, TypeOK, NameOrder, DaemonInv, Destroy, Step,
     Names, AllocLabels, HasData, HasCtrl
<1>3. DaemonInv'
    BY ShmAssumption DEF ShmInv, TypeOK, DaemonInv, NameOrder, Destroy, Step,
     Procs, Names, AllocLabels, HasData, HasCtrl
<1>4. AppInv'
    BY ShmAssumption DEF ShmInv, TypeOK, AppInv, AppOK, DaemonInv, Destroy,
     Step, appVars, Procs, Names, Object, AllocLabels, HasData, HasCtrl
<1>5. PairedObjects'
    BY ShmAssumption DEF ShmInv, TypeOK, NameOrder, DaemonInv, AppInv, AppOK,
     PairedObjects, Destroy, Step, appVars, Procs, Names, Page, Full,
     NOffsets, AllocLabels, HasData, HasCtrl, Object
<1> QED  BY <1>1, <1>2, <1>3, <1>4, <1>5 DEF ShmInv

\* A killed daemon leaves its names in place, as a mishap.
LEMMA KillDaemonInv ==
    ASSUME ShmInv, NEW d \in Daemons, KillDaemon(d)
    PROVE  ShmInv'
<1>1. TypeOK'
    BY ShmAssumption DEF ShmInv, TypeOK, KillDaemon, appVars, Procs,
     AllocLabels, HasData, HasCtrl
<1>2. NameOrder'
    BY DEF ShmInv, NameOrder, KillDaemon
<1>3. DaemonInv'
    BY ShmAssumption DEF ShmInv, TypeOK, DaemonInv, KillDaemon, Procs,
     AllocLabels, HasData, HasCtrl
<1>4. AppInv'
    BY ShmAssumption DEF ShmInv, TypeOK, AppInv, AppOK, DaemonInv, KillDaemon,
     appVars, Procs, Names, Object, AllocLabels, HasData, HasCtrl
<1>5. PairedObjects'
    BY ShmAssumption DEF ShmInv, TypeOK, AppInv, AppOK, PairedObjects,
     KillDaemon, appVars, Procs, Names, Object
<1> QED  BY <1>1, <1>2, <1>3, <1>4, <1>5 DEF ShmInv

\* An application starts and has opened nothing.
LEMMA AppStartInv ==
    ASSUME ShmInv, NEW a \in Apps, AppStart(a)
    PROVE  ShmInv'
<1>1. TypeOK'
    BY ShmAssumption DEF ShmInv, TypeOK, AppStart, Step, appVars, Procs,
     AllocLabels, HasData, HasCtrl
<1>2. NameOrder'
    BY DEF ShmInv, NameOrder, AppStart
<1>3. DaemonInv'
    BY ShmAssumption DEF ShmInv, TypeOK, DaemonInv, AppStart, Step, Procs,
     AllocLabels, HasData, HasCtrl
<1>4. AppInv'
    BY ShmAssumption DEF ShmInv, TypeOK, AppInv, AppOK, AppStart, Step,
     appVars, Procs, Names, Object, AllocLabels
<1>5. PairedObjects'
    BY ShmAssumption DEF ShmInv, TypeOK, AppInv, AppOK, PairedObjects,
     AppStart, Step, appVars, Procs, Names, Object
<1> QED  BY <1>1, <1>2, <1>3, <1>4, <1>5 DEF ShmInv

\* A step that neither moves an application nor touches what it has opened.
LEMMA AppFrame ==
    ASSUME NEW b \in Apps, AppOK(b), UNCHANGED <<bound, layout>>,
           fd["data"][b] # None /\ size["data"][fd["data"][b]] = Full =>
               size'["data"][fd["data"][b]] = Full,
           fd["ctrl"][b] # None /\ size["ctrl"][fd["ctrl"][b]] >= Page =>
               size'["ctrl"][fd["ctrl"][b]] >= Page,
           pc'[b] = pc[b], nread'[b] = nread[b], seen'[b] = seen[b],
           b \in early' <=> b \in early,
           fd'["data"][b] = fd["data"][b], fd'["ctrl"][b] = fd["ctrl"][b],
           fd["data"][b] # None =>
               (pc[fd["data"][b]] = "done" => pc'[fd["data"][b]] = "done")
    PROVE  AppOK(b)'
  BY DEF AppOK, AllocLabels

\* An application opens what a name stands for now: at the control memory this
\* is, by NameOrder, the object of the daemon that owns the data memory's name.
LEMMA AttachInv ==
    ASSUME ShmInv, NEW a \in Apps, NEW n \in Names, Attach(a, n)
    PROVE  ShmInv'
<1>1. TypeOK'
    BY ShmAssumption DEF ShmInv, TypeOK, Attach, Step, OpenAt, TruncAt, MapAt,
     appVars, Procs, Names, Object, AllocLabels, HasData, HasCtrl
<1>2. NameOrder'
    BY DEF ShmInv, NameOrder, Attach
<1>3. DaemonInv'
    BY ShmAssumption DEF ShmInv, TypeOK, DaemonInv, Attach, Step, OpenAt,
     TruncAt, MapAt, Procs, AllocLabels, HasData, HasCtrl
<1>4. AppInv'
  <2>1. CASE n = "data"
        BY <2>1, ShmAssumption DEF ShmInv, TypeOK, AppInv, AppOK, DaemonInv,
       NameOrder, Attach, Step, OpenAt, TruncAt, MapAt, appVars, Procs, Names,
       Object, NOffsets, AllocLabels, HasData, HasCtrl
  <2>2. CASE n = "ctrl"
    <3> DEFINE o == bound["ctrl"]
    <3>1. o \in Daemons /\ o = bound["data"]
      BY <2>2 DEF Attach, ShmInv, TypeOK, NameOrder, Names, Object
    <3>2. fd'["data"] = fd["data"] /\ fd'["ctrl"] = [fd["ctrl"] EXCEPT ![a] = o]
      BY <2>2 DEF Attach, ShmInv, TypeOK, Names
    <3>3. a \notin early' => layout[o] = NOffsets
      BY <2>2, <3>1 DEF Attach, ShmInv, TypeOK, NOffsets
    <3>4. \A b \in Apps : b # a => (b \in early' <=> b \in early)
      BY DEF Attach, ShmInv, TypeOK
    <3>5. pc[a] = "ctrlOpen" /\ pc' = [pc EXCEPT ![a] = "ctrlTrunc"]
      BY <2>2 DEF Attach, Step, OpenAt, TruncAt
    <3> HIDE DEF o
    <3>6. UNCHANGED <<bound, size, layout, nread, seen>>
      BY DEF Attach
    <3>7. \A q \in Procs : q # a => pc'[q] = pc[q]
      BY <3>5 DEF ShmInv, TypeOK
    <3>8. \A b \in Apps : fd["data"][b] # None =>
              (pc[fd["data"][b]] = "done" => pc'[fd["data"][b]] = "done")
      BY <3>7, ShmAssumption DEF ShmInv, TypeOK, Object, Names, Procs
    <3>9. \A b \in Apps : b # a => fd'["ctrl"][b] = fd["ctrl"][b]
      BY <3>2 DEF ShmInv, TypeOK, Names
    <3>10. pc'[a] = "ctrlTrunc" /\ fd'["ctrl"][a] = o
      BY <3>2, <3>5 DEF ShmInv, TypeOK, Names, Procs
    <3>11. o # None /\ AppOK(a)
      BY <3>1, ShmAssumption DEF ShmInv, AppInv
    <3>12. AppOK(a)'
      BY <3>2, <3>3, <3>5, <3>6, <3>8, <3>10, <3>11 DEF AppOK, AllocLabels
    <3>13. \A b \in Apps : b # a => AppOK(b)'
      BY <3>2, <3>4, <3>6, <3>7, <3>8, <3>9, AppFrame DEF ShmInv, AppInv, Procs
    <3> QED  BY <3>12, <3>13 DEF AppInv
  <2> QED  BY <2>1, <2>2 DEF Names
<1>5. PairedObjects'
    BY ShmAssumption, SMTT(30) DEF ShmInv, TypeOK, NameOrder, DaemonInv, AppInv, AppOK,
     PairedObjects, Attach, Step, OpenAt, TruncAt, MapAt, appVars, Procs,
     Names, Page, Full, NOffsets, AllocLabels, HasData, HasCtrl, Object
<1> QED  BY <1>1, <1>2, <1>3, <1>4, <1>5 DEF ShmInv

\* A failing attach ends the application before main.
LEMMA AttachFailsInv ==
    ASSUME ShmInv, NEW a \in Apps, AttachFails(a)
    PROVE  ShmInv'
<1>1. TypeOK'
    BY ShmAssumption DEF ShmInv, TypeOK, AttachFails, Step, OpenAt, TruncAt,
     MapAt, appVars, Procs, AllocLabels, HasData, HasCtrl
<1>2. NameOrder'
    BY DEF ShmInv, NameOrder, AttachFails
<1>3. DaemonInv'
    BY ShmAssumption DEF ShmInv, TypeOK, DaemonInv, AttachFails, Step, OpenAt,
     TruncAt, MapAt, Procs, AllocLabels, HasData, HasCtrl
<1>4. AppInv'
    BY ShmAssumption DEF ShmInv, TypeOK, AppInv, AppOK, AttachFails, Step,
     OpenAt, TruncAt, MapAt, appVars, Procs, Names, Object, AllocLabels
<1>5. PairedObjects'
    BY ShmAssumption DEF ShmInv, TypeOK, NameOrder, DaemonInv, AppInv, AppOK,
     PairedObjects, AttachFails, Step, OpenAt, TruncAt, MapAt, appVars, Procs,
     Names, Page, Full, NOffsets, AllocLabels, HasData, HasCtrl, Object
<1> QED  BY <1>1, <1>2, <1>3, <1>4, <1>5 DEF ShmInv

\* An attacher's ftruncate never makes an object too small.
LEMMA AttachTruncateInv ==
    ASSUME ShmInv, NEW a \in Apps, NEW n \in Names, AttachTruncate(a, n)
    PROVE  ShmInv'
<1>1. TypeOK'
    BY ShmAssumption DEF ShmInv, TypeOK, AttachTruncate, Step, OpenAt,
     TruncAt, MapAt, appVars, Procs, Names, Page, Full, Object, AllocLabels,
     HasData, HasCtrl
<1>2. NameOrder'
    BY DEF ShmInv, NameOrder, AttachTruncate
<1>3. DaemonInv'
    BY ShmAssumption, SMTT(30) DEF ShmInv, TypeOK, DaemonInv, AppInv, AppOK,
     AttachTruncate, Step, OpenAt, TruncAt, MapAt, Procs, Names, Page, Full,
     Object, AllocLabels, HasData, HasCtrl
<1>4. AppInv'
  <2>1. /\ pc[a] = TruncAt(n) /\ pc'[a] = MapAt(n)
        /\ \A q \in Procs : q # a => pc'[q] = pc[q]
    BY DEF AttachTruncate, Step, ShmInv, TypeOK, Procs
  <2>2. UNCHANGED <<bound, layout, appVars>>
    BY DEF AttachTruncate
  <2>3. \A b \in Apps : fd["data"][b] # None =>
            (pc[fd["data"][b]] = "done" => pc'[fd["data"][b]] = "done")
    BY <2>1, ShmAssumption DEF ShmInv, TypeOK, Object, Names, Procs
  <2>4. \A m \in Names, b \in Apps : fd[m][b] # None => fd[m][b] \in Daemons
    BY DEF ShmInv, TypeOK, Object, Names
  <2>5. \A m \in Names, d \in Daemons :
            size'[m][d] = size[m][d] \/ size'[m][d] = Full
    BY DEF AttachTruncate, ShmInv, TypeOK, Names
  <2>6. AppOK(a) /\ fd[n][a] # None
    BY <2>1 DEF ShmInv, AppInv, AppOK, AllocLabels, TruncAt, Names
  <2>7. size'[n][fd[n][a]] = Full
    BY <2>4, <2>6 DEF AttachTruncate, ShmInv, TypeOK, Names
  <2>8. ASSUME NEW b \in Apps
        PROVE  /\ fd["data"][b] # None /\ size["data"][fd["data"][b]] = Full =>
                      size'["data"][fd["data"][b]] = Full
               /\ fd["ctrl"][b] # None /\ size["ctrl"][fd["ctrl"][b]] >= Page =>
                      size'["ctrl"][fd["ctrl"][b]] >= Page
    BY <2>4, <2>5 DEF Names, Full, Page
  <2>9. AppOK(a)'
    <3>1. CASE n = "data"
      BY <2>1, <2>2, <2>3, <2>6, <2>7, <2>8, <3>1
      DEF AppOK, AllocLabels, TruncAt, MapAt, appVars
    <3>2. CASE n = "ctrl"
      <4>1. pc[a] = "ctrlTrunc" /\ pc'[a] = "ctrlMap" /\ size'["ctrl"][fd["ctrl"][a]] >= Page
        BY <2>1, <2>7, <3>2 DEF TruncAt, MapAt, Full, Page
      <4> QED  BY <2>2, <2>3, <2>6, <2>8, <4>1 DEF AppOK, AllocLabels, appVars
    <3> QED  BY <3>1, <3>2 DEF Names
  <2>10. ASSUME NEW b \in Apps, b # a  PROVE AppOK(b)'
    BY <2>1, <2>2, <2>3, <2>8, <2>10, AppFrame DEF ShmInv, AppInv, Procs, appVars
  <2> QED  BY <2>9, <2>10 DEF AppInv
<1>5. PairedObjects'
    BY ShmAssumption DEF ShmInv, TypeOK, AppInv, AppOK, PairedObjects,
     AttachTruncate, Step, OpenAt, TruncAt, MapAt, appVars, Procs, Names,
     Object
<1> QED  BY <1>1, <1>2, <1>3, <1>4, <1>5 DEF ShmInv

\* mmap by an attacher.
LEMMA AttachMapInv ==
    ASSUME ShmInv, NEW a \in Apps, NEW n \in Names, AttachMap(a, n)
    PROVE  ShmInv'
<1>1. TypeOK'
    BY ShmAssumption DEF ShmInv, TypeOK, AttachMap, Step, OpenAt, TruncAt,
     MapAt, appVars, Procs, AllocLabels, HasData, HasCtrl
<1>2. NameOrder'
    BY DEF ShmInv, NameOrder, AttachMap
<1>3. DaemonInv'
    BY ShmAssumption DEF ShmInv, TypeOK, DaemonInv, AttachMap, Step, OpenAt,
     TruncAt, MapAt, Procs, AllocLabels, HasData, HasCtrl
<1>4. AppInv'
  <2>1. nread[a] = 0 /\ seen[a] = 1..0
    <3>1. 1..0 = {}
      OBVIOUS
    <3> QED  BY <3>1 DEF AttachMap, Step, MapAt, ShmInv, AppInv, AppOK, AllocLabels
  <2>2. CASE n = "data"
    BY <2>2, ShmAssumption, SMTT(30) DEF AttachMap, Step, MapAt, ShmInv, TypeOK, AppInv, AppOK, appVars, Procs, Names,
       AllocLabels, Object
  <2>3. CASE n = "ctrl"
    <3>1. pc[a] = "ctrlMap" /\ pc' = [pc EXCEPT ![a] = "read"]
      BY <2>3 DEF AttachMap, Step, MapAt
    <3>2. AppOK(a)'
      BY <2>1, <3>1 DEF AttachMap, ShmInv, TypeOK, AppInv, AppOK, appVars, Procs, Names, AllocLabels, NOffsets
    <3>3. \A b \in Apps : b # a => AppOK(b)'
      BY <3>1, ShmAssumption DEF AttachMap, ShmInv, TypeOK, AppInv, AppOK, appVars, Procs, Names, Object
    <3> QED  BY <3>2, <3>3 DEF AppInv
  <2> QED  BY <2>2, <2>3 DEF Names
<1>5. PairedObjects'
    BY ShmAssumption DEF ShmInv, TypeOK, AppInv, AppOK, PairedObjects,
     AttachMap, Step, OpenAt, TruncAt, MapAt, appVars, Procs, Names, Object
<1> QED  BY <1>1, <1>2, <1>3, <1>4, <1>5 DEF ShmInv

\* One load from the layout: what is found written was written after the build.
LEMMA ReadLayoutInv ==
    ASSUME ShmInv, NEW a \in Apps, ReadLayout(a)
    PROVE  ShmInv'
<1>1. TypeOK'
    BY ShmAssumption DEF ShmInv, TypeOK, AppInv, AppOK, ReadLayout, Step,
     appVars, Procs, Names, Page, Full, NOffsets, AllocLabels, HasData,
     HasCtrl, Object
<1>2. NameOrder'
    BY DEF ShmInv, NameOrder, ReadLayout
<1>3. DaemonInv'
    BY ShmAssumption DEF ShmInv, TypeOK, DaemonInv, ReadLayout, Step, Procs,
     AllocLabels, HasData, HasCtrl
<1>4. AppInv'
  <2> DEFINE o == fd["ctrl"][a]
  <2>1. 1..(nread[a] + 1) = 1..nread[a] \cup {nread[a] + 1} /\ nread[a] + 1 \in Nat
    BY DEF ShmInv, TypeOK, NOffsets
  <2>2. o \in Daemons /\ layout[o] \in Nat /\ nread[a] \in Nat /\ nread[a] < NOffsets
    BY DEF ReadLayout, Step, ShmInv, TypeOK, AppInv, AppOK, Object, Names, NOffsets
  <2>3. a \notin early => seen'[a] = 1..nread'[a]
    BY <2>1, <2>2 DEF ReadLayout, Step, ShmInv, TypeOK, AppInv, AppOK
  <2>4. seen'[a] # {} => layout[o] > 0
    BY <2>2 DEF ReadLayout, Step, ShmInv, TypeOK, AppInv, AppOK
  <2>5. \A b \in Apps : b # a => nread'[b] = nread[b] /\ seen'[b] = seen[b]
    BY DEF ReadLayout, ShmInv, TypeOK
  <2>6. /\ pc'[a] = IF nread[a] + 1 = NOffsets THEN "main" ELSE "read"
        /\ nread'[a] = nread[a] + 1
    BY DEF ReadLayout, Step, ShmInv, TypeOK, Procs
  <2>7. /\ pc'[a] = "main" => nread'[a] = NOffsets
        /\ pc'[a] = "read" => nread'[a] < NOffsets
    BY <2>2, <2>6 DEF NOffsets
  <2>8. pc[a] = "read" /\ pc'[a] \in {"read", "main"} /\ \A q \in Procs : q # a => pc'[q] = pc[q]
    BY DEF ReadLayout, Step, ShmInv, TypeOK, Procs
  <2>9. UNCHANGED <<bound, size, fd, layout, early>>
    BY DEF ReadLayout
  <2>10. \A b \in Apps : fd["data"][b] # None =>
             (pc[fd["data"][b]] = "done" => pc'[fd["data"][b]] = "done")
    BY <2>8, ShmAssumption DEF ShmInv, TypeOK, Object, Names, Procs
  <2>11. AppOK(a)'
    BY <2>2, <2>3, <2>4, <2>6, <2>7, <2>8, <2>9, <2>10 DEF ShmInv, AppInv, AppOK, AllocLabels
  <2>12. \A b \in Apps : b # a => AppOK(b)'
    BY <2>5, <2>8, <2>9, <2>10, AppFrame DEF ShmInv, AppInv, Procs
  <2> QED  BY <2>11, <2>12 DEF AppInv
<1>5. PairedObjects'
    BY ShmAssumption DEF ShmInv, TypeOK, AppInv, AppOK, PairedObjects,
     ReadLayout, Step, appVars, Procs, Names, Object
<1> QED  BY <1>1, <1>2, <1>3, <1>4, <1>5 DEF ShmInv

\* The end of an application detaches nothing.
LEMMA AppEndsInv ==
    ASSUME ShmInv, NEW a \in Apps, AppEnds(a)
    PROVE  ShmInv'
<1>1. TypeOK'
    BY ShmAssumption DEF ShmInv, TypeOK, AppEnds, appVars, Procs, AllocLabels,
     HasData, HasCtrl
<1>2. NameOrder'
    BY DEF ShmInv, NameOrder, AppEnds
<1>3. DaemonInv'
    BY ShmAssumption DEF ShmInv, TypeOK, DaemonInv, AppEnds, Procs,
     AllocLabels, HasData, HasCtrl
<1>4. AppInv'
  <2>1. pc'[a] = "ended" /\ \A q \in Procs : q # a => pc'[q] = pc[q]
    BY DEF AppEnds, ShmInv, TypeOK, Procs
  <2>2. UNCHANGED <<bound, size, layout, appVars>>
    BY DEF AppEnds
  <2>3. \A b \in Apps : fd["data"][b] # None =>
            (pc[fd["data"][b]] = "done" => pc'[fd["data"][b]] = "done")
    BY <2>1, ShmAssumption DEF ShmInv, TypeOK, Object, Names, Procs
  <2>4. AppOK(a)'
    BY <2>1, <2>2, <2>3 DEF ShmInv, AppInv, AppOK, AllocLabels, appVars
  <2>5. \A b \in Apps : b # a => AppOK(b)'
    BY <2>1, <2>2, <2>3, AppFrame DEF ShmInv, AppInv, Procs, appVars
  <2> QED  BY <2>4, <2>5 DEF AppInv
<1>5. PairedObjects'
    BY ShmAssumption DEF ShmInv, TypeOK, AppInv, AppOK, PairedObjects,
     AppEnds, appVars, Procs, Names, Object
<1> QED  BY <1>1, <1>2, <1>3, <1>4, <1>5 DEF ShmInv

-----------------------------------------------------------------------------
\* Before anything is started there is no name, no object and no layout.
LEMMA InitInv == Init => ShmInv
<1> SUFFICES ASSUME Init  PROVE ShmInv
  OBVIOUS
<1>1. TypeOK
  <2>1. pc \in [Procs -> {"off"}]
    BY DEF Init
  <2>2. size \in [Names -> [Daemons -> {0, Page, Full}]]
    BY DEF Init
  <2>3. /\ layout \in [Daemons -> 0..NOffsets] /\ nread \in [Apps -> 0..NOffsets]
        /\ seen \in [Apps -> SUBSET (1..NOffsets)]
    BY DEF Init, NOffsets
  <2> QED  BY <2>1, <2>2, <2>3, ShmAssumption DEF Init, TypeOK, Procs, Object
<1>2. NameOrder
  BY DEF Init, NameOrder, Names
<1>3. DaemonInv
  <2>1. \A d \in Daemons : /\ pc[d] = "off" /\ layout[d] = 0
                            /\ bound["data"] # d /\ bound["ctrl"] # d
    BY ShmAssumption DEF Init, Procs, Names
  <2>2. "off" \notin HasData /\ "off" \notin HasCtrl /\ ~(0 > 0)
    BY DEF HasData, HasCtrl
  <2> QED  BY <2>1, <2>2 DEF DaemonInv
<1>4. AppInv
  BY DEF Init, AppInv, AppOK, Procs, Names, AllocLabels
<1>5. PairedObjects
  BY DEF Init, PairedObjects, Names
<1> QED  BY <1>1, <1>2, <1>3, <1>4, <1>5 DEF ShmInv

\* Every step of a daemon or an application keeps ShmInv.
LEMMA NextInv == ShmInv /\ [Next]_vars => ShmInv'
<1> SUFFICES ASSUME ShmInv, [Next]_vars  PROVE ShmInv'
  OBVIOUS
<1>1. CASE UNCHANGED vars
  BY <1>1 DEF vars, ShmInv, TypeOK, NameOrder, DaemonInv, AppInv, AppOK, PairedObjects
<1>2. ASSUME NEW d \in Daemons, NEW n \in Names,
             \/ Create(d, n) \/ CreateExists(d, n) \/ CreateMap(d, n)
             \/ CreateTruncate(d, n) \/ Destroy(d, n)
      PROVE  ShmInv'
  BY <1>2, CreateInv, CreateExistsInv, CreateMapInv, CreateTruncateInv, DestroyInv
<1>3. ASSUME NEW d \in Daemons,
             \/ Build(d) \/ WriteLayout(d) \/ DpdkInit(d) \/ LeaveLoop(d)
             \/ EalInit(d) \/ CreateFails(d) \/ Sigint(d) \/ KillDaemon(d)
      PROVE  ShmInv'
  BY <1>3, BuildInv, WriteLayoutInv, DpdkInitInv, LeaveLoopInv, EalInitInv,
     CreateFailsInv, SigintInv, KillDaemonInv
<1>4. ASSUME NEW a \in Apps, NEW n \in Names,
             Attach(a, n) \/ AttachTruncate(a, n) \/ AttachMap(a, n)
      PROVE  ShmInv'
  BY <1>4, AttachInv, AttachTruncateInv, AttachMapInv
<1>5. ASSUME NEW a \in Apps,
             AppStart(a) \/ ReadLayout(a) \/ AttachFails(a) \/ AppEnds(a)
      PROVE  ShmInv'
  BY <1>5, AppStartInv, ReadLayoutInv, AttachFailsInv, AppEndsInv
<1> QED  BY <1>1, <1>2, <1>3, <1>4, <1>5 DEF Next, DaemonStep, AppStep

\* ShmInv holds throughout, for any sets of daemons and applications.
THEOREM ShmInvariant == Spec => []ShmInv
<1> QED  BY InitInv, NextInv, PTL DEF Spec

\* A ktsnd in its main loop can be reached under both names of shm_open,
\* whatever other starts and exits of ktsnd go on.
THEOREM DaemonReachable == Spec => []Reachable
<1>1. ShmInv => Reachable
  BY DEF ShmInv, DaemonInv, Reachable, Names, HasData, HasCtrl
<1> QED  BY <1>1, ShmInvariant, PTL

\* Clean exits and refused starts of ktsnd, overlapping as they may, leave no
\* name behind that would refuse the next start.
THEOREM NamesReleased == Spec => []RestartPossible
<1>1. ShmInv => RestartPossible
  <2> SUFFICES ASSUME ShmInv, ~mishap, NEW n \in Names,
                      \A d \in Daemons : pc[d] \in {"off", "failed", "done"}
               PROVE  bound[n] = None
    BY DEF RestartPossible
  <2>1. bound["data"] = None
    BY DEF ShmInv, TypeOK, DaemonInv, Object, Names, HasData, HasCtrl
  <2> QED  BY <2>1 DEF ShmInv, NameOrder, Names
<1> QED  BY <1>1, ShmInvariant, PTL

\* No process uses shared memory beyond the end of its object, in whatever
\* order creators and attachers call ftruncate.
THEOREM NoAccessBeyondObject == Spec => []InsideObject
<1>1. ShmInv => InsideObject
  BY DEF ShmInv, DaemonInv, AppInv, AppOK, InsideObject, HasData, HasCtrl
<1> QED  BY <1>1, ShmInvariant, PTL

\* What an application takes from the layout is usable, when it finds it: the
\* memories are of one daemon, or of one that had come past its build.
THEOREM LayoutSafe == Spec => []LayoutUsable
<1>1. ShmInv => LayoutUsable
  <2> SUFFICES ASSUME ShmInv, NEW a \in Apps
               PROVE  /\ seen[a] # {} => built[fd["data"][a]]
                      /\ pc[a] = "main" /\ a \notin early => seen[a] = 1..NOffsets
    BY DEF LayoutUsable
  <2> DEFINE data == fd["data"][a]
             ctrl == fd["ctrl"][a]
  <2>1. ASSUME seen[a] # {}  PROVE built[data]
    <3>1. ctrl # None /\ data # None /\ layout[ctrl] > 0
      BY <2>1 DEF ShmInv, AppInv, AppOK
    <3>2. data \in Daemons /\ ctrl \in Daemons
      BY <3>1 DEF ShmInv, TypeOK, Names, Object
    <3>3. CASE ctrl = data
      BY <3>1, <3>2, <3>3 DEF ShmInv, DaemonInv
    <3>4. CASE ctrl # data
      BY <3>1, <3>2, <3>4 DEF ShmInv, DaemonInv, PairedObjects
    <3> QED  BY <3>3, <3>4
  <2>2. ASSUME pc[a] = "main", a \notin early  PROVE seen[a] = 1..NOffsets
    BY <2>2 DEF ShmInv, AppInv, AppOK
  <2> QED  BY <2>1, <2>2
<1> QED  BY <1>1, ShmInvariant, PTL

-----------------------------------------------------------------------------
(***************************************************************************)
(* The pages                                                               *)
(***************************************************************************)
FreePages == {i \in Pages : mask[i] = 1}

(***************************************************************************)
(* Arithmetic                                                              *)
(***************************************************************************)

\* A request for at least one byte needs at least one page.
LEMMA NeedPositive ==
    ASSUME NEW bytes \in Nat \ {0}
    PROVE  PagesNeeded(bytes) \in Nat \ {0}
<1> DEFINE q == bytes \div PageSize
           r == bytes % PageSize
<1>1. /\ q \in Int /\ r \in Int
      /\ bytes = PageSize * q + r
      /\ 0 <= r /\ r < PageSize
  BY AllocAssumption
<1>2. q >= 0
  BY AllocAssumption, SMT
<1>3. r = 0 => q # 0
  BY <1>1, AllocAssumption
<1> QED  BY <1>1, <1>2, <1>3 DEF PagesNeeded

\* Inside the list, following next is counting up: the circular link of the
\* last entry is not taken.
LEMMA WalkIsSpan ==
    ASSUME NEW i \in Pages, NEW k \in Nat \ {0}, i + k <= PageCount
    PROVE  Walk(i, k) = Span(i, k)
<1>1. \A d \in 0..(k - 1) : (i + d) % PageCount = i + d
  BY AllocAssumption DEF Pages
<1>2. Walk(i, k) = {i + d : d \in 0..(k - 1)}
  BY <1>1 DEF Walk
<1>3. ASSUME NEW j \in Span(i, k) PROVE j \in {i + d : d \in 0..(k - 1)}
  <2>1. /\ j - i \in 0..(k - 1)
        /\ j = i + (j - i)
    BY <1>3, AllocAssumption DEF Span, Pages
  <2> QED  BY <2>1
<1>4. ASSUME NEW d \in 0..(k - 1) PROVE i + d \in Span(i, k)
  BY AllocAssumption DEF Span, Pages
<1> QED  BY <1>2, <1>3, <1>4

\* Sets of pages are finite.
LEMMA PagesFinite == \A S \in SUBSET Pages : IsFiniteSet(S) /\ Cardinality(S) \in Nat
<1>1. IsFiniteSet(Pages)
  BY FS_Interval, AllocAssumption DEF Pages
<1> QED  BY <1>1, FS_Subset, FS_CardinalityType

\* A span has as many pages as its length says.
LEMMA SpanSize ==
    ASSUME NEW i \in Pages, NEW k \in Nat \ {0}
    PROVE  IsFiniteSet(Span(i, k)) /\ Cardinality(Span(i, k)) = k
<1>1. i \in Int /\ i + k - 1 \in Int /\ ~(i > i + k - 1)
  BY AllocAssumption DEF Pages
<1>2. /\ IsFiniteSet(i..(i + k - 1))
      /\ Cardinality(i..(i + k - 1)) = (i + k - 1) - i + 1
  BY <1>1, FS_Interval
<1>3. (i + k - 1) - i + 1 = k
  BY <1>1
<1> QED  BY <1>2, <1>3 DEF Span


\* A run of free pages is no longer than the number of free pages.
LEMMA RoomFits ==
    ASSUME AllocTypeOK, NEW i \in Pages, NEW k \in Nat \ {0}, Room(i, k)
    PROVE  /\ i + k <= PageCount
           /\ Span(i, k) \subseteq FreePages
           /\ k <= Cardinality(FreePages)
<1>1. \A d \in 0..(k - 1) : i + d < PageCount /\ mask[i + d] = 1
  BY DEF Room, FreeAt
<1>2. i + k <= PageCount
  <2>1. k - 1 \in 0..(k - 1)
    OBVIOUS
  <2>2. i + (k - 1) < PageCount
    BY <1>1, <2>1
  <2> QED  BY <2>2, AllocAssumption DEF Pages
<1>3. ASSUME NEW j \in Span(i, k) PROVE j \in FreePages
  <2>1. j - i \in 0..(k - 1) /\ i + (j - i) = j /\ j \in Int /\ j >= 0
    BY AllocAssumption DEF Span, Pages
  <2>2. j < PageCount /\ mask[j] = 1
    BY <1>1, <2>1
  <2> QED  BY <2>1, <2>2, AllocAssumption DEF FreePages, Pages
<1>4. IsFiniteSet(FreePages) /\ Cardinality(FreePages) \in Nat
  BY PagesFinite DEF FreePages
<1>5. Cardinality(Span(i, k)) <= Cardinality(FreePages)
  BY <1>3, <1>4, FS_Subset
<1> QED  BY <1>2, <1>3, <1>5, SpanSize

(***************************************************************************)
(* The invariant holds at the start and every action keeps it.             *)
(***************************************************************************)

\* kt_page_allocator_init establishes the invariant.
LEMMA AllocFirst == AllocInit => AllocInv
<1> SUFFICES ASSUME AllocInit PROVE AllocInv
  OBVIOUS
<1>1. AllocTypeOK
  BY AllocAssumption DEF AllocInit, AllocTypeOK, Pages
<1>2. BlocksApart /\ BookExact
  BY DEF AllocInit, BlocksApart, BookExact, Pages
<1>3. PageFreeExact
  <2>1. {i \in Pages : mask[i] = 1} = Pages
    BY DEF AllocInit
  <2>2. Cardinality(0..(PageCount - 1)) = PageCount
    BY FS_Interval, AllocAssumption
  <2> QED  BY <2>1, <2>2 DEF AllocInit, PageFreeExact, Pages
<1>4. SearchInv /\ NullMeansNoRoom
  BY AllocAssumption DEF AllocInit, SearchInv, NullMeansNoRoom, Null
<1> QED  BY <1>1, <1>2, <1>3, <1>4 DEF AllocInv

\* A refused request leaves no run with room: page_free is exact.
LEMMA AllocStartStep ==
    ASSUME AllocInv, NEW bytes \in Requests, AllocStart(bytes)
    PROVE  AllocInv'
<1>1. need' \in Nat \ {0}
  BY NeedPositive, AllocAssumption DEF AllocStart
<1>2. AllocTypeOK'
  BY <1>1 DEF AllocInv, AllocTypeOK, AllocStart, book
<1>3. BlocksApart' /\ BookExact' /\ PageFreeExact'
  BY DEF AllocInv, BlocksApart, BookExact, PageFreeExact, AllocStart, book, Covered
<1>4. SearchInv'
  BY AllocAssumption DEF SearchInv, AllocStart
<1>5. NullMeansNoRoom'
  <2> SUFFICES ASSUME ret' = Null, NEW i \in Pages, Room(i, need') PROVE FALSE
    BY DEF NullMeansNoRoom, Room, FreeAt, AllocStart, book
  <2>1. page_free < need'
    BY AllocAssumption DEF AllocStart, Null
  <2>2. need' <= Cardinality(FreePages)
    BY <1>1, RoomFits DEF AllocInv
  <2>3. page_free = Cardinality(FreePages)
    BY DEF AllocInv, PageFreeExact, FreePages
  <2> QED  BY <1>1, <2>1, <2>2, <2>3 DEF AllocInv, AllocTypeOK
<1> QED  BY <1>2, <1>3, <1>4, <1>5 DEF AllocInv

\* A round that meets a taken page rules out every start up to it.
LEMMA SearchSkipStep ==
    ASSUME AllocInv, NEW i \in Pages, NEW d \in 1..(need - 1), SearchSkip(i, d)
    PROVE  AllocInv'
<1> USE DEF SearchSkip, book
<1>1. i \in Nat /\ d \in Nat /\ need \in Nat /\ index \in Nat /\ PageCount \in Nat
  BY AllocAssumption DEF AllocInv, AllocTypeOK, Pages
<1>2. AllocTypeOK'
  BY <1>1 DEF AllocInv, AllocTypeOK
<1>3. BlocksApart' /\ BookExact' /\ PageFreeExact'
  BY DEF AllocInv, BlocksApart, BookExact, PageFreeExact, Covered
<1>4. i + d <= PageCount
  <2>1. CASE d = 1
    BY <2>1, <1>1 DEF Pages
  <2>2. CASE d > 1
    <3>1. d - 1 \in 1..(d - 1)
      BY <2>2, <1>1
    <3>2. FreeAt(i + (d - 1))
      BY <3>1
    <3>3. i + (d - 1) < PageCount
      BY <3>2 DEF FreeAt
    <3> QED  BY <3>3, <1>1
  <2> QED  BY <2>1, <2>2, <1>1
<1>5. ASSUME NEW j \in 0..(i + d - 1), Room(j, need) PROVE FALSE
  <2>1. CASE j < index
    BY <2>1, <1>1, <1>5 DEF AllocInv, SearchInv
  <2>2. CASE index <= j /\ j < i
    <3>1. mask[j] = 0
      BY <2>2, <1>1 DEF FirstFree
    <3>2. FreeAt(j + 0)
      BY <1>1, <1>5 DEF Room
    <3> QED  BY <3>1, <3>2, <1>1 DEF FreeAt
  <2>3. CASE i <= j
    <3>1. (i + d) - j \in 0..(need - 1) /\ j + ((i + d) - j) = i + d
      BY <2>3, <1>1
    <3>2. FreeAt(i + d)
      BY <3>1, <1>5 DEF Room
    <3>3. ~FreeAt(i + d)
      OBVIOUS
    <3> QED  BY <3>2, <3>3
  <2> QED  BY <2>1, <2>2, <2>3, <1>1
<1>6. SearchInv'
  <2>1. index' = i + d /\ need' = need
    OBVIOUS
  <2>2. ASSUME NEW j \in 0..(i + d - 1) PROVE ~Room(j, need)'
    <3>1. Room(j, need)' <=> Room(j, need)
      BY DEF Room, FreeAt
    <3> QED  BY <3>1, <1>5
  <2> HIDE DEF SearchSkip
  <2>3. 0..(index' - 1) = 0..(i + d - 1) /\ index' <= PageCount
    BY <2>1, <1>1, <1>4
  <2>4. \A j \in 0..(index' - 1) : ~Room(j, need)'
    BY <2>2, <2>3, Zenon
  <2> QED  BY <2>3, <2>4, Zenon DEF SearchInv
<1>7. NullMeansNoRoom'
  BY DEF AllocInv, NullMeansNoRoom, Room, FreeAt
<1> QED  BY <1>2, <1>3, <1>6, <1>7 DEF AllocInv

\* A search that runs out of free pages has ruled out every start.
LEMMA SearchFailStep ==
    ASSUME AllocInv, SearchFail
    PROVE  AllocInv'
<1> USE DEF SearchFail, book
<1>1. AllocTypeOK' /\ SearchInv'
  BY DEF AllocInv, AllocTypeOK, SearchInv
<1>2. BlocksApart' /\ BookExact' /\ PageFreeExact'
  BY DEF AllocInv, BlocksApart, BookExact, PageFreeExact, Covered
<1>3. ASSUME NEW i \in Pages, Room(i, need) PROVE FALSE
  <2>1. i \in Nat /\ index \in Nat /\ need \in Nat \ {0} /\ PageCount \in Nat
    BY AllocAssumption DEF AllocInv, AllocTypeOK, Pages
  <2>2. CASE i < index
    BY <2>1, <2>2, <1>3 DEF AllocInv, SearchInv
  <2>3. CASE index <= i
    <3>1. mask[i] = 0
      BY <2>1, <2>3 DEF Pages
    <3>2. FreeAt(i + 0)
      BY <2>1, <1>3 DEF Room
    <3> QED  BY <3>1, <3>2, <2>1 DEF FreeAt
  <2> QED  BY <2>1, <2>2, <2>3
<1>4. NullMeansNoRoom'
  BY <1>3 DEF NullMeansNoRoom, Room, FreeAt
<1> QED  BY <1>1, <1>2, <1>4 DEF AllocInv

\* Booking a block of free pages keeps the books exact.
LEMMA AllocTakeStep ==
    ASSUME AllocInv, NEW i \in Pages, AllocTake(i)
    PROVE  AllocInv'
<1> DEFINE new == [at |-> i, len |-> need]
           S == Span(i, need)
<1>1. /\ i \in Nat /\ i < PageCount /\ PageCount \in Nat \ {0}
      /\ need \in Nat \ {0} /\ index \in Nat
  BY AllocAssumption DEF AllocInv, AllocTypeOK, Pages
<1>2. Room(i, need)
  <2> SUFFICES ASSUME NEW d \in 0..(need - 1) PROVE FreeAt(i + d)
    BY DEF Room
  <2>1. CASE d = 0
    BY <2>1, <1>1 DEF AllocTake, FirstFree, FreeAt
  <2>2. CASE d > 0
    BY <2>2, <1>1 DEF AllocTake
  <2> QED  BY <2>1, <2>2
<1>3. /\ i + need <= PageCount
      /\ S \subseteq FreePages
  BY <1>1, <1>2, RoomFits DEF AllocInv
<1>4. flag' = Set(flag, S, 0) /\ mask' = Set(mask, S, 0)
  BY <1>1, <1>3, WalkIsSpan DEF AllocTake
<1>5. new \in Block /\ blocks' = blocks \cup {new}
  BY <1>1, <1>3 DEF AllocTake, Block
<1>6. \A j \in S : j \in Pages /\ mask[j] = 1
  BY <1>3 DEF FreePages
<1>7. ASSUME NEW c \in blocks
      PROVE  c.at + c.len <= i \/ i + need <= c.at
  <2>1. /\ c.at \in Nat /\ c.at < PageCount /\ c.len \in Nat \ {0}
    BY <1>1 DEF AllocInv, AllocTypeOK, Block, Pages
  <2>2. ASSUME NEW j \in S PROVE ~Covered(c, j)
    <3>1. j \in Pages /\ mask[j] # 0
      BY <1>6
    <3> QED  BY <3>1 DEF AllocInv, BookExact
  <2>3. CASE i <= c.at /\ c.at < i + need
    <3>1. c.at \in S
      BY <2>1, <2>3, <1>1 DEF Span
    <3>2. Covered(c, c.at)
      BY <2>1 DEF Covered
    <3> QED  BY <3>1, <3>2, <2>2
  <2>4. CASE c.at < i /\ i < c.at + c.len
    <3>1. i \in S
      BY <1>1 DEF Span
    <3>2. Covered(c, i)
      BY <2>4, <2>1, <1>1 DEF Covered
    <3> QED  BY <3>1, <3>2, <2>2
  <2> QED  BY <2>1, <2>3, <2>4, <1>1
<1>8. AllocTypeOK'
  <2>1. mask' \in [Pages -> {0, 1}] /\ flag' \in [Pages -> {0, 1}]
    BY <1>4 DEF AllocInv, AllocTypeOK, Set
  <2>2. reserved' \in [Pages -> 0..PageCount]
    BY <1>1, <1>3 DEF AllocInv, AllocTypeOK, AllocTake
  <2>3. blocks' \subseteq Block
    BY <1>5 DEF AllocInv, AllocTypeOK
  <2> QED  BY <2>1, <2>2, <2>3, <1>1 DEF AllocInv, AllocTypeOK, AllocTake
<1>9. BlocksApart'
  <2>1. \A b \in blocks' : b.at + b.len <= PageCount
    BY <1>3, <1>5 DEF AllocInv, BlocksApart
  <2>2. ASSUME NEW b \in blocks', NEW c \in blocks', b # c
        PROVE  b.at + b.len <= c.at \/ c.at + c.len <= b.at
    <3>1. CASE b \in blocks /\ c \in blocks
      BY <3>1, <2>2 DEF AllocInv, BlocksApart
    <3>2. CASE b = new /\ c \in blocks
      BY <3>2, <1>7
    <3>3. CASE c = new /\ b \in blocks
      BY <3>3, <1>7
    <3> QED  BY <3>1, <3>2, <3>3, <2>2, <1>5
  <2> QED  BY <2>1, <2>2 DEF BlocksApart
<1>10. BookExact'
  <2>1. ASSUME NEW j \in Pages
        PROVE  mask'[j] = 0 <=> \E b \in blocks' : Covered(b, j)
    <3>1. Covered(new, j) <=> j \in S
      BY <1>1, AllocAssumption DEF Covered, Span, Pages
    <3>2. mask'[j] = IF j \in S THEN 0 ELSE mask[j]
      BY <1>4 DEF Set
    <3>3. mask[j] = 0 <=> \E b \in blocks : Covered(b, j)
      BY DEF AllocInv, BookExact
    <3> QED  BY <3>1, <3>2, <3>3, <1>5
  <2>2. flag' = mask'
    BY <1>4 DEF AllocInv, BookExact
  <2>3. ASSUME NEW b \in blocks' PROVE reserved'[b.at] = b.len
    <3>1. CASE b = new
      BY <3>1 DEF AllocInv, AllocTypeOK, AllocTake
    <3>2. CASE b \in blocks
      <4>1. b.at \in Pages /\ b.at \in Nat /\ b.len \in Nat \ {0}
        BY <3>2, <1>1 DEF AllocInv, AllocTypeOK, Block, Pages
      <4>2. b.at # i
        BY <4>1, <3>2, <1>1, <1>7
      <4>3. reserved'[b.at] = reserved[b.at]
        BY <4>1, <4>2 DEF AllocInv, AllocTypeOK, AllocTake
      <4> QED  BY <4>3, <3>2 DEF AllocInv, BookExact
    <3> QED  BY <3>1, <3>2, <1>5
  <2> QED  BY <2>1, <2>2, <2>3 DEF BookExact, Covered
<1>11. PageFreeExact'
  <2>1. {j \in Pages : mask'[j] = 1} = FreePages \ S
    BY <1>4 DEF FreePages, Set
  <2>2. IsFiniteSet(FreePages) /\ FreePages \cap S = S
    BY <1>3, PagesFinite DEF FreePages
  <2>3. Cardinality(FreePages \ S) = Cardinality(FreePages) - Cardinality(S)
    BY <2>2, FS_Difference
  <2>4. Cardinality(S) = need
    BY <1>1, SpanSize
  <2>5. page_free' = page_free - need /\ page_free = Cardinality(FreePages)
    BY DEF AllocInv, PageFreeExact, FreePages, AllocTake
  <2> QED  BY <2>1, <2>3, <2>4, <2>5 DEF PageFreeExact
<1>12. SearchInv' /\ NullMeansNoRoom'
  BY <1>1 DEF SearchInv, NullMeansNoRoom, AllocTake, Null
<1> QED  BY <1>8, <1>9, <1>10, <1>11, <1>12 DEF AllocInv

\* Freeing a block clears its pages and those of no other.
LEMMA FreeStep ==
    ASSUME AllocInv, NEW p \in Pages, Free(p)
    PROVE  AllocInv'
<1> PICK b \in blocks : b.at = p
  BY DEF Free
<1> DEFINE k == b.len
           S == Span(p, k)
<1>1. /\ p \in Nat /\ PageCount \in Nat \ {0}
      /\ k \in Nat \ {0} /\ p + k <= PageCount /\ reserved[p] = k
  BY AllocAssumption DEF AllocInv, AllocTypeOK, Block, Pages, BlocksApart, BookExact
<1>2. \A j \in Pages : Covered(b, j) <=> j \in S
  BY <1>1, AllocAssumption DEF Covered, Span, Pages
<1>3. S \subseteq Pages /\ p \in S
  BY <1>1, AllocAssumption DEF Span, Pages
<1>4. flag' = Set(flag, S, 1) /\ mask' = Set(mask, S, 1)
  <2>1. {p} \cup Walk(p, k) = S
    BY <1>1, <1>3, WalkIsSpan
  <2> QED  BY <2>1, <1>1 DEF Free
<1>5. ASSUME NEW c \in blocks, c # b
      PROVE  c.at # p /\ \A j \in S : ~Covered(c, j)
  <2>1. c.at \in Nat /\ c.len \in Nat \ {0}
    BY <1>1 DEF AllocInv, AllocTypeOK, Block, Pages
  <2>2. p + k <= c.at \/ c.at + c.len <= p
    BY <1>5 DEF AllocInv, BlocksApart
  <2> QED  BY <2>1, <2>2, <1>1 DEF Covered, Span
<1>6. blocks' = blocks \ {b}
  BY <1>5 DEF Free
<1>7. AllocTypeOK'
  <2>1. mask' \in [Pages -> {0, 1}] /\ flag' \in [Pages -> {0, 1}]
    BY <1>4 DEF AllocInv, AllocTypeOK, Set
  <2>2. reserved' \in [Pages -> 0..PageCount]
    BY <1>1 DEF AllocInv, AllocTypeOK, Free
  <2>3. page_free' \in Int
    BY <1>1 DEF AllocInv, AllocTypeOK, Free
  <2> QED  BY <2>1, <2>2, <2>3, <1>6 DEF AllocInv, AllocTypeOK, Free
<1>8. BlocksApart'
  BY <1>6 DEF AllocInv, BlocksApart
<1>9. BookExact'
  <2>1. ASSUME NEW j \in Pages
        PROVE  mask'[j] = 0 <=> \E c \in blocks' : Covered(c, j)
    <3>1. mask'[j] = IF j \in S THEN 1 ELSE mask[j]
      BY <1>4 DEF Set
    <3>2. mask[j] = 0 <=> \E c \in blocks : Covered(c, j)
      BY DEF AllocInv, BookExact
    <3>3. CASE j \in S
      BY <3>1, <3>3, <1>5, <1>6
    <3>4. CASE j \notin S
      BY <3>1, <3>2, <3>4, <1>2, <1>6
    <3> QED  BY <3>3, <3>4
  <2>2. flag' = mask'
    BY <1>4 DEF AllocInv, BookExact
  <2>3. ASSUME NEW c \in blocks' PROVE reserved'[c.at] = c.len
    <3>1. c \in blocks /\ c.at # p /\ c.at \in Pages
      BY <1>5, <1>6 DEF AllocInv, AllocTypeOK, Block
    <3>2. reserved'[c.at] = reserved[c.at]
      BY <3>1 DEF AllocInv, AllocTypeOK, Free
    <3> QED  BY <3>1, <3>2 DEF AllocInv, BookExact
  <2> QED  BY <2>1, <2>2, <2>3 DEF BookExact, Covered
<1>10. PageFreeExact'
  <2>1. {j \in Pages : mask'[j] = 1} = FreePages \cup S
    BY <1>3, <1>4 DEF FreePages, Set
  <2>2. FreePages \cap S = {}
    BY <1>2 DEF FreePages, AllocInv, BookExact
  <2>3. IsFiniteSet(FreePages) /\ Cardinality(FreePages) \in Nat
    BY PagesFinite DEF FreePages
  <2>4. IsFiniteSet(S) /\ Cardinality(S) = k
    BY <1>1, SpanSize
  <2>5. Cardinality(FreePages \cup S) = Cardinality(FreePages) + k - 0
    BY <2>2, <2>3, <2>4, FS_Union, FS_EmptySet
  <2>6. page_free' = page_free + k /\ page_free = Cardinality(FreePages)
    BY <1>1 DEF AllocInv, PageFreeExact, FreePages, Free
  <2>7. Cardinality(FreePages) + k - 0 = Cardinality(FreePages) + k
    BY <2>3, <1>1
  <2> QED  BY <2>1, <2>5, <2>6, <2>7, Zenon DEF PageFreeExact
<1>11. SearchInv' /\ NullMeansNoRoom'
  BY AllocAssumption DEF SearchInv, NullMeansNoRoom, Free, Null
<1> QED  BY <1>7, <1>8, <1>9, <1>10, <1>11 DEF AllocInv

\* The invariant depends on the variables only.
LEMMA AllocIdle == ASSUME AllocInv, UNCHANGED allocVars PROVE AllocInv'
BY DEF AllocInv, AllocTypeOK, BlocksApart, BookExact, PageFreeExact, SearchInv,
       NullMeansNoRoom, Room, FreeAt, Covered, allocVars, book

\* Every step keeps the invariant.
LEMMA AllocStep == AllocInv /\ [AllocNext]_allocVars => AllocInv'
<1> SUFFICES ASSUME AllocInv, [AllocNext]_allocVars PROVE AllocInv'
  OBVIOUS
<1>1. ASSUME NEW bytes \in Requests, AllocStart(bytes) PROVE AllocInv'
  BY <1>1, AllocStartStep
<1>2. ASSUME NEW i \in Pages, NEW d \in 1..(need - 1), SearchSkip(i, d)
      PROVE  AllocInv'
  BY <1>2, SearchSkipStep
<1>3. CASE SearchFail
  BY <1>3, SearchFailStep
<1>4. ASSUME NEW i \in Pages, AllocTake(i) PROVE AllocInv'
  BY <1>4, AllocTakeStep
<1>5. ASSUME NEW p \in Pages, Free(p) PROVE AllocInv'
  BY <1>5, FreeStep
<1>6. CASE UNCHANGED allocVars
  BY <1>6, AllocIdle
<1> QED  BY <1>1, <1>2, <1>3, <1>4, <1>5, <1>6 DEF AllocNext, Search

(***************************************************************************)
(* The theorems                                                            *)
(***************************************************************************)

\* The books of kt_alloc.c stay consistent with the blocks in use, and the
\* search never passes over a run with room.
THEOREM AllocInvariant == AllocSpec => []AllocInv
BY AllocFirst, AllocStep, PTL DEF AllocSpec

\* page_alloc_alloc never hands out a page that is part of a block in use.
THEOREM ApartCorrect == AllocSpec => []BlocksApart
<1>1. AllocInv => BlocksApart
  BY DEF AllocInv
<1> QED  BY <1>1, AllocInvariant, PTL

\* The mask, the flags and the reserved lengths agree with the blocks in use.
THEOREM BookCorrect == AllocSpec => []BookExact
<1>1. AllocInv => BookExact
  BY DEF AllocInv
<1> QED  BY <1>1, AllocInvariant, PTL

\* page_free counts the free pages.
THEOREM FreeCountCorrect == AllocSpec => []PageFreeExact
<1>1. AllocInv => PageFreeExact
  BY DEF AllocInv
<1> QED  BY <1>1, AllocInvariant, PTL

\* page_alloc_alloc returns NULL only when no run of free pages is long enough.
THEOREM NullCorrect == AllocSpec => []NullMeansNoRoom
<1>1. AllocInv => NullMeansNoRoom
  BY DEF AllocInv
<1> QED  BY <1>1, AllocInvariant, PTL

\* page_alloc_alloc places a block in the first run that has room for it.
THEOREM FirstFitCorrect == AllocSpec => FirstFit
<1>1. ASSUME AllocInv, NEW i \in Pages, AllocTake(i) PROVE TakesEarliest
  <2>0. \A b \in blocks' \ blocks : b.at = i /\ b.len = need
    BY <1>1 DEF AllocTake
  <2> SUFFICES ASSUME NEW j \in 0..(i - 1), Room(j, need) PROVE FALSE
    BY <2>0 DEF TakesEarliest
  <2>1. /\ i \in Nat /\ i < PageCount /\ need \in Nat \ {0}
        /\ index \in Nat /\ j \in Nat /\ j < i
    BY <1>1, AllocAssumption DEF AllocInv, AllocTypeOK, Pages
  <2>2. CASE j < index
    BY <2>1, <2>2, <1>1 DEF AllocInv, SearchInv, AllocTake
  <2>3. CASE index <= j
    <3>1. mask[j] = 0
      BY <2>1, <2>3, <1>1 DEF AllocTake, FirstFree
    <3>2. FreeAt(j + 0)
      BY <2>1 DEF Room
    <3> QED  BY <3>1, <3>2, <2>1 DEF FreeAt
  <2> QED  BY <2>1, <2>2, <2>3
<1>2. AllocInv /\ [AllocNext]_allocVars => [TakesEarliest]_allocVars
  <2> SUFFICES ASSUME AllocInv, [AllocNext]_allocVars PROVE TakesEarliest
    OBVIOUS
  <2>1. (\E i \in Pages : AllocTake(i)) \/ blocks' \subseteq blocks
    BY DEF AllocNext, Search, AllocStart, SearchSkip, SearchFail, Free, allocVars
  <2>2. CASE blocks' \subseteq blocks
    BY <2>2 DEF TakesEarliest
  <2>3. CASE \E i \in Pages : AllocTake(i)
    BY <2>3, <1>1
  <2> QED  BY <2>1, <2>2, <2>3
<1> QED  BY <1>2, AllocInvariant, PTL DEF AllocSpec, FirstFit

\* A round of the search loop that does not find its block moves the index on,
\* and never behind the last page: a call takes no more than page_count rounds.
SearchAdvances ==
    [][\A i \in Pages : \A d \in 1..(need - 1) :
           SearchSkip(i, d) => index < index' /\ index' <= PageCount]_allocVars

\* Every search of page_alloc_alloc ends after page_count rounds at most.
THEOREM SearchBounded == AllocSpec => SearchAdvances
<1>1. ASSUME AllocInv, NEW i \in Pages, NEW d \in 1..(need - 1), SearchSkip(i, d)
      PROVE  index < index' /\ index' <= PageCount
  <2>1. /\ i \in Nat /\ i < PageCount /\ PageCount \in Nat /\ index \in Nat
        /\ need \in Nat /\ d \in Nat \ {0} /\ d < need
    BY <1>1, AllocAssumption DEF AllocInv, AllocTypeOK, Pages
  <2>2. index <= i /\ index' = i + d
    BY <1>1 DEF SearchSkip, FirstFree
  <2>3. CASE d = 1
    BY <2>1, <2>2, <2>3
  <2>4. CASE d > 1
    <3>1. d - 1 \in 1..(d - 1)
      BY <2>1, <2>4
    <3>2. i + (d - 1) < PageCount
      BY <1>1, <3>1 DEF SearchSkip, FreeAt
    <3> QED  BY <2>1, <2>2, <3>2
  <2> QED  BY <2>1, <2>3, <2>4
<1>2. AllocInv /\ [AllocNext]_allocVars =>
          [\A i \in Pages : \A d \in 1..(need - 1) :
              SearchSkip(i, d) => index < index' /\ index' <= PageCount]_allocVars
  BY <1>1
<1> QED  BY <1>2, AllocInvariant, PTL DEF AllocSpec, SearchAdvances

\* The pages in use are the first ones of the list.
Packed == \A i \in Pages : mask[i] = 0 <=> i < PageCount - page_free

\* The blocks in use end there.
UsesFirst == \A b \in blocks : b.at + b.len <= PageCount - page_free

\* Nothing is freed, as in ktsnd, which keeps its four blocks until it exits.
NothingFreed == [][\A p \in Pages : ~Free(p)]_allocVars

\* The search comes to the first free page when the pages in use are packed.
LEMMA PackedTake ==
    ASSUME AllocInv, Packed, NEW i \in Pages, AllocTake(i)
    PROVE  i = PageCount - page_free /\ Packed'
<1> DEFINE m == PageCount - page_free
<1>1. /\ i \in Nat /\ i < PageCount /\ PageCount \in Nat /\ index \in Nat
      /\ need \in Nat \ {0} /\ page_free \in Int /\ mask \in [Pages -> {0, 1}]
  BY AllocAssumption DEF AllocInv, AllocTypeOK, Pages
<1>2. page_free \in 0..PageCount
  <2>1. IsFiniteSet(Pages) /\ Cardinality(Pages) = PageCount
    BY <1>1, FS_Interval DEF Pages
  <2>2. {j \in Pages : mask[j] = 1} \subseteq Pages
    OBVIOUS
  <2>3. /\ Cardinality({j \in Pages : mask[j] = 1}) \in Nat
        /\ Cardinality({j \in Pages : mask[j] = 1}) <= PageCount
    BY <2>1, <2>2, FS_Subset, FS_CardinalityType
  <2> QED  BY <1>1, <2>3 DEF AllocInv, PageFreeExact
<1>3. m \in Nat /\ m <= PageCount
  BY <1>1, <1>2
<1>4. mask[i] = 1 /\ m <= i
  <2>1. mask[i] = 1
    BY DEF AllocTake, FirstFree
  <2> QED  BY <1>1, <1>3, <2>1 DEF Packed
<1>5. \A e \in 0..(need - 1) : FreeAt(i + e)
  <2>1. \A e \in 1..(need - 1) : FreeAt(i + e)
    BY DEF AllocTake
  <2>2. FreeAt(i + 0)
    BY <1>1, <1>4 DEF FreeAt
  <2> QED  BY <1>1, <2>1, <2>2
<1>6. Room(m, need)
  <2> SUFFICES ASSUME NEW e \in 0..(need - 1)  PROVE FreeAt(m + e)
    BY DEF Room
  <2>1. i + e < PageCount
    BY <1>5 DEF FreeAt
  <2>2. m + e \in Pages /\ ~(m + e < m)
    BY <1>1, <1>3, <1>4, <2>1 DEF Pages
  <2>3. mask[m + e] = 1
    BY <1>1, <2>2 DEF Packed
  <2> QED  BY <2>2, <2>3, <1>1 DEF FreeAt, Pages
<1>7. i = m
  <2> SUFFICES ASSUME m < i  PROVE FALSE
    BY <1>1, <1>3, <1>4
  <2>1. CASE m < index
    BY <1>1, <1>3, <1>6, <2>1 DEF AllocInv, SearchInv, AllocTake
  <2>2. CASE index <= m
    <3>1. mask[m] = 0
      BY <1>1, <1>3, <2>2 DEF AllocTake, FirstFree
    <3>2. FreeAt(m + 0)
      BY <1>1, <1>6 DEF Room
    <3> QED  BY <1>3, <3>1, <3>2 DEF FreeAt
  <2> QED  BY <1>1, <1>3, <2>1, <2>2
<1>8. /\ mask' = [j \in Pages |-> IF j \in i..(i + need - 1) THEN 0 ELSE mask[j]]
      /\ page_free' = page_free - need
  BY DEF AllocTake, Set, Span
<1>9. ASSUME NEW j \in Pages  PROVE mask'[j] = 0 <=> j < PageCount - page_free'
  <2>1. j \in Nat /\ (j \in i..(i + need - 1) <=> m <= j /\ j < m + need)
    BY <1>1, <1>3, <1>7 DEF Pages
  <2>2. PageCount - page_free' = m + need
    BY <1>1, <1>8
  <2>3. mask[j] = 0 <=> j < m
    BY DEF Packed
  <2>4. mask'[j] = IF j \in i..(i + need - 1) THEN 0 ELSE mask[j]
    BY <1>8
  <2> HIDE DEF m
  <2>5. CASE j \in i..(i + need - 1)
    BY <2>1, <2>2, <2>4, <2>5
  <2>6. CASE j \notin i..(i + need - 1)
    BY <1>1, <1>3, <2>1, <2>2, <2>3, <2>4, <2>6
  <2> QED  BY <2>5, <2>6
<1> QED  BY <1>7, <1>9 DEF Packed

\* As long as nothing is freed, blocks are packed from the first page on, with
\* no page lost between them.  So the pages behind the region, which
\* kt_page_allocator_init counts by mistake, are handed out only when all
\* others are taken.
THEOREM StartupPacked == AllocSpec /\ NothingFreed => [](Packed /\ UsesFirst)
<1>1. AllocInit => Packed
  <2> SUFFICES ASSUME AllocInit, NEW i \in Pages
               PROVE  mask[i] = 0 <=> i < PageCount - page_free
    BY DEF Packed
  <2>1. mask[i] = 1 /\ page_free = PageCount
    BY DEF AllocInit
  <2> QED  BY <2>1, AllocAssumption DEF Pages
<1>2. ASSUME AllocInv, Packed, [AllocNext]_allocVars, [\A p \in Pages : ~Free(p)]_allocVars
      PROVE  Packed'
  <2>1. CASE \E i \in Pages : AllocTake(i)
    BY <1>2, <2>1, PackedTake
  <2>2. CASE ~\E i \in Pages : AllocTake(i)
    <3>1. mask' = mask /\ page_free' = page_free
      BY <1>2, <2>2 DEF AllocNext, Search, AllocStart, SearchSkip, SearchFail, allocVars,
                        book
    <3> QED  BY <1>2, <3>1 DEF Packed
  <2> QED  BY <2>1, <2>2
<1>3. ASSUME AllocInv, Packed, NEW b \in blocks
      PROVE  b.at + b.len <= PageCount - page_free
  <2>1. /\ b.at \in Nat /\ b.len \in Nat \ {0} /\ b.at + b.len <= PageCount
        /\ PageCount \in Nat /\ page_free \in Int
    BY <1>3, AllocAssumption DEF AllocInv, AllocTypeOK, BlocksApart, Block, Pages
  <2> DEFINE j == b.at + b.len - 1
  <2>2. j \in Pages /\ Covered(b, j)
    BY <2>1 DEF Pages, Covered
  <2>3. mask[j] = 0
    BY <1>3, <2>2 DEF AllocInv, BookExact
  <2>4. j < PageCount - page_free
    BY <1>3, <2>2, <2>3 DEF Packed
  <2> QED  BY <2>1, <2>4
<1>4. AllocInv /\ Packed => UsesFirst
  BY <1>3 DEF UsesFirst
<1> QED  BY <1>1, <1>2, <1>4, AllocInvariant, PTL DEF AllocSpec, NothingFreed

=============================================================================
