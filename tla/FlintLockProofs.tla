-------------------------- MODULE FlintLockProofs --------------------------
(***************************************************************************)
(* One writer at a time, for any number of processes and databases, any    *)
(* mixture of OFD locks and helper processes, and any faults: the order of *)
(* the steps of FlintLock::lock() and of the helper suffices.              *)
(*                                                                         *)
(* OneWriter is not inductive.  That a writer keeps the lock follows from  *)
(* who has which descriptor: the OFD lock lives as long as the lock file   *)
(* is open in its own process and nowhere else (Apart, OfdKept); the POSIX *)
(* lock lives as long as its helper, which goes on while the other end of  *)
(* its socket is held (PosixKept, Stages); and at each place in lock() and *)
(* release() it is known which of these the call has (Stage).              *)
(***************************************************************************)
EXTENDS FlintLock, TLAPS

(* Provers for the leaves that do not name one.                            *)
USE ZenonT(8), SMTT(30)

Files == OnLockFile \cup {ParentEnd(o) : o \in Objs} \cup {ChildEnd(o) : o \in Objs}

PCs == {"idle", "open_lockfile", "ofd_setlk", "socketpair", "fork", "parent_close",
        "parent_read", "waitpid", "tables", "open", "release", "kill", "test"}

\* The kernel's state.
KType == [fds : [Everyone -> SUBSET Files],
          posix : {None} \cup {Child(o) : o \in Objs},
          ofd : {None} \cup {LockFile(o) : o \in Objs}]

ChildPCs == {"none", "start", "closefrom", "setlk", "write", "cat", "exited"}

\* Of the calls and the helpers only the places they are at matter here.
PlacesOK(f, places) ==
    /\ f = [o \in Objs |-> f[o]]
    /\ \A o \in Objs : "pc" \in DOMAIN f[o] /\ f[o].pc \in places

LTypeOK ==
    /\ k \in KType
    /\ PlacesOK(obj, PCs) /\ PlacesOK(child, ChildPCs)
    /\ sent \subseteq Objs /\ alive \subseteq Procs

\* A writer whose lock is an OFD lock.
HoldsByOfd(o) ==
    /\ Owner[o] \in alive /\ Owner[o] \in OfdProcs
    /\ obj[o].pc \in {"tables", "open", "release"}

\* Such a writer has the lock, and the lock file open; nobody else has it.
OfdKept ==
    \A o \in Objs :
        /\ k.ofd = LockFile(o) <=> HoldsByOfd(o)
        /\ HoldsByOfd(o) => LockFile(o) \in k.fds[App(Owner[o])]

\* A descriptor stays with the process that opened it and the helpers it forks.
Apart ==
    \A o \in Objs : LET d == LockFile(o) IN
        /\ \A p \in Procs : d \in k.fds[App(p)] => Owner[o] = p
        /\ \A p \in Procs : d \notin k.fds[Worker(p)]
        /\ \A u \in Objs : d \in k.fds[Child(u)]
                              => Owner[o] = Owner[u] /\ Owner[u] \notin OfdProcs

\* The POSIX lock is that of a helper that has reported it or is about to;
\* a helper has the lock file open all its life.
PosixKept ==
    \A o \in Objs :
        /\ k.posix = Child(o) <=> child[o].pc \in {"write", "cat"}
        /\ child[o].pc \notin {"none", "exited"} => LockFile(o) \in k.fds[Child(o)]

\* The kernel grants one of the two kinds at a time.
InOneWay == k.posix = None \/ k.ofd = None

\* What a call has, by the place it is at.
Stage(o) ==
    LET pc == obj[o].pc IN
    /\ pc \in {"socketpair", "fork", "parent_close", "parent_read", "waitpid", "kill"}
           => Owner[o] \notin OfdProcs
    /\ pc = "ofd_setlk" => Owner[o] \in OfdProcs
    /\ pc \in {"ofd_setlk", "socketpair", "fork"} => LockFile(o) \in k.fds[App(Owner[o])]
    /\ pc \in {"fork", "parent_close", "parent_read"}
           => ParentEnd(o) \in k.fds[App(Owner[o])]
    /\ pc \in {"tables", "open", "release"} /\ Owner[o] \notin OfdProcs
           => ParentEnd(o) \in k.fds[App(Owner[o])] /\ child[o].pc = "cat"
    /\ pc \in {"idle", "open_lockfile", "ofd_setlk", "socketpair", "fork", "test"}
           => child[o].pc = "none" /\ o \notin sent
    /\ pc \in {"parent_close", "parent_read"} /\ o \in sent => child[o].pc = "cat"
    /\ pc = "kill" => child[o].pc \in {"cat", "exited"}
    /\ pc \in {"tables", "open", "release", "kill"} => o \notin sent

Stages == \A o \in Objs : Owner[o] \in alive => Stage(o)

\* With OFD locks there is no helper.
OfdAlone == \A o \in Objs : Owner[o] \in OfdProcs => child[o].pc = "none"

LInv == LTypeOK /\ OfdKept /\ Apart /\ PosixKept /\ InOneWay /\ Stages /\ OfdAlone

(* The processes there are.                                                *)
LEMMA Processes ==
    /\ \A o \in Objs : Owner[o] \in Procs /\ Child(o) \in Everyone
    /\ \A p \in Procs : App(p) \in Everyone /\ Worker(p) \in Everyone
BY ConstantsOK DEF App, Child, Worker, Everyone

(* Processes of different kinds, or of different owners, differ.           *)
LEMMA ProcessNames ==
    /\ \A o \in Objs : Child(o) # None
    /\ \A p \in Procs, o \in Objs : App(p) # Child(o) /\ Worker(p) # Child(o)
    /\ \A p, q \in Procs : (App(p) = App(q) => p = q) /\ App(p) # Worker(q)
    /\ \A o, u \in Objs : Child(o) = Child(u) => o = u
BY DEF None, App, Child, Worker

(* The descriptors of an object.                                           *)
LEMMA ObjectFiles ==
    /\ \A o \in Objs : {LockFile(o), TestFile(o), ParentEnd(o), ChildEnd(o)} \subseteq Files
    /\ \A o \in Objs : LockFile(o) \in OnLockFile
BY DEF OnLockFile, Files

(* Descriptors of different kinds, or of different objects, differ.        *)
LEMMA FileNames ==
    /\ \A o \in Objs : LockFile(o) # None
    /\ \A o, u \in Objs : /\ LockFile(o) = LockFile(u) => o = u
                          /\ ParentEnd(o) = ParentEnd(u) => o = u
                          /\ LockFile(o) # ParentEnd(u) /\ LockFile(o) # ChildEnd(u)
                          /\ LockFile(o) # TestFile(u) /\ ParentEnd(o) # ChildEnd(u)
                          /\ ParentEnd(o) # TestFile(u)
BY DEF None, LockFile, TestFile, ParentEnd, ChildEnd

(* What close() does: the descriptors go, a POSIX lock of this process     *)
(* goes with any descriptor of the lock file, an OFD lock with the last    *)
(* one.                                                                    *)
LEMMA Closing ==
    ASSUME k \in KType, NEW x \in Everyone, NEW D, k' = Closed(k, x, D)
    PROVE  /\ k' \in KType
           /\ k'.fds[x] = k.fds[x] \ D
           /\ \A y \in Everyone \ {x} : k'.fds[y] = k.fds[y]
           /\ k.posix # x => k'.posix = k.posix
           /\ \A d \in D \cap k.fds[x] : k.posix = x /\ d \in OnLockFile => k'.posix = None
           /\ k'.ofd = IF \E y \in Everyone : k.ofd \in k'.fds[y] THEN k.ofd ELSE None
BY DEF KType, Closed

(* An application that closes descriptors on which no OFD lock depends     *)
(* drops no lock: POSIX locks belong to helpers.                           *)
LEMMA AppCloses ==
    ASSUME LInv, NEW p \in Procs, NEW D, k.ofd \notin D, k' = Closed(k, App(p), D)
    PROVE  /\ k' \in KType /\ k'.posix = k.posix /\ k'.ofd = k.ofd
           /\ k'.fds[App(p)] = k.fds[App(p)] \ D
           /\ \A y \in Everyone \ {App(p)} : k'.fds[y] = k.fds[y]
<1>1. k \in KType /\ App(p) \in Everyone
  BY Processes DEF LInv, LTypeOK
<1>2. k.posix # App(p)
  BY <1>1, ProcessNames DEF KType, None, App
<1>3. k.ofd = None \/ \E y \in Everyone : k.ofd \in k.fds[y]
  BY <1>1, Processes DEF LInv, KType, OfdKept
<1>4. /\ k' \in KType /\ k'.posix = k.posix /\ k'.fds[App(p)] = k.fds[App(p)] \ D
      /\ \A y \in Everyone \ {App(p)} : k'.fds[y] = k.fds[y]
      /\ k'.ofd = IF \E y \in Everyone : k.ofd \in k'.fds[y] THEN k.ofd ELSE None
  BY <1>1, <1>2, Closing
<1>5. k'.ofd = k.ofd
  BY <1>3, <1>4
<1> QED
  BY <1>4, <1>5

(* Closing the last descriptor of the file with the OFD lock drops the     *)
(* lock.                                                                   *)
LEMMA OfdCloses ==
    ASSUME LInv, NEW p \in Procs, NEW D, k' = Closed(k, App(p), D),
           \A y \in Everyone : k.ofd \in k.fds[y] => y = App(p) /\ k.ofd \in D
    PROVE  /\ k' \in KType /\ k'.posix = k.posix /\ k'.ofd = None
           /\ k'.fds[App(p)] = k.fds[App(p)] \ D
           /\ \A y \in Everyone \ {App(p)} : k'.fds[y] = k.fds[y]
<1>1. k \in KType /\ App(p) \in Everyone
  BY Processes DEF LInv, LTypeOK
<1>2. k.posix # App(p)
  BY <1>1, ProcessNames DEF KType, None, App
<1>3. /\ k' \in KType /\ k'.posix = k.posix /\ k'.fds[App(p)] = k.fds[App(p)] \ D
      /\ \A y \in Everyone \ {App(p)} : k'.fds[y] = k.fds[y]
      /\ k'.ofd = IF \E y \in Everyone : k.ofd \in k'.fds[y] THEN k.ofd ELSE None
  BY <1>1, <1>2, Closing
<1>4. k'.ofd = None
  BY <1>3
<1> QED
  BY <1>3, <1>4

(* What Goes and Returns do to the calls.                                  *)
LEMMA Calls ==
    ASSUME PlacesOK(obj, PCs), NEW o \in Objs
    PROVE  /\ \A pc \in PCs : Goes(o, pc) =>
                  /\ PlacesOK(obj, PCs)' /\ obj'[o].pc = pc
                  /\ \A u \in Objs \ {o} : obj'[u] = obj[u]
           /\ Returns(o) =>
                  /\ PlacesOK(obj, PCs)' /\ obj'[o].pc = "idle"
                  /\ \A u \in Objs \ {o} : obj'[u] = obj[u]
<1>1. ASSUME NEW pc \in PCs, Goes(o, pc)
      PROVE  /\ PlacesOK(obj, PCs)' /\ obj'[o].pc = pc
             /\ \A u \in Objs \ {o} : obj'[u] = obj[u]
  BY <1>1 DEF Goes, PlacesOK
<1>2. ASSUME Returns(o)
      PROVE  /\ PlacesOK(obj, PCs)' /\ obj'[o].pc = "idle"
             /\ \A u \in Objs \ {o} : obj'[u] = obj[u]
  BY <1>2 DEF Returns, Idle, PlacesOK, PCs
<1> QED
  BY <1>1, <1>2

(* What a step of a helper does to the helpers.                            *)
LEMMA Helpers ==
    ASSUME PlacesOK(child, ChildPCs), NEW o \in Objs, NEW pc \in ChildPCs,
           \/ HelperGoes(o, pc)
           \/ \E w : child' = [child EXCEPT ![o] = [pc |-> pc, wait |-> w]]
    PROVE  /\ PlacesOK(child, ChildPCs)' /\ child'[o].pc = pc
           /\ \A u \in Objs \ {o} : child'[u] = child[u]
BY DEF HelperGoes, PlacesOK

(* Calls and helpers that nothing happens to.                              *)
LEMMA SamePlaces ==
    ASSUME LInv
    PROVE  /\ UNCHANGED obj => PlacesOK(obj, PCs)'
           /\ UNCHANGED child => PlacesOK(child, ChildPCs)'
BY DEF LInv, LTypeOK, PlacesOK

(* What a call has stays true while neither the call nor its helper moves  *)
(* and its process keeps the descriptors.                                  *)
LEMMA StageKept ==
    ASSUME NEW u \in Objs, Stage(u), obj'[u] = obj[u], child'[u] = child[u],
           u \in sent' <=> u \in sent,
           LockFile(u) \in k.fds[App(Owner[u])] => LockFile(u) \in k'.fds[App(Owner[u])],
           ParentEnd(u) \in k.fds[App(Owner[u])] => ParentEnd(u) \in k'.fds[App(Owner[u])]
    PROVE  Stage(u)'
BY DEF Stage

\* A step of the process of o in a call of o.
AppMove(o) ==
    /\ alive' = alive /\ Owner[o] \in alive
    /\ PlacesOK(obj, PCs)' /\ \A u \in Objs \ {o} : obj'[u] = obj[u]
    /\ PlacesOK(child, ChildPCs)' /\ \A u \in Objs \ {o} : child'[u] = child[u]
    /\ child'[o] = child[o] \/ (child[o].pc = "exited" /\ child'[o].pc = "none")
    /\ sent' \subseteq Objs /\ \A u \in Objs \ {o} : u \in sent' <=> u \in sent
    /\ k' \in KType /\ k'.posix = k.posix
    /\ \A y \in Everyone \ {App(Owner[o])} : k'.fds[y] = k.fds[y]
    /\ \A u \in Objs \ {o} :
          /\ LockFile(u) \in k'.fds[App(Owner[o])] <=> LockFile(u) \in k.fds[App(Owner[o])]
          /\ ParentEnd(u) \in k'.fds[App(Owner[o])] <=> ParentEnd(u) \in k.fds[App(Owner[o])]

\* ... and what it does to the OFD lock.
OfdMove(o) ==
    /\ k'.ofd = IF HoldsByOfd(o)' THEN LockFile(o)
                ELSE IF HoldsByOfd(o) THEN None ELSE k.ofd
    /\ HoldsByOfd(o)' => /\ LockFile(o) \in k'.fds[App(Owner[o])]
                         /\ HoldsByOfd(o) \/ (k.posix = None /\ k.ofd = None)

(* A step of a call keeps the invariant if it leaves the other calls'      *)
(* descriptors alone and takes an OFD lock only where none is held.        *)
LEMMA AppStep ==
    ASSUME LInv, NEW o \in Objs, AppMove(o), OfdMove(o), Stage(o)'
    PROVE  LInv'
<1>1. LTypeOK'
  BY DEF LInv, LTypeOK, AppMove
<1>2. \A u \in Objs \ {o} : HoldsByOfd(u)' <=> HoldsByOfd(u)
  BY DEF AppMove, HoldsByOfd
<1>3. \A p \in Procs : p # Owner[o] => k'.fds[App(p)] = k.fds[App(p)]
  BY Processes, ProcessNames DEF AppMove
<1>4. \A u \in Objs \ {o} :
         /\ LockFile(u) \in k'.fds[App(Owner[u])] <=> LockFile(u) \in k.fds[App(Owner[u])]
         /\ ParentEnd(u) \in k'.fds[App(Owner[u])] <=> ParentEnd(u) \in k.fds[App(Owner[u])]
  BY <1>3, Processes DEF AppMove
<1>5. OfdKept'
  <2>1. \A u \in Objs \ {o} : HoldsByOfd(u) => ~HoldsByOfd(o) /\ ~HoldsByOfd(o)'
    BY FileNames DEF LInv, OfdKept, OfdMove
  <2>2. \A u \in Objs : k'.ofd = LockFile(u) <=> HoldsByOfd(u)'
    BY <2>1, <1>2, FileNames DEF LInv, OfdKept, OfdMove
  <2>3. \A u \in Objs : HoldsByOfd(u)' => LockFile(u) \in k'.fds[App(Owner[u])]
    BY <1>2, <1>4 DEF LInv, OfdKept, OfdMove
  <2> QED
    BY <2>2, <2>3 DEF OfdKept
<1>6. Apart'
  <2>1. /\ \A p \in Procs : k'.fds[Worker(p)] = k.fds[Worker(p)]
        /\ \A u \in Objs : k'.fds[Child(u)] = k.fds[Child(u)]
    BY Processes, ProcessNames DEF AppMove
  <2>2. \A u \in Objs, p \in Procs : LockFile(u) \in k'.fds[App(p)] => Owner[u] = p
    BY <1>3 DEF LInv, Apart, AppMove
  <2> QED
    BY <2>1, <2>2 DEF LInv, Apart
<1>7. PosixKept'
  BY Processes, ProcessNames DEF LInv, PosixKept, AppMove
<1>8. InOneWay'
  BY FileNames DEF LInv, InOneWay, OfdKept, OfdMove, AppMove
<1>9. Stages'
  <2>1. \A u \in Objs \ {o} : Owner[u] \in alive => Stage(u)'
    BY <1>4, StageKept DEF LInv, Stages, AppMove
  <2> QED
    BY <2>1 DEF Stages, AppMove
<1>10. OfdAlone'
  BY DEF LInv, OfdAlone, AppMove
<1> QED
  BY <1>1, <1>5, <1>6, <1>7, <1>8, <1>9, <1>10 DEF LInv

\* A step of the helper of o, or what is done to it.
HelperMove(o) ==
    /\ alive' = alive /\ child[o].pc # "none"
    /\ PlacesOK(obj, PCs)' /\ \A u \in Objs \ {o} : obj'[u] = obj[u]
    /\ PlacesOK(child, ChildPCs)' /\ \A u \in Objs \ {o} : child'[u] = child[u]
    /\ sent' \subseteq Objs /\ \A u \in Objs \ {o} : u \in sent' <=> u \in sent
    /\ k' \in KType /\ k'.ofd = k.ofd
    /\ \A y \in Everyone \ {Child(o)} : k'.fds[y] = k.fds[y]
    /\ k'.fds[Child(o)] \subseteq k.fds[Child(o)]
    /\ child'[o].pc \notin {"none", "exited"} => LockFile(o) \in k'.fds[Child(o)]

\* ... and what it does to the POSIX lock.
PosixMove(o) ==
    /\ k'.posix = IF child'[o].pc \in {"write", "cat"} THEN Child(o)
                  ELSE IF k.posix = Child(o) THEN None ELSE k.posix
    /\ child'[o].pc \in {"write", "cat"} =>
           k.posix = Child(o) \/ (k.posix = None /\ k.ofd = None)

(* So does a step of a helper that takes the POSIX lock only where no lock *)
(* is held, and keeps the lock file open as long as it lives.              *)
LEMMA HelperStep ==
    ASSUME LInv, NEW o \in Objs, HelperMove(o), PosixMove(o),
           Owner[o] \in alive => Stage(o)'
    PROVE  LInv'
<1>1. LTypeOK'
  BY DEF LInv, LTypeOK, HelperMove
<1>2. \A p \in Procs : k'.fds[App(p)] = k.fds[App(p)] /\ k'.fds[Worker(p)] = k.fds[Worker(p)]
  BY Processes, ProcessNames DEF HelperMove
<1>3. OfdKept'
  <2>1. \A u \in Objs : HoldsByOfd(u)' <=> HoldsByOfd(u)
    BY DEF LInv, OfdAlone, HoldsByOfd, HelperMove
  <2>2. \A u \in Objs : k'.ofd = LockFile(u) <=> HoldsByOfd(u)'
    BY <2>1 DEF LInv, OfdKept, HelperMove
  <2>3. \A u \in Objs : HoldsByOfd(u)' => LockFile(u) \in k'.fds[App(Owner[u])]
    BY <1>2, <2>1, Processes DEF LInv, OfdKept
  <2> QED
    BY <2>2, <2>3 DEF OfdKept
<1>4. \A u \in Objs \ {o} : k'.fds[Child(u)] = k.fds[Child(u)]
  BY Processes, ProcessNames DEF HelperMove
<1>5. Apart'
  BY <1>2, <1>4 DEF LInv, Apart, HelperMove
<1>6. PosixKept'
  <2>1. \A u \in Objs \ {o} : k'.posix = Child(u) <=> k.posix = Child(u)
    BY ProcessNames DEF PosixMove
  <2>2. k'.posix = Child(o) <=> child'[o].pc \in {"write", "cat"}
    BY ProcessNames DEF PosixMove
  <2> QED
    BY <1>4, <2>1, <2>2 DEF LInv, PosixKept, HelperMove
<1>7. InOneWay'
  BY ProcessNames DEF LInv, InOneWay, HelperMove, PosixMove
<1>8. Stages'
  <2>1. \A u \in Objs \ {o} : Owner[u] \in alive => Stage(u)'
    BY <1>2, Processes, StageKept DEF LInv, Stages, HelperMove
  <2> QED
    BY <2>1 DEF Stages, HelperMove
<1>9. OfdAlone'
  BY DEF LInv, OfdAlone, HelperMove
<1> QED
  BY <1>1, <1>3, <1>5, <1>6, <1>7, <1>8, <1>9 DEF LInv

(* The end of a helper drops its POSIX lock and no other.                  *)
LEMMA HelperGone ==
    ASSUME LInv, NEW o \in Objs, k' = Exited(k, Child(o))
    PROVE  /\ k' \in KType /\ k'.ofd = k.ofd /\ k'.fds[Child(o)] = {}
           /\ \A y \in Everyone \ {Child(o)} : k'.fds[y] = k.fds[y]
           /\ k'.posix = IF k.posix = Child(o) THEN None ELSE k.posix
<1>1. k \in KType /\ Child(o) \in Everyone
  BY Processes DEF LInv, LTypeOK
<1>2. /\ k' \in KType /\ k'.fds[Child(o)] = {}
      /\ \A y \in Everyone \ {Child(o)} : k'.fds[y] = k.fds[y]
      /\ k.posix # Child(o) => k'.posix = k.posix
      /\ \A d \in k.fds[Child(o)] : k.posix = Child(o) /\ d \in OnLockFile => k'.posix = None
      /\ k'.ofd = IF \E y \in Everyone : k.ofd \in k'.fds[y] THEN k.ofd ELSE None
  BY <1>1, Closing DEF Exited
<1>3. k.posix = Child(o) => LockFile(o) \in k.fds[Child(o)]
  BY DEF LInv, PosixKept
<1>4. k'.posix = IF k.posix = Child(o) THEN None ELSE k.posix
  BY <1>2, <1>3, ObjectFiles
<1>5. k.ofd = None \/ \E y \in Everyone : k.ofd \in k'.fds[y]
  BY <1>1, <1>2, Processes, ProcessNames DEF LInv, KType, OfdKept
<1> QED
  BY <1>2, <1>4, <1>5

(* open() and socketpair() change no lock.                                 *)
LEMMA FileOpens ==
    ASSUME LInv, NEW p \in Procs, NEW D \in SUBSET Files, k' = Opened(k, App(p), D)
    PROVE  /\ k' \in KType /\ k'.posix = k.posix /\ k'.ofd = k.ofd
           /\ k'.fds[App(p)] = k.fds[App(p)] \cup D
           /\ \A y \in Everyone \ {App(p)} : k'.fds[y] = k.fds[y]
BY ProcessNames, Processes DEF LInv, LTypeOK, KType, Opened

(* A step that only moves a call on.                                       *)
LEMMA CallStep ==
    ASSUME LInv, NEW o \in Objs, Owner[o] \in alive,
           PlacesOK(obj, PCs)', \A u \in Objs \ {o} : obj'[u] = obj[u],
           k' = k, child' = child, sent' = sent, alive' = alive,
           HoldsByOfd(o)' <=> HoldsByOfd(o), Stage(o)'
    PROVE  LInv'
<1>1. AppMove(o)
  <2>1. PlacesOK(child, ChildPCs)'
    BY DEF LInv, LTypeOK, PlacesOK
  <2> QED
    BY <2>1 DEF LInv, LTypeOK, AppMove
<1>2. OfdMove(o)
  BY DEF LInv, OfdKept, OfdMove
<1> QED
  BY <1>1, <1>2, AppStep

(* The constructor, before it locks, keeps the invariant.                  *)
LEMMA ConstructInv ==
    ASSUME LInv, NEW o \in Objs, NEW action, NEW wait, construct(o, action, wait)
    PROVE  LInv'
<1> USE DEF LInv
<1>1. /\ PlacesOK(obj, PCs)' /\ \A u \in Objs \ {o} : obj'[u] = obj[u]
      /\ obj'[o].pc \in {"idle", "open_lockfile"}
  BY DEF construct, Idle, LTypeOK, PlacesOK, PCs
<1>2. obj[o].pc = "idle" /\ Owner[o] \in alive /\ UNCHANGED <<k, child, sent, alive>>
  BY DEF construct, At
<1>3. ~HoldsByOfd(o) /\ ~HoldsByOfd(o)'
  BY <1>1, <1>2 DEF HoldsByOfd
<1>4. Stage(o)'
  BY <1>1, <1>2 DEF Stages, Stage
<1> QED
  BY <1>1, <1>2, <1>3, <1>4, CallStep

(* So does Database::lock() on a reader.                                   *)
LEMMA UpdateLockInv ==
    ASSUME LInv, NEW o \in Objs, update_lock(o)
    PROVE  LInv'
<1> USE DEF LInv
<1>1. /\ PlacesOK(obj, PCs)' /\ \A u \in Objs \ {o} : obj'[u] = obj[u]
      /\ obj'[o].pc = "open_lockfile"
  BY DEF update_lock, LTypeOK, PlacesOK, PCs
<1>2. obj[o].pc = "idle" /\ Owner[o] \in alive /\ UNCHANGED <<k, child, sent, alive>>
  BY DEF update_lock, At
<1>3. ~HoldsByOfd(o) /\ ~HoldsByOfd(o)'
  BY <1>1, <1>2 DEF HoldsByOfd
<1>4. Stage(o)'
  BY <1>1, <1>2 DEF Stages, Stage
<1> QED
  BY <1>1, <1>2, <1>3, <1>4, CallStep

(* So do opening the tables, commit() and close(), with the lock.          *)
LEMMA WriterInv ==
    ASSUME LInv, NEW o \in Objs, open_tables(o) \/ commit(o) \/ close(o)
    PROVE  LInv'
<1> USE DEF LInv
<1>1. /\ obj[o].pc \in {"tables", "open"} /\ Owner[o] \in alive
      /\ UNCHANGED <<k, child, sent, alive>>
      /\ obj' = obj \/ \E pc \in {"open", "release"} : Goes(o, pc)
  BY DEF open_tables, commit, close, At
<1>2. /\ PlacesOK(obj, PCs)' /\ \A u \in Objs \ {o} : obj'[u] = obj[u]
      /\ obj'[o].pc \in {"tables", "open", "release"}
  BY <1>1, Calls DEF LTypeOK, PCs
<1>3. HoldsByOfd(o)' <=> HoldsByOfd(o)
  BY <1>1, <1>2 DEF HoldsByOfd
<1>4. Stage(o)'
  BY <1>1, <1>2 DEF Stages, Stage
<1> QED
  BY <1>1, <1>2, <1>3, <1>4, CallStep

(* A step of a call that neither takes nor drops an OFD lock.              *)
LEMMA ParentStep ==
    ASSUME LInv, NEW o \in Objs, AppMove(o), k'.ofd = k.ofd,
           obj[o].pc \notin {"tables", "open", "release"} \/ Owner[o] \notin OfdProcs,
           obj'[o].pc \notin {"tables", "open", "release"} \/ Owner[o] \notin OfdProcs,
           Stage(o)'
    PROVE  LInv'
<1>1. ~HoldsByOfd(o) /\ ~HoldsByOfd(o)'
  BY DEF HoldsByOfd
<1>2. OfdMove(o)
  BY <1>1 DEF OfdMove
<1> QED
  BY <1>2, AppStep

(* The lock file is open in a call that has no OFD lock: nobody has it     *)
(* there.                                                                  *)
LEMMA NotLocked ==
    ASSUME LInv, NEW o \in Objs, ~HoldsByOfd(o)
    PROVE  k.ofd \notin {LockFile(o), ParentEnd(o), ChildEnd(o), TestFile(o)}
BY FileNames DEF LInv, LTypeOK, KType, OfdKept, None, LockFile, ParentEnd, ChildEnd, TestFile

(* Opening the lock file keeps the invariant.                              *)
LEMMA OpenLockfileInv ==
    ASSUME LInv, NEW o \in Objs, open_lockfile(o)
    PROVE  LInv'
<1>1. /\ obj[o].pc = "open_lockfile" /\ Owner[o] \in alive
      /\ UNCHANGED <<child, sent, alive>>
  BY DEF open_lockfile, At, HelperSame, RestSame
<1>2. CASE k' = k /\ Returns(o)
  <2>1. /\ PlacesOK(obj, PCs)' /\ obj'[o].pc = "idle"
        /\ \A u \in Objs \ {o} : obj'[u] = obj[u]
    BY <1>2, Calls DEF LInv, LTypeOK
  <2>2. Stage(o)'
    BY <1>1, <1>2, <2>1 DEF LInv, Stages, Stage
  <2>3. HoldsByOfd(o)' <=> HoldsByOfd(o)
    BY <1>1, <2>1 DEF HoldsByOfd
  <2> QED
    BY <1>1, <1>2, <2>1, <2>2, <2>3, CallStep
<1>3. CASE /\ k' = Opened(k, App(Owner[o]), {LockFile(o)})
           /\ Goes(o, IF Owner[o] \in OfdProcs THEN "ofd_setlk" ELSE "socketpair")
  <2>1. /\ PlacesOK(obj, PCs)' /\ \A u \in Objs \ {o} : obj'[u] = obj[u]
        /\ obj'[o].pc = IF Owner[o] \in OfdProcs THEN "ofd_setlk" ELSE "socketpair"
    BY <1>3, Calls DEF LInv, LTypeOK, PCs
  <2>2. /\ k' \in KType /\ k'.posix = k.posix /\ k'.ofd = k.ofd
        /\ k'.fds[App(Owner[o])] = k.fds[App(Owner[o])] \cup {LockFile(o)}
        /\ \A y \in Everyone \ {App(Owner[o])} : k'.fds[y] = k.fds[y]
    <3>1. {LockFile(o)} \in SUBSET Files /\ Owner[o] \in Procs
      BY Processes, ObjectFiles
    <3> QED
      BY <1>3, <3>1, FileOpens
  <2>3. AppMove(o)
    <3>1. PlacesOK(child, ChildPCs)'
      BY <1>1 DEF LInv, LTypeOK, PlacesOK
    <3> QED
      BY <1>1, <2>1, <2>2, <3>1, FileNames DEF LInv, LTypeOK, KType, AppMove
  <2>4. Stage(o)'
    BY <1>1, <2>1, <2>2 DEF LInv, LTypeOK, KType, Stages, Stage
  <2> QED
    BY <1>1, <2>1, <2>2, <2>3, <2>4, ParentStep
<1> QED
  BY <1>2, <1>3 DEF open_lockfile

\* The descriptors that the calls of o open.
OwnFiles(o) == {LockFile(o), ParentEnd(o), ChildEnd(o), TestFile(o)}

(* Closing descriptors of o's own, where no OFD lock depends on them.      *)
LEMMA ParentCloses ==
    ASSUME LInv, NEW o \in Objs, NEW D \in SUBSET OwnFiles(o), ~HoldsByOfd(o),
           k' = Closed(k, App(Owner[o]), D),
           Owner[o] \in alive, UNCHANGED <<child, sent, alive>>,
           PlacesOK(obj, PCs)', \A u \in Objs \ {o} : obj'[u] = obj[u]
    PROVE  /\ AppMove(o) /\ k'.ofd = k.ofd
           /\ k'.fds[App(Owner[o])] = k.fds[App(Owner[o])] \ D
<1> USE DEF LInv
<1>1. k.ofd \notin D
  BY NotLocked DEF OwnFiles
<1>2. /\ k' \in KType /\ k'.posix = k.posix /\ k'.ofd = k.ofd
      /\ k'.fds[App(Owner[o])] = k.fds[App(Owner[o])] \ D
      /\ \A y \in Everyone \ {App(Owner[o])} : k'.fds[y] = k.fds[y]
  BY <1>1, AppCloses, Processes
<1>3. PlacesOK(child, ChildPCs)'
  BY DEF LTypeOK, PlacesOK
<1>4. \A u \in Objs \ {o} : LockFile(u) \notin D /\ ParentEnd(u) \notin D
  BY FileNames DEF OwnFiles
<1> QED
  BY <1>2, <1>3, <1>4 DEF AppMove, LTypeOK

(* lock() fails, or a test ends, with the descriptors of o closed.         *)
LEMMA FailsInv ==
    ASSUME LInv, NEW o \in Objs, NEW D \in SUBSET OwnFiles(o),
           Owner[o] \in alive, UNCHANGED <<child, sent, alive>>,
           obj[o].pc \in {"open_lockfile", "ofd_setlk", "socketpair", "fork", "test"},
           k' = Closed(k, App(Owner[o]), D), Returns(o) \/ Goes(o, "idle")
    PROVE  LInv'
<1>1. /\ PlacesOK(obj, PCs)' /\ obj'[o].pc = "idle"
      /\ \A u \in Objs \ {o} : obj'[u] = obj[u]
  BY Calls DEF LInv, LTypeOK, PCs
<1>2. ~HoldsByOfd(o)
  BY DEF HoldsByOfd
<1>3. AppMove(o) /\ k'.ofd = k.ofd
  BY <1>1, <1>2, ParentCloses
<1>4. Stage(o)'
  BY <1>1 DEF LInv, Stages, Stage
<1> QED
  BY <1>1, <1>3, <1>4, ParentStep

(* fcntl(F_OFD_SETLK) takes the lock only where nobody has it.             *)
LEMMA OfdSetlkInv ==
    ASSUME LInv, NEW o \in Objs, ofd_setlk(o) \/ ofd_setlk_fails(o)
    PROVE  LInv'
<1>1. obj[o].pc = "ofd_setlk" /\ Owner[o] \in alive /\ UNCHANGED <<child, sent, alive>>
  BY DEF ofd_setlk, ofd_setlk_fails, At, HelperSame, RestSame
<1>2. CASE Fails(o, {LockFile(o)})
  BY <1>1, <1>2, FailsInv DEF Fails, OwnFiles
<1>3. CASE ~IsLocked(k) /\ k' = [k EXCEPT !.ofd = LockFile(o)] /\ Goes(o, "tables")
  <2>1. /\ PlacesOK(obj, PCs)' /\ obj'[o].pc = "tables"
        /\ \A u \in Objs \ {o} : obj'[u] = obj[u]
    BY <1>3, Calls DEF LInv, LTypeOK, PCs
  <2>2. k.posix = None /\ k.ofd = None
    BY <1>3 DEF IsLocked
  <2>3. k' \in KType /\ k'.posix = k.posix /\ k'.ofd = LockFile(o) /\ k'.fds = k.fds
    BY <1>3 DEF LInv, LTypeOK, KType
  <2>4. AppMove(o)
    <3>1. PlacesOK(child, ChildPCs)'
      BY <1>1 DEF LInv, LTypeOK, PlacesOK
    <3> QED
      BY <1>1, <2>1, <2>3, <3>1 DEF LInv, LTypeOK, AppMove
  <2>5. Owner[o] \in OfdProcs /\ LockFile(o) \in k.fds[App(Owner[o])]
    BY <1>1 DEF LInv, Stages, Stage
  <2>6. OfdMove(o)
    BY <1>1, <2>1, <2>2, <2>3, <2>5 DEF OfdMove, HoldsByOfd
  <2>7. Stage(o)'
    BY <1>1, <2>1, <2>5 DEF LInv, Stages, Stage
  <2> QED
    BY <2>4, <2>6, <2>7, AppStep
<1> QED
  BY <1>2, <1>3 DEF ofd_setlk, ofd_setlk_fails

(* socketpair(), or its failure, keeps the invariant.                      *)
LEMMA SocketpairInv ==
    ASSUME LInv, NEW o \in Objs, socketpair(o)
    PROVE  LInv'
<1>1. obj[o].pc = "socketpair" /\ Owner[o] \in alive /\ UNCHANGED <<child, sent, alive>>
  BY DEF socketpair, At, HelperSame, RestSame
<1>2. CASE Fails(o, {LockFile(o)})
  BY <1>1, <1>2, FailsInv DEF Fails, OwnFiles
<1>3. CASE k' = Opened(k, App(Owner[o]), {ParentEnd(o), ChildEnd(o)}) /\ Goes(o, "fork")
  <2>1. /\ PlacesOK(obj, PCs)' /\ obj'[o].pc = "fork"
        /\ \A u \in Objs \ {o} : obj'[u] = obj[u]
    BY <1>3, Calls DEF LInv, LTypeOK, PCs
  <2>2. {ParentEnd(o), ChildEnd(o)} \in SUBSET Files
    BY ObjectFiles
  <2>3. /\ k' \in KType /\ k'.posix = k.posix /\ k'.ofd = k.ofd
        /\ k'.fds[App(Owner[o])] = k.fds[App(Owner[o])] \cup {ParentEnd(o), ChildEnd(o)}
        /\ \A y \in Everyone \ {App(Owner[o])} : k'.fds[y] = k.fds[y]
    BY <1>3, <2>2, FileOpens, Processes
  <2>4. AppMove(o)
    <3>1. PlacesOK(child, ChildPCs)'
      BY <1>1 DEF LInv, LTypeOK, PlacesOK
    <3> QED
      BY <1>1, <2>1, <2>3, <3>1, FileNames DEF LInv, LTypeOK, KType, AppMove
  <2>5. Stage(o)'
    BY <1>1, <2>1, <2>3 DEF LInv, LTypeOK, KType, Stages, Stage
  <2> QED
    BY <1>1, <2>1, <2>3, <2>4, <2>5, ParentStep
<1> QED
  BY <1>2, <1>3 DEF socketpair

-----------------------------------------------------------------------------
(* fork(): the helper starts with every descriptor of its process, the     *)
(* lock file among them.                                                   *)
LEMMA ForkInv ==
    ASSUME LInv, NEW o \in Objs, fork(o)
    PROVE  LInv'
<1>1. obj[o].pc = "fork" /\ Owner[o] \in alive /\ UNCHANGED <<sent, alive>>
  BY DEF fork, At, RestSame
<1>2. CASE Fails(o, {LockFile(o), ChildEnd(o), ParentEnd(o)}) /\ UNCHANGED child
  BY <1>1, <1>2, FailsInv DEF Fails, OwnFiles
<1>3. CASE /\ k' = Forked(k, App(Owner[o]), Child(o))
           /\ child' = [child EXCEPT
                           ![o] = [NoChild EXCEPT !.pc = "start", !.wait = obj[o].wait]]
           /\ Goes(o, "parent_close")
  <2> USE DEF LInv
  <2>1. /\ PlacesOK(obj, PCs)' /\ obj'[o].pc = "parent_close"
        /\ \A u \in Objs \ {o} : obj'[u] = obj[u]
    BY <1>3, Calls DEF LTypeOK, PCs
  <2>2. /\ PlacesOK(child, ChildPCs)' /\ child'[o].pc = "start"
        /\ \A u \in Objs \ {o} : child'[u] = child[u]
    BY <1>3 DEF LTypeOK, PlacesOK, NoChild, ChildPCs
  <2>3. /\ k' \in KType /\ k'.posix = k.posix /\ k'.ofd = k.ofd
        /\ k'.fds[Child(o)] = k.fds[App(Owner[o])]
        /\ \A y \in Everyone \ {Child(o)} : k'.fds[y] = k.fds[y]
    BY <1>3, Processes DEF LTypeOK, KType, Forked
  <2>4. /\ Owner[o] \notin OfdProcs /\ child[o].pc = "none" /\ o \notin sent
        /\ LockFile(o) \in k.fds[App(Owner[o])] /\ ParentEnd(o) \in k.fds[App(Owner[o])]
    BY <1>1 DEF Stages, Stage
  <2>5. LTypeOK'
    BY <1>1, <2>1, <2>2, <2>3 DEF LTypeOK
  <2>6. OfdKept'
    <3>1. \A u \in Objs : HoldsByOfd(u)' <=> HoldsByOfd(u)
      BY <1>1, <2>1, <2>4 DEF HoldsByOfd
    <3>2. \A u \in Objs : HoldsByOfd(u)' => LockFile(u) \in k'.fds[App(Owner[u])]
      BY <2>3, <3>1, Processes, ProcessNames DEF OfdKept
    <3>3. \A u \in Objs : k'.ofd = LockFile(u) <=> HoldsByOfd(u)'
      BY <2>3, <3>1 DEF OfdKept
    <3> QED
      BY <3>2, <3>3 DEF OfdKept, HoldsByOfd
  <2>7. Apart'
    BY <2>3, <2>4, Processes, ProcessNames DEF Apart
  <2>8. PosixKept'
    BY <2>2, <2>3, <2>4, Processes, ProcessNames DEF PosixKept
  <2>9. InOneWay'
    BY <2>3 DEF InOneWay
  <2>10. Stages'
    <3>1. \A p \in Procs : k'.fds[App(p)] = k.fds[App(p)]
      BY <2>3, Processes, ProcessNames
    <3>2. Stage(o)'
      BY <1>1, <2>1, <2>4, <3>1, Processes DEF Stage
    <3>3. \A u \in Objs \ {o} : Owner[u] \in alive => Stage(u)'
      BY <1>1, <2>1, <2>2, <3>1, Processes DEF Stages, Stage
    <3> QED
      BY <1>1, <3>2, <3>3 DEF Stages
  <2>11. OfdAlone'
    BY <2>2, <2>4 DEF OfdAlone
  <2> QED
    BY <2>5, <2>6, <2>7, <2>8, <2>9, <2>10, <2>11
<1> QED
  BY <1>2, <1>3 DEF fork

(* The parent's close() calls and its read(): the byte in the socket means *)
(* that the helper has the lock and is in cat.                             *)
LEMMA ParentWaitsInv ==
    ASSUME LInv, NEW o \in Objs, parent_close(o) \/ parent_read(o) \/ read_fails(o)
    PROVE  LInv'
<1>1. /\ obj[o].pc \in {"parent_close", "parent_read"} /\ Owner[o] \in alive
      /\ UNCHANGED <<child, alive>>
  BY DEF parent_close, parent_read, read_fails, At, HelperSame, RestSame
<1>2. Owner[o] \notin OfdProcs /\ ~HoldsByOfd(o)
  BY <1>1 DEF LInv, Stages, Stage, HoldsByOfd
<1>3. CASE parent_close(o)
  <2>1. k' = Closed(k, App(Owner[o]), {LockFile(o), ChildEnd(o)}) /\ sent' = sent
    BY <1>3 DEF parent_close, HelperSame
  <2>2. /\ PlacesOK(obj, PCs)' /\ obj'[o].pc = "parent_read"
        /\ \A u \in Objs \ {o} : obj'[u] = obj[u]
    BY <1>3, Calls DEF LInv, LTypeOK, PCs, parent_close
  <2>3. {LockFile(o), ChildEnd(o)} \in SUBSET OwnFiles(o)
    BY DEF OwnFiles
  <2>4. /\ AppMove(o) /\ k'.ofd = k.ofd
        /\ k'.fds[App(Owner[o])] = k.fds[App(Owner[o])] \ {LockFile(o), ChildEnd(o)}
    BY <1>1, <1>2, <2>1, <2>2, <2>3, ParentCloses
  <2>5. Stage(o)'
    <3>1. /\ ParentEnd(o) \in k.fds[App(Owner[o])] /\ (o \in sent => child[o].pc = "cat")
      BY <1>1 DEF LInv, Stages, Stage
    <3>2. ParentEnd(o) \in k'.fds[App(Owner[o])]
      BY <2>4, <3>1, FileNames
    <3> QED
      BY <1>1, <1>2, <2>1, <2>2, <3>1, <3>2 DEF Stage
  <2> QED
    BY <1>2, <2>4, <2>5, ParentStep
<1>4. CASE /\ k' = Closed(k, App(Owner[o]), {ParentEnd(o)})
           /\ Goes(o, "waitpid")
           /\ sent' = sent
  <2>2. /\ PlacesOK(obj, PCs)' /\ obj'[o].pc = "waitpid"
        /\ \A u \in Objs \ {o} : obj'[u] = obj[u]
    BY <1>4, Calls DEF LInv, LTypeOK, PCs
  <2>3. {ParentEnd(o)} \in SUBSET OwnFiles(o)
    BY DEF OwnFiles
  <2>4. AppMove(o) /\ k'.ofd = k.ofd
    BY <1>1, <1>2, <1>4, <2>2, <2>3, ParentCloses
  <2>5. Stage(o)'
    BY <1>2, <2>2 DEF Stage
  <2> QED
    BY <1>2, <2>4, <2>5, ParentStep
<1>5. CASE /\ obj[o].pc = "parent_read" /\ o \in sent
           /\ sent' = sent \ {o} /\ Goes(o, "tables") /\ k' = k
  <2>1. /\ PlacesOK(obj, PCs)' /\ obj'[o].pc = "tables"
        /\ \A u \in Objs \ {o} : obj'[u] = obj[u]
    BY <1>5, Calls DEF LInv, LTypeOK, PCs
  <2>2. PlacesOK(child, ChildPCs)'
    BY <1>1 DEF LInv, LTypeOK, PlacesOK
  <2>3. AppMove(o)
    BY <1>1, <1>5, <2>1, <2>2 DEF LInv, LTypeOK, AppMove
  <2>4. Stage(o)'
    BY <1>1, <1>2, <1>5, <2>1 DEF LInv, Stages, Stage
  <2> QED
    BY <1>2, <1>5, <2>3, <2>4, ParentStep
<1> QED
  BY <1>3, <1>4, <1>5 DEF parent_read, read_fails, At, HelperSame

(* waitpid() after a failure: the helper is gone, with its lock.           *)
LEMMA WaitpidInv ==
    ASSUME LInv, NEW o \in Objs, waitpid(o)
    PROVE  LInv'
<1>1. /\ obj[o].pc = "waitpid" /\ Owner[o] \in alive /\ child[o].pc = "exited"
      /\ sent' = sent \ {o} /\ UNCHANGED <<k, alive>>
  BY DEF waitpid, At, RestSame
<1>2. /\ PlacesOK(obj, PCs)' /\ obj'[o].pc = "idle"
      /\ \A u \in Objs \ {o} : obj'[u] = obj[u]
  BY Calls DEF LInv, LTypeOK, waitpid
<1>3. /\ PlacesOK(child, ChildPCs)' /\ child'[o].pc = "none"
      /\ \A u \in Objs \ {o} : child'[u] = child[u]
  BY Helpers DEF LInv, LTypeOK, waitpid, NoChild, ChildPCs
<1>4. AppMove(o)
  BY <1>1, <1>2, <1>3 DEF LInv, LTypeOK, AppMove
<1>5. Stage(o)'
  BY <1>1, <1>2, <1>3 DEF Stage
<1> QED
  BY <1>1, <1>2, <1>4, <1>5, ParentStep

(* release(): the OFD lock goes with the only descriptor; with a helper,   *)
(* its socket is closed and the helper is still to be killed.              *)
LEMMA ReleaseInv ==
    ASSUME LInv, NEW o \in Objs, release(o)
    PROVE  LInv'
<1>1. /\ obj[o].pc = "release" /\ Owner[o] \in alive
      /\ UNCHANGED <<child, sent, alive>>
      /\ k' = Closed(k, App(Owner[o]), {LockFile(o), ParentEnd(o)})
  BY DEF release, At, HelperSame, RestSame
<1>2. PlacesOK(obj, PCs)' /\ \A u \in Objs \ {o} : obj'[u] = obj[u]
  BY Calls DEF LInv, LTypeOK, PCs, release
<1>3. obj'[o].pc = IF Owner[o] \in OfdProcs THEN "idle" ELSE "kill"
  BY Calls DEF LInv, LTypeOK, PCs, release
<1>4. CASE Owner[o] \notin OfdProcs
  <2>1. ~HoldsByOfd(o) /\ {LockFile(o), ParentEnd(o)} \in SUBSET OwnFiles(o)
    BY <1>4 DEF HoldsByOfd, OwnFiles
  <2>2. AppMove(o) /\ k'.ofd = k.ofd
    BY <1>1, <1>2, <2>1, ParentCloses
  <2>3. Stage(o)'
    BY <1>1, <1>3, <1>4 DEF LInv, Stages, Stage
  <2> QED
    BY <1>4, <2>2, <2>3, ParentStep
<1>5. CASE Owner[o] \in OfdProcs
  <2> USE DEF LInv
  <2>1. HoldsByOfd(o) /\ ~HoldsByOfd(o)' /\ k.ofd = LockFile(o)
    BY <1>1, <1>3, <1>5 DEF HoldsByOfd, OfdKept
  <2>2. \A y \in Everyone : LockFile(o) \in k.fds[y] => y = App(Owner[o])
    BY <1>5 DEF Apart, Everyone
  <2> DEFINE D == {LockFile(o), ParentEnd(o)}
  <2>3. \A y \in Everyone : k.ofd \in k.fds[y] => y = App(Owner[o]) /\ k.ofd \in D
    BY <2>1, <2>2
  <2>4. k' = Closed(k, App(Owner[o]), D) /\ Owner[o] \in Procs
    BY <1>1, Processes
  <2> HIDE DEF D
  <2>5. /\ k' \in KType /\ k'.posix = k.posix /\ k'.ofd = None
        /\ k'.fds[App(Owner[o])] = k.fds[App(Owner[o])] \ D
        /\ \A y \in Everyone \ {App(Owner[o])} : k'.fds[y] = k.fds[y]
    BY <2>3, <2>4, OfdCloses
  <2>6. PlacesOK(child, ChildPCs)'
    BY <1>1 DEF LTypeOK, PlacesOK
  <2>7. AppMove(o)
    <3>1. /\ k'.fds[App(Owner[o])] = k.fds[App(Owner[o])] \ D
          /\ \A y \in Everyone \ {App(Owner[o])} : k'.fds[y] = k.fds[y]
      BY <2>5 DEF LTypeOK, KType
    <3>2. \A u \in Objs \ {o} : LockFile(u) \notin D /\ ParentEnd(u) \notin D
      BY FileNames DEF D
    <3> QED
      BY <1>1, <1>2, <2>5, <2>6, <3>1, <3>2 DEF LTypeOK, AppMove
  <2>8. OfdMove(o)
    BY <2>1, <2>5 DEF OfdMove
  <2>9. Stage(o)'
    BY <1>1, <1>3, <1>5 DEF Stages, Stage, OfdAlone
  <2> QED
    BY <2>7, <2>8, <2>9, AppStep
<1> QED
  BY <1>4, <1>5

(* kill() and waitpid(): the helper and its lock are gone.                 *)
LEMMA KillHelperInv ==
    ASSUME LInv, NEW o \in Objs, kill_helper(o)
    PROVE  LInv'
<1>1. /\ obj[o].pc = "kill" /\ Owner[o] \in alive /\ UNCHANGED <<sent, alive>>
      /\ k' = Exited(k, Child(o))
  BY DEF kill_helper, At, RestSame
<1>2. o \notin sent /\ child[o].pc # "none"
  BY <1>1 DEF LInv, Stages, Stage
<1>3. /\ PlacesOK(obj, PCs)' /\ obj'[o].pc = "idle"
      /\ \A u \in Objs \ {o} : obj'[u] = obj[u]
  BY Calls DEF LInv, LTypeOK, kill_helper
<1>4. /\ PlacesOK(child, ChildPCs)' /\ child'[o].pc = "none"
      /\ \A u \in Objs \ {o} : child'[u] = child[u]
  BY DEF LInv, LTypeOK, kill_helper, NoChild, PlacesOK, ChildPCs
<1>5. /\ k' \in KType /\ k'.ofd = k.ofd /\ k'.fds[Child(o)] = {}
      /\ \A y \in Everyone \ {Child(o)} : k'.fds[y] = k.fds[y]
      /\ k'.posix = IF k.posix = Child(o) THEN None ELSE k.posix
  BY <1>1, HelperGone
<1>6. HelperMove(o) /\ PosixMove(o)
  BY <1>1, <1>2, <1>3, <1>4, <1>5 DEF LInv, LTypeOK, HelperMove, PosixMove
<1>7. Stage(o)'
  BY <1>1, <1>2, <1>3, <1>4 DEF Stage
<1> QED
  BY <1>6, <1>7, HelperStep

(* FlintLock::test() in a process with locks: closing its own descriptor   *)
(* of the lock file harms nobody, as helpers and OFDs have the locks.      *)
LEMMA TestInv ==
    ASSUME LInv, NEW o \in Objs, test_open(o) \/ test_close(o)
    PROVE  LInv'
<1>1. CASE test_close(o)
  BY <1>1, FailsInv DEF test_close, At, HelperSame, RestSame, OwnFiles
<1>2. CASE test_open(o)
  <2>1. /\ obj[o].pc = "idle" /\ Owner[o] \in alive /\ UNCHANGED <<child, sent, alive>>
        /\ k' = Opened(k, App(Owner[o]), {TestFile(o)})
    BY <1>2 DEF test_open, At, HelperSame, RestSame
  <2>2. /\ PlacesOK(obj, PCs)' /\ obj'[o].pc = "test"
        /\ \A u \in Objs \ {o} : obj'[u] = obj[u]
    BY <1>2 DEF LInv, LTypeOK, PCs, PlacesOK, test_open
  <2>3. {TestFile(o)} \in SUBSET Files
    BY ObjectFiles
  <2>4. /\ k' \in KType /\ k'.posix = k.posix /\ k'.ofd = k.ofd
        /\ k'.fds[App(Owner[o])] = k.fds[App(Owner[o])] \cup {TestFile(o)}
        /\ \A y \in Everyone \ {App(Owner[o])} : k'.fds[y] = k.fds[y]
    BY <2>1, <2>3, FileOpens, Processes
  <2>5. PlacesOK(child, ChildPCs)'
    BY <2>1 DEF LInv, LTypeOK, PlacesOK
  <2>6. AppMove(o)
    <3>1. /\ k'.fds[App(Owner[o])] = k.fds[App(Owner[o])] \cup {TestFile(o)}
          /\ \A y \in Everyone \ {App(Owner[o])} : k'.fds[y] = k.fds[y]
      BY <2>4 DEF LInv, LTypeOK, KType
    <3> QED
      BY <2>1, <2>2, <2>4, <2>5, <3>1, FileNames DEF LInv, LTypeOK, AppMove
  <2>7. Stage(o)'
    BY <2>1, <2>2 DEF LInv, Stages, Stage
  <2> QED
    BY <2>1, <2>2, <2>4, <2>6, <2>7, ParentStep
<1> QED
  BY <1>1, <1>2

(* The end of the helper of o, wherever it is.                             *)
LEMMA HelperExitsInv ==
    ASSUME LInv, NEW o \in Objs, HelperExits(o), child[o].pc # "none",
           UNCHANGED <<obj, sent, alive>>,
           (Owner[o] \in alive /\ obj[o].pc \in {"parent_close", "parent_read", "tables",
                                                "open", "release"})
               => child[o].pc # "cat"
    PROVE  LInv'
<1>1. /\ PlacesOK(child, ChildPCs)' /\ child'[o].pc = "exited"
      /\ \A u \in Objs \ {o} : child'[u] = child[u]
  BY DEF LInv, LTypeOK, HelperExits, NoChild, PlacesOK, ChildPCs
<1>2. /\ k' \in KType /\ k'.ofd = k.ofd
      /\ k'.posix = IF k.posix = Child(o) THEN None ELSE k.posix
      /\ k'.fds[Child(o)] = {}
      /\ \A y \in Everyone \ {Child(o)} : k'.fds[y] = k.fds[y]
  BY HelperGone DEF HelperExits
<1>3. HelperMove(o) /\ PosixMove(o)
  BY <1>1, <1>2 DEF LInv, LTypeOK, HelperMove, PosixMove
<1>4. ASSUME Owner[o] \in alive PROVE Stage(o)'
  <2>1. Stage(o)
    BY <1>4 DEF LInv, Stages
  <2>2. k'.fds[App(Owner[o])] = k.fds[App(Owner[o])]
    BY <1>2, Processes, ProcessNames
  <2> QED
    BY <1>1, <1>4, <2>1, <2>2 DEF Stage
<1> QED
  BY <1>3, <1>4, HelperStep

(* The helper goes on, and keeps what it needs.                            *)
LEMMA HelperGoesInv ==
    ASSUME LInv, NEW o \in Objs, NEW pc \in {"closefrom", "setlk"}, HelperGoes(o, pc),
           NEW D, LockFile(o) \notin D, k' = Closed(k, Child(o), D),
           child[o].pc \in {"start", "closefrom"}, UNCHANGED <<obj, sent, alive>>
    PROVE  LInv'
<1>1. /\ PlacesOK(child, ChildPCs)' /\ child'[o].pc = pc
      /\ \A u \in Objs \ {o} : child'[u] = child[u]
  BY Helpers DEF LInv, LTypeOK, ChildPCs
<1>2. k \in KType /\ Child(o) \in Everyone /\ k.posix # Child(o)
  BY Processes DEF LInv, LTypeOK, PosixKept
<1>3. /\ k' \in KType /\ k'.posix = k.posix /\ k'.fds[Child(o)] = k.fds[Child(o)] \ D
      /\ \A y \in Everyone \ {Child(o)} : k'.fds[y] = k.fds[y]
      /\ k'.ofd = IF \E y \in Everyone : k.ofd \in k'.fds[y] THEN k.ofd ELSE None
  BY <1>2, Closing
<1>4. k.ofd = None \/ \E y \in Everyone : k.ofd \in k'.fds[y]
  BY <1>2, <1>3, Processes, ProcessNames DEF LInv, KType, OfdKept
<1>5. k'.ofd = k.ofd
  BY <1>3, <1>4
<1>6. HelperMove(o)
  <2>1. LTypeOK /\ LockFile(o) \in k.fds[Child(o)]
    BY DEF LInv, PosixKept
  <2>2. LockFile(o) \in k'.fds[Child(o)]
    BY <1>3, <2>1
  <2> QED
    BY <1>1, <1>3, <1>5, <2>1, <2>2 DEF LTypeOK, HelperMove
<1>7. PosixMove(o)
  BY <1>1, <1>2, <1>3 DEF PosixMove
<1>8. ASSUME Owner[o] \in alive PROVE Stage(o)'
  <2>1. Stage(o)
    BY <1>8 DEF LInv, Stages
  <2>2. k'.fds[App(Owner[o])] = k.fds[App(Owner[o])]
    BY <1>3, Processes, ProcessNames
  <2> QED
    BY <1>1, <2>1, <2>2 DEF Stage
<1> QED
  BY <1>6, <1>7, <1>8, HelperStep

(* The helper moves the socket and the lock file to descriptors 0 to 2.    *)
LEMMA ChildDupInv ==
    ASSUME LInv, NEW o \in Objs, child_dup(o)
    PROVE  LInv'
<1>1. child[o].pc = "start" /\ UNCHANGED <<obj, sent, alive>>
  BY DEF child_dup
<1>2. CASE HelperExits(o)
  BY <1>1, <1>2, HelperExitsInv
<1>3. CASE k' = Closed(k, Child(o), {ParentEnd(o)}) /\ HelperGoes(o, "closefrom")
  BY <1>1, <1>3, FileNames, HelperGoesInv
<1> QED
  BY <1>2, <1>3 DEF child_dup

(* closefrom(): other threads' descriptors of the lock file are closed     *)
(* before the helper has a lock to lose.                                   *)
LEMMA ChildClosefromInv ==
    ASSUME LInv, NEW o \in Objs, child_closefrom(o)
    PROVE  LInv'
<1> DEFINE D == k.fds[Child(o)] \ {ChildEnd(o), LockFile(o)}
<1>1. /\ child[o].pc = "closefrom" /\ UNCHANGED <<obj, sent, alive>>
      /\ k' = Closed(k, Child(o), D) /\ HelperGoes(o, "setlk")
  BY DEF child_closefrom, closefrom
<1>2. LockFile(o) \notin D
  OBVIOUS
<1> QED
  BY <1>1, <1>2, HelperGoesInv

(* The helper's fcntl(F_SETLK).                                            *)
LEMMA ChildSetlkInv ==
    ASSUME LInv, NEW o \in Objs, child_setlk(o) \/ child_setlk_fails(o)
    PROVE  LInv'
<1>1. child[o].pc = "setlk" /\ UNCHANGED <<obj, sent, alive>>
  BY DEF child_setlk, child_setlk_fails
<1>2. CASE HelperExits(o)
  BY <1>1, <1>2, HelperExitsInv
<1>3. CASE ~IsLocked(k) /\ k' = [k EXCEPT !.posix = Child(o)] /\ HelperGoes(o, "write")
  <2>1. /\ PlacesOK(child, ChildPCs)' /\ child'[o].pc = "write"
        /\ \A u \in Objs \ {o} : child'[u] = child[u]
    BY <1>3, Helpers DEF LInv, LTypeOK, ChildPCs
  <2>2. k.posix = None /\ k.ofd = None
    BY <1>3 DEF IsLocked
  <2>3. k' \in KType /\ k'.fds = k.fds /\ k'.ofd = k.ofd /\ k'.posix = Child(o)
    BY <1>3 DEF LInv, LTypeOK, KType
  <2>4. HelperMove(o)
    BY <1>1, <2>1, <2>3 DEF LInv, LTypeOK, PosixKept, HelperMove
  <2>5. PosixMove(o)
    BY <2>1, <2>2, <2>3 DEF PosixMove
  <2>6. Owner[o] \in alive => Stage(o)'
    BY <1>1, <2>1, <2>3 DEF LInv, Stages, Stage
  <2> QED
    BY <2>4, <2>5, <2>6, HelperStep
<1> QED
  BY <1>2, <1>3 DEF child_setlk, child_setlk_fails

(* The helper reports the lock, or finds nobody to report to.              *)
LEMMA ChildWriteInv ==
    ASSUME LInv, NEW o \in Objs, child_write(o)
    PROVE  LInv'
<1>1. child[o].pc = "write" /\ UNCHANGED <<obj, alive>>
  BY DEF child_write
<1>2. CASE HelperExits(o) /\ sent' = sent
  BY <1>1, <1>2, HelperExitsInv
<1>3. CASE HelperGoes(o, "cat") /\ sent' = sent \cup {o} /\ k' = k
  <2>1. /\ PlacesOK(child, ChildPCs)' /\ child'[o].pc = "cat"
        /\ \A u \in Objs \ {o} : child'[u] = child[u]
    BY <1>3, Helpers DEF LInv, LTypeOK, ChildPCs
  <2>2. HelperMove(o)
    BY <1>1, <1>3, <2>1 DEF LInv, LTypeOK, PosixKept, HelperMove
  <2>3. PosixMove(o)
    BY <1>1, <1>3, <2>1 DEF LInv, PosixKept, PosixMove
  <2>4. ASSUME Owner[o] \in alive PROVE Stage(o)'
    <3>1. Stage(o)
      BY <2>4 DEF LInv, Stages
    <3>2. Owner[o] \notin OfdProcs
      BY <1>1 DEF LInv, OfdAlone
    <3> QED
      BY <1>1, <1>3, <2>1, <3>1, <3>2 DEF Stage
  <2> QED
    BY <2>2, <2>3, <2>4, HelperStep
<1> QED
  BY <1>2, <1>3 DEF child_write

(* cat ends only when nobody holds the other end, so not under a writer.   *)
LEMMA ChildEndsInv ==
    ASSUME LInv, NEW o \in Objs, child_cat(o) \/ reaped(o)
    PROVE  LInv'
<1>1. CASE child_cat(o)
  <2>1. /\ child[o].pc = "cat" /\ UNCHANGED <<obj, sent, alive>> /\ HelperExits(o)
        /\ \A x \in Everyone : ParentEnd(o) \notin k.fds[x]
    BY <1>1 DEF child_cat, HeldSomewhere
  <2>2. Owner[o] \in alive
          => obj[o].pc \notin {"parent_close", "parent_read", "tables", "open", "release"}
    BY <2>1, Processes DEF LInv, Stages, Stage, OfdAlone
  <2> QED
    BY <2>1, <2>2, HelperExitsInv
<1>2. CASE reaped(o)
  <2>1. child[o].pc = "exited" /\ UNCHANGED <<k, obj, sent, alive>> /\ Owner[o] \notin alive
    BY <1>2 DEF reaped
  <2>2. /\ PlacesOK(child, ChildPCs)' /\ child'[o].pc = "none"
        /\ \A u \in Objs \ {o} : child'[u] = child[u]
    BY <1>2 DEF LInv, LTypeOK, reaped, NoChild, PlacesOK, ChildPCs
  <2>3. HelperMove(o)
    BY <2>1, <2>2 DEF LInv, LTypeOK, HelperMove
  <2>4. PosixMove(o)
    BY <2>1, <2>2 DEF LInv, PosixKept, PosixMove
  <2> QED
    BY <2>1, <2>3, <2>4, HelperStep
<1> QED
  BY <1>1, <1>2

(* The death of an application, at any place in any of its calls.          *)
LEMMA CrashInv ==
    ASSUME LInv, NEW p \in Procs, crash(p)
    PROVE  LInv'
<1> USE DEF LInv
<1>1. /\ p \in alive /\ alive' = alive \ {p} /\ UNCHANGED <<child, sent>>
      /\ k' = Closed(k, App(p), k.fds[App(p)])
      /\ obj' = [o \in Objs |-> IF Owner[o] = p THEN Idle ELSE obj[o]]
  BY DEF crash, Exited
<1>2. PlacesOK(obj, PCs)' /\ PlacesOK(child, ChildPCs)'
  BY <1>1 DEF LTypeOK, PlacesOK, Idle, PCs
<1>3. /\ k' \in KType /\ k'.posix = k.posix
      /\ k'.fds[App(p)] = k.fds[App(p)] \ k.fds[App(p)]
      /\ \A y \in Everyone \ {App(p)} : k'.fds[y] = k.fds[y]
  <2>1. k \in KType /\ App(p) \in Everyone
    BY Processes DEF LTypeOK
  <2>2. k.posix # App(p)
    BY <2>1, ProcessNames DEF KType, None, App
  <2> QED
    BY <1>1, <2>1, <2>2, Closing
<1>4. k'.fds[App(p)] = {} /\ \A y \in Everyone \ {App(p)} : k'.fds[y] = k.fds[y]
  BY <1>3 DEF LTypeOK, KType
<1>5. \A o \in Objs : HoldsByOfd(o)' <=> HoldsByOfd(o) /\ Owner[o] # p
  BY <1>1 DEF HoldsByOfd, Idle
<1>6. \A o \in Objs : k'.ofd = LockFile(o) <=> HoldsByOfd(o)'
  <2>1. CASE \E o \in Objs : HoldsByOfd(o) /\ Owner[o] = p
    <3>1. PICK o \in Objs : HoldsByOfd(o) /\ Owner[o] = p
      BY <2>1
    <3>2. \A y \in Everyone : k.ofd \in k.fds[y] => y = App(p) /\ k.ofd \in k.fds[App(p)]
      BY <3>1 DEF OfdKept, HoldsByOfd, Apart, Everyone
    <3>3. k'.ofd = None
      BY <1>1, <3>2, OfdCloses
    <3> QED
      BY <1>5, <3>1, <3>3, FileNames DEF OfdKept
  <2>2. CASE \A o \in Objs : HoldsByOfd(o) => Owner[o] # p
    <3>1. k.ofd = None \/ \E y \in Everyone : k.ofd \in k'.fds[y]
      BY <1>4, <2>2, Processes, ProcessNames DEF LTypeOK, KType, OfdKept
    <3>2. k'.ofd = k.ofd
      BY <1>1, <3>1, Closing, Processes DEF LTypeOK
    <3> QED
      BY <1>5, <2>2, <3>2 DEF OfdKept
  <2> QED
    BY <2>1, <2>2
<1>7. LTypeOK'
  BY <1>1, <1>2, <1>3 DEF LTypeOK
<1>8. OfdKept'
  <2>1. \A o \in Objs : HoldsByOfd(o)' => LockFile(o) \in k'.fds[App(Owner[o])]
    BY <1>4, <1>5, Processes, ProcessNames DEF OfdKept
  <2> QED
    BY <1>6, <2>1 DEF OfdKept, HoldsByOfd
<1>9. Apart'
  BY <1>4, Processes DEF Apart
<1>10. PosixKept'
  <2> SUFFICES ASSUME NEW o \in Objs
               PROVE  /\ k'.posix = Child(o) <=> child'[o].pc \in {"write", "cat"}
                      /\ child'[o].pc \notin {"none", "exited"} => LockFile(o) \in k'.fds[Child(o)]
    BY DEF PosixKept
  <2>1. Child(o) \in Everyone \ {App(p)}
    BY Processes, ProcessNames
  <2> QED
    BY <1>1, <1>3, <1>4, <2>1 DEF PosixKept
<1>11. InOneWay'
  BY <1>3, <1>6, <1>7, <1>5 DEF InOneWay, OfdKept, LTypeOK, KType
<1>12. Stages'
  <2> SUFFICES ASSUME NEW o \in Objs, Owner[o] \in alive' PROVE Stage(o)'
    BY DEF Stages
  <2>1. Owner[o] \in alive /\ Owner[o] # p
    BY <1>1
  <2>2. obj'[o] = obj[o] /\ child'[o] = child[o] /\ sent' = sent
    BY <1>1, <2>1 DEF LTypeOK, PlacesOK
  <2>3. App(Owner[o]) \in Everyone \ {App(p)}
    BY <2>1, Processes, ProcessNames
  <2>4. k'.fds[App(Owner[o])] = k.fds[App(Owner[o])]
    BY <1>4, <2>3
  <2>5. Stage(o)
    BY <2>1 DEF Stages
  <2> QED
    BY <2>2, <2>4, <2>5, StageKept
<1>13. OfdAlone'
  BY <1>1 DEF OfdAlone
<1> QED
  BY <1>7, <1>8, <1>9, <1>10, <1>11, <1>12, <1>13

(* Nothing is open at first.                                               *)
LEMMA InitLInv == Init => LInv
<1> SUFFICES ASSUME Init PROVE LInv
  OBVIOUS
<1> USE DEF Init
<1>1. \A o \in Objs : obj[o].pc = "idle" /\ child[o].pc = "none"
  BY DEF Idle, NoChild
<1>2. LTypeOK
  <2>1. k \in KType
    BY DEF KType
  <2>2. PlacesOK(obj, PCs) /\ PlacesOK(child, ChildPCs)
    BY DEF PlacesOK, PCs, ChildPCs, Idle, NoChild
  <2> QED
    BY <2>1, <2>2 DEF LTypeOK
<1>3. OfdKept /\ Apart
  BY <1>1, Processes, ProcessNames, FileNames DEF OfdKept, HoldsByOfd, Apart
<1>4. PosixKept /\ InOneWay /\ OfdAlone
  BY <1>1, Processes, ProcessNames DEF PosixKept, InOneWay, OfdAlone
<1>5. Stages
  BY <1>1 DEF Stages, Stage
<1> QED
  BY <1>2, <1>3, <1>4, <1>5 DEF LInv

(* Every step of every process keeps the invariant.                        *)
LEMMA NextLInv == LInv /\ [Next]_vars => LInv'
<1> SUFFICES ASSUME LInv, [Next]_vars PROVE LInv'
  OBVIOUS
<1>1. ASSUME NEW o \in Objs, Call(o) PROVE LInv'
  BY <1>1, ConstructInv, UpdateLockInv, WriterInv, TestInv DEF Call
<1>2. ASSUME NEW o \in Objs, Parent(o) PROVE LInv'
  BY <1>2, OpenLockfileInv, OfdSetlkInv, SocketpairInv, ForkInv, ParentWaitsInv,
     WaitpidInv, WriterInv, ReleaseInv, KillHelperInv, TestInv DEF Parent
<1>3. ASSUME NEW o \in Objs, Helper(o) PROVE LInv'
  BY <1>3, ChildDupInv, ChildClosefromInv, ChildSetlkInv, ChildWriteInv, ChildEndsInv
     DEF Helper
<1>4. ASSUME NEW o \in Objs, Failure(o) PROVE LInv'
  BY <1>4, OfdSetlkInv, ChildSetlkInv, ParentWaitsInv DEF Failure
<1>5. CASE UNCHANGED vars
  BY <1>5 DEF vars, LInv, LTypeOK, PlacesOK, OfdKept, HoldsByOfd, Apart, PosixKept,
              InOneWay, Stages, Stage, OfdAlone
<1> QED
  BY <1>1, <1>2, <1>3, <1>4, <1>5, CrashInv DEF Next

(* Who has which descriptor, at each place of lock(), release() and the    *)
(* helper, is as the invariant says in every reachable state.              *)
THEOREM LockInvariant == Spec => []LInv
BY InitLInv, NextLInv, PTL DEF Spec

(* Two writable databases are never open on one directory, and the one     *)
(* that is open has the kernel's lock, for any number of processes and     *)
(* databases and any faults (FlintLock::lock(), release() and the helper). *)
THEOREM OneWriterHolds == Spec => []OneWriter
<1>1. LInv => OneWriter
  <2> SUFFICES ASSUME LInv PROVE OneWriter
    OBVIOUS
  <2>1. \A o \in Objs : Writing(o) =>
           IF Owner[o] \in OfdProcs THEN k.ofd = LockFile(o) ELSE k.posix = Child(o)
    BY DEF LInv, Writing, OfdKept, HoldsByOfd, Stages, Stage, PosixKept
  <2>2. \A o, u \in Objs : Writing(o) /\ Writing(u) => o = u
    BY <2>1, ProcessNames, FileNames DEF LInv, InOneWay
  <2> QED
    BY <2>1, <2>2 DEF OneWriter, Owns
<1> QED
  BY <1>1, LockInvariant, PTL

(* Once lock() has failed or close() is back, the object has no lock and   *)
(* no helper left (FlintLock::release(), waitpid() and kill()).            *)
THEOREM ClosedIsReleasedHolds == Spec => []ClosedIsReleased
<1>1. LInv => ClosedIsReleased
  BY DEF LInv, ClosedIsReleased, At, Owns, Stages, Stage, OfdKept, HoldsByOfd, PosixKept
<1> QED
  BY <1>1, LockInvariant, PTL
=============================================================================
