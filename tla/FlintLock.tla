------------------------------ MODULE FlintLock ------------------------------
(***************************************************************************)
(* The write lock of a database directory (FlintLock), and the opening and *)
(* closing of writable glass databases around it.                          *)
(*                                                                         *)
(* A process takes the lock in one of two ways: with an OFD lock, owned by *)
(* the open file itself, or, where those are missing, through a forked     *)
(* helper process that takes a POSIX lock, reports with one byte over a    *)
(* socket and then reads from that socket until nobody holds its other end *)
(* any more.  Closing ANY descriptor of the lock file drops a process's    *)
(* POSIX locks, and fork() copies every descriptor the process has at that *)
(* moment, those of other threads in lock() included: this is what the     *)
(* order of the helper's steps has to cope with.                           *)
(*                                                                         *)
(* Processes of both kinds may meet at one lock file: an earlier release   *)
(* of the library takes POSIX locks only.                                  *)
(***************************************************************************)
EXTENDS Integers, FiniteSets, TLC

CONSTANTS Procs,        \* application processes
          Objs,         \* writable databases, each with its FlintLock
          Owner,        \* the process each belongs to
          OfdProcs,     \* the processes whose kernel and library have OFD locks
          Actions,      \* the ways each is opened
          MaxCalls,     \* bound on the calls that open an object or test its lock
          Faults        \* what may go wrong, of AllFaults

\* Those of DB_ACTION_MASK_, and Database::lock() on an open reader.
AllActions == {"CREATE_OR_OPEN", "CREATE_OR_OVERWRITE", "CREATE", "OPEN", "LOCK"}

AllFaults == {"fd_limit", "fork", "no_locks", "read", "crash"}

ASSUME ConstantsOK ==
    /\ Owner \in [Objs -> Procs] /\ OfdProcs \subseteq Procs
    /\ Actions \in [Objs -> SUBSET AllActions]
    /\ MaxCalls \in Nat /\ Faults \subseteq AllFaults

VARIABLES k,            \* the kernel: descriptors and locks
          obj,          \* the objects, and the calls they are in
          child,        \* the helper processes
          sent,         \* the helpers whose byte is in the socket
          alive,        \* the application processes that live
          db            \* the directory: "nodir", "empty" or "there", and whether
                        \* something has been committed to it

vars == <<k, obj, child, sent, alive, db>>

-----------------------------------------------------------------------------
(* The kernel.  A process is an application, the helper of an object, or a *)
(* copy that an application has made of itself.                            *)

None == <<"none", "none">>
App(p) == <<"app", p>>
Child(o) == <<"child", o>>
Worker(p) == <<"worker", p>>
Everyone ==
    {App(p) : p \in Procs} \cup {Worker(p) : p \in Procs} \cup {Child(o) : o \in Objs}

LockFile(o) == <<"lockfd", o>>
TestFile(o) == <<"testfd", o>>
ParentEnd(o) == <<"fds0", o>>
ChildEnd(o) == <<"fds1", o>>
OnLockFile == {LockFile(o) : o \in Objs} \cup {TestFile(o) : o \in Objs}

Opened(kern, x, D) == [kern EXCEPT !.fds[x] = @ \cup D]

Closed(kern, x, D) ==
    LET gone == D \cap kern.fds[x]
        fds == [kern.fds EXCEPT ![x] = @ \ D]
    IN  [fds |-> fds,
         posix |-> IF kern.posix = x /\ gone \cap OnLockFile # {} THEN None ELSE kern.posix,
         ofd |-> IF \E y \in Everyone : kern.ofd \in fds[y] THEN kern.ofd ELSE None]

Exited(kern, x) == Closed(kern, x, kern.fds[x])

Forked(kern, x, y) == [kern EXCEPT !.fds[y] = kern.fds[x]]

IsLocked(kern) == kern.posix # None \/ kern.ofd # None

HeldSomewhere(d) == \E x \in Everyone : d \in k.fds[x]

-----------------------------------------------------------------------------
Idle == [pc |-> "idle", action |-> "OPEN", wait |-> FALSE, asked |-> FALSE,
         creating |-> FALSE, calls |-> 0]

NoChild == [pc |-> "none", wait |-> FALSE]

Init ==
    /\ k = [fds |-> [x \in Everyone |-> {}], posix |-> None, ofd |-> None]
    /\ obj = [o \in Objs |-> Idle]
    /\ child = [o \in Objs |-> NoChild]
    /\ sent = {}
    /\ alive = Procs
    /\ db \in {[at |-> "there", used |-> TRUE], [at |-> "nodir", used |-> FALSE]}

At(o, pc) == Owner[o] \in alive /\ obj[o].pc = pc

Goes(o, pc) == obj' = [obj EXCEPT ![o].pc = pc]

\* The call is over; the reasons it gives for a failure are not told apart.
Returns(o) == obj' = [obj EXCEPT ![o] = [Idle EXCEPT !.calls = obj[o].calls]]

\* Return from lock() without the lock, with these descriptors closed.
Fails(o, D) == k' = Closed(k, App(Owner[o]), D) /\ Returns(o)

HelperSame == UNCHANGED <<child, sent>>
RestSame == UNCHANGED <<alive, db>>

-----------------------------------------------------------------------------
(* GlassDatabase's constructor up to the lock: whether the database exists *)
(* is looked up here, and acted on once the lock is there.                 *)
construct(o, action, wait) ==
    /\ At(o, "idle") /\ obj[o].calls < MaxCalls
    /\ LET missing == action # "OPEN" /\ db.at # "there"
           call == [obj[o] EXCEPT !.action = action, !.wait = wait, !.asked = wait,
                                  !.creating = missing, !.calls = @ + 1]
       IN  /\ db' = IF missing /\ db.at = "nodir" THEN [db EXCEPT !.at = "empty"] ELSE db
           /\ obj' = [obj EXCEPT ![o] =
                          IF action = "CREATE" /\ ~missing
                          THEN [Idle EXCEPT !.calls = call.calls]
                          ELSE [call EXCEPT !.pc = "open_lockfile"]]
    /\ UNCHANGED <<k, child, sent, alive>>

\* Database::lock(DB_RETRY_LOCK) on an open reader: the flags do not get as
\* far as the constructor's, which are DB_OPEN.
update_lock(o) ==
    /\ At(o, "idle") /\ obj[o].calls < MaxCalls /\ db.at = "there" /\ "LOCK" \in Actions[o]
    /\ obj' = [obj EXCEPT ![o] = [@ EXCEPT !.pc = "open_lockfile", !.action = "OPEN",
                                           !.wait = FALSE, !.asked = TRUE,
                                           !.creating = FALSE, !.calls = @ + 1]]
    /\ UNCHANGED <<k, child, sent, alive, db>>

-----------------------------------------------------------------------------
(* FlintLock::lock().                                                      *)

open_lockfile(o) ==
    /\ At(o, "open_lockfile")
    /\ \/ /\ db.at # "nodir"
          /\ k' = Opened(k, App(Owner[o]), {LockFile(o)})
          /\ Goes(o, IF Owner[o] \in OfdProcs THEN "ofd_setlk" ELSE "socketpair")
       \/ /\ db.at = "nodir"
          /\ Returns(o) /\ UNCHANGED k
       \/ /\ "fd_limit" \in Faults
          /\ Returns(o) /\ UNCHANGED k
    /\ HelperSame /\ RestSame

ofd_setlk(o) ==
    /\ At(o, "ofd_setlk")
    /\ \/ /\ ~IsLocked(k)
          /\ k' = [k EXCEPT !.ofd = LockFile(o)] /\ Goes(o, "tables")
       \/ /\ IsLocked(k) /\ ~obj[o].wait
          /\ Fails(o, {LockFile(o)})
    /\ HelperSame /\ RestSame

ofd_setlk_fails(o) ==
    /\ "no_locks" \in Faults /\ At(o, "ofd_setlk")
    /\ Fails(o, {LockFile(o)})
    /\ HelperSame /\ RestSame

socketpair(o) ==
    /\ At(o, "socketpair")
    /\ \/ /\ k' = Opened(k, App(Owner[o]), {ParentEnd(o), ChildEnd(o)}) /\ Goes(o, "fork")
       \/ /\ "fd_limit" \in Faults
          /\ Fails(o, {LockFile(o)})
    /\ HelperSame /\ RestSame

fork(o) ==
    /\ At(o, "fork")
    /\ \/ /\ k' = Forked(k, App(Owner[o]), Child(o))
          /\ child' = [child EXCEPT ![o] = [NoChild EXCEPT !.pc = "start", !.wait = obj[o].wait]]
          /\ Goes(o, "parent_close")
       \/ /\ "fork" \in Faults
          /\ Fails(o, {LockFile(o), ChildEnd(o), ParentEnd(o)})
          /\ UNCHANGED child
    /\ UNCHANGED sent /\ RestSame

\* Mutant: the parent keeps the child's end of the socket.
MCloseLockOnly(o) ==
    /\ At(o, "parent_close")
    /\ k' = Closed(k, App(Owner[o]), {LockFile(o)}) /\ Goes(o, "parent_read")
    /\ HelperSame /\ RestSame

parent_close(o) ==
    /\ At(o, "parent_close")
    /\ k' = Closed(k, App(Owner[o]), {LockFile(o), ChildEnd(o)}) /\ Goes(o, "parent_read")
    /\ HelperSame /\ RestSame

parent_read(o) ==
    /\ At(o, "parent_read")
    /\ \/ /\ o \in sent
          /\ sent' = sent \ {o} /\ Goes(o, "tables") /\ UNCHANGED k
       \/ /\ o \notin sent /\ ~HeldSomewhere(ChildEnd(o))
          /\ k' = Closed(k, App(Owner[o]), {ParentEnd(o)}) /\ Goes(o, "waitpid") /\ UNCHANGED sent
    /\ UNCHANGED child /\ RestSame

read_fails(o) ==
    /\ "read" \in Faults /\ At(o, "parent_read")
    /\ k' = Closed(k, App(Owner[o]), {ParentEnd(o)}) /\ Goes(o, "waitpid")
    /\ HelperSame /\ RestSame

waitpid(o) ==
    /\ At(o, "waitpid") /\ child[o].pc = "exited"
    /\ child' = [child EXCEPT ![o] = NoChild] /\ sent' = sent \ {o}
    /\ Returns(o)
    /\ UNCHANGED k /\ RestSame

-----------------------------------------------------------------------------
(* The helper.                                                             *)

HelperExits(o) ==
    /\ k' = Exited(k, Child(o))
    /\ child' = [child EXCEPT ![o] = [NoChild EXCEPT !.pc = "exited"]]

HelperGoes(o, pc) == child' = [child EXCEPT ![o].pc = pc]

\* Descriptors 0, 1 and 2 become the socket and the lock file.
child_dup(o) ==
    /\ child[o].pc = "start"
    /\ \/ k' = Closed(k, Child(o), {ParentEnd(o)}) /\ HelperGoes(o, "closefrom")
       \/ "fd_limit" \in Faults /\ HelperExits(o)
    /\ UNCHANGED <<obj, sent, alive, db>>

\* All but descriptors 0, 1 and 2 are closed.
closefrom(kern, o) == Closed(kern, Child(o), kern.fds[Child(o)] \ {ChildEnd(o), LockFile(o)})

\* Mutant: nothing is closed.
MKeepAll(o) ==
    /\ child[o].pc = "closefrom"
    /\ HelperGoes(o, "setlk")
    /\ UNCHANGED <<k, obj, sent, alive, db>>

\* Mutant: the lock is taken before the other descriptors are closed.
MLockThenClose(o) ==
    /\ child[o].pc = "closefrom"
    /\ \/ /\ ~IsLocked(k)
          /\ k' = closefrom([k EXCEPT !.posix = Child(o)], o)
          /\ HelperGoes(o, "write")
       \/ IsLocked(k) /\ ~child[o].wait /\ HelperExits(o)
    /\ UNCHANGED <<obj, sent, alive, db>>

child_closefrom(o) ==
    /\ child[o].pc = "closefrom"
    /\ k' = closefrom(k, o)
    /\ HelperGoes(o, "setlk")
    /\ UNCHANGED <<obj, sent, alive, db>>

child_setlk(o) ==
    /\ child[o].pc = "setlk"
    /\ \/ ~IsLocked(k) /\ k' = [k EXCEPT !.posix = Child(o)] /\ HelperGoes(o, "write")
       \/ IsLocked(k) /\ ~child[o].wait /\ HelperExits(o)
    /\ UNCHANGED <<obj, sent, alive, db>>

child_setlk_fails(o) ==
    /\ "no_locks" \in Faults /\ child[o].pc = "setlk"
    /\ HelperExits(o)
    /\ UNCHANGED <<obj, sent, alive, db>>

\* With nobody at the other end write() fails.
child_write(o) ==
    /\ child[o].pc = "write"
    /\ IF HeldSomewhere(ParentEnd(o))
       THEN HelperGoes(o, "cat") /\ sent' = sent \cup {o} /\ UNCHANGED k
       ELSE HelperExits(o) /\ UNCHANGED sent
    /\ UNCHANGED <<obj, alive, db>>

\* /bin/cat, or the loop that stands in for it, until the end of the input.
child_cat(o) ==
    /\ child[o].pc = "cat" /\ ~HeldSomewhere(ParentEnd(o))
    /\ HelperExits(o)
    /\ UNCHANGED <<obj, sent, alive, db>>

\* A helper whose parent has died is reaped by init.
reaped(o) ==
    /\ child[o].pc = "exited" /\ Owner[o] \notin alive
    /\ child' = [child EXCEPT ![o] = NoChild]
    /\ UNCHANGED <<k, obj, sent, alive, db>>

-----------------------------------------------------------------------------
(* With the lock: the tables are created or opened, written, closed.       *)

open_tables(o) ==
    /\ At(o, "tables")
    /\ \/ /\ obj[o].creating \/ obj[o].action = "CREATE_OR_OVERWRITE"
          /\ db' = [at |-> "there", used |-> FALSE] /\ Goes(o, "open")
       \/ /\ ~obj[o].creating /\ obj[o].action # "CREATE_OR_OVERWRITE"
          /\ Goes(o, IF db.at = "there" THEN "open" ELSE "release") /\ UNCHANGED db
    /\ UNCHANGED <<k, child, sent, alive>>

commit(o) ==
    /\ At(o, "open")
    /\ db' = [db EXCEPT !.used = TRUE]
    /\ UNCHANGED <<k, obj, child, sent, alive>>

close(o) ==
    /\ At(o, "open")
    /\ Goes(o, "release")
    /\ UNCHANGED <<k, child, sent, alive, db>>

\* FlintLock::release() closes fd, which is the lock file or the socket.
release(o) ==
    /\ At(o, "release")
    /\ k' = Closed(k, App(Owner[o]), {LockFile(o), ParentEnd(o)})
    /\ IF Owner[o] \in OfdProcs THEN Returns(o) ELSE Goes(o, "kill")
    /\ HelperSame /\ RestSame

\* Mutant: the helper is left to itself.
MNoKill(o) ==
    /\ At(o, "kill")
    /\ Returns(o)
    /\ UNCHANGED <<k, child, sent>> /\ RestSame

kill_helper(o) ==
    /\ At(o, "kill")
    /\ k' = Exited(k, Child(o))
    /\ child' = [child EXCEPT ![o] = NoChild]
    /\ Returns(o)
    /\ UNCHANGED sent /\ RestSame

-----------------------------------------------------------------------------
(* Database::locked(): FlintLock::test() of a reader.                      *)

test_open(o) ==
    /\ At(o, "idle") /\ obj[o].calls < MaxCalls /\ db.at # "nodir"
    /\ k' = Opened(k, App(Owner[o]), {TestFile(o)})
    /\ obj' = [obj EXCEPT ![o] = [@ EXCEPT !.pc = "test", !.calls = @ + 1]]
    /\ HelperSame /\ RestSame

test_close(o) ==
    /\ At(o, "test")
    /\ k' = Closed(k, App(Owner[o]), {TestFile(o)})
    /\ Goes(o, "idle")
    /\ HelperSame /\ RestSame

-----------------------------------------------------------------------------
(* The application dies; it forks a copy of itself, which ends some time.  *)

crash(p) ==
    /\ "crash" \in Faults /\ p \in alive
    /\ alive' = alive \ {p}
    /\ k' = Exited(k, App(p))
    /\ obj' = [o \in Objs |-> IF Owner[o] = p THEN Idle ELSE obj[o]]
    /\ UNCHANGED <<child, sent, db>>

app_fork(p) ==
    /\ p \in alive /\ k.fds[Worker(p)] = {}
    /\ k' = Forked(k, App(p), Worker(p))
    /\ UNCHANGED <<obj, child, sent, alive, db>>

worker_exits(p) ==
    /\ k.fds[Worker(p)] # {}
    /\ k' = Exited(k, Worker(p))
    /\ UNCHANGED <<obj, child, sent, alive, db>>

-----------------------------------------------------------------------------
Call(o) ==
    \/ \E action \in Actions[o] \ {"LOCK"}, wait \in BOOLEAN : construct(o, action, wait)
    \/ update_lock(o)
    \/ commit(o) \/ close(o) \/ test_open(o)

Parent(o) ==
    \/ open_lockfile(o) \/ ofd_setlk(o) \/ socketpair(o) \/ fork(o)
    \/ parent_close(o) \/ parent_read(o) \/ waitpid(o)
    \/ open_tables(o) \/ release(o) \/ kill_helper(o) \/ test_close(o)

Helper(o) ==
    \/ child_dup(o) \/ child_closefrom(o) \/ child_setlk(o) \/ child_write(o)
    \/ child_cat(o) \/ reaped(o)

\* What may always happen to a call that waits, and nobody may rely on.
Failure(o) == ofd_setlk_fails(o) \/ child_setlk_fails(o) \/ read_fails(o)

Next ==
    \/ \E o \in Objs : Call(o) \/ Parent(o) \/ Helper(o) \/ Failure(o)
    \/ \E p \in Procs : crash(p)

Spec == Init /\ [][Next]_vars

\* The system runs every process that can run; nobody has to call anything,
\* or to close what is open.
FairSpec == Spec /\ WF_vars(\E o \in Objs : Parent(o) \/ Helper(o))

\* The application forks copies of itself meanwhile.
SpecForks == Init /\ [][Next \/ \E p \in Procs : app_fork(p) \/ worker_exits(p)]_vars

-----------------------------------------------------------------------------
Owns(o) == k.posix = Child(o) \/ k.ofd = LockFile(o)

Writing(o) == Owner[o] \in alive /\ obj[o].pc \in {"tables", "open", "release"}

(* "WritableDatabase ... its write lock": two writable databases are never *)
(* open on one directory, in one process or in several, of either kind,    *)
(* and the one that is open has the kernel's lock (FlintLock::lock() and   *)
(* release(), while other threads fork, test and close).                   *)
OneWriter ==
    /\ \A o \in Objs : Writing(o) => Owns(o)
    /\ \A o, u \in Objs : Writing(o) /\ Writing(u) => o = u

(* "Also the write lock is released" (close(), database.h), and an attempt *)
(* that failed leaves none behind: once the call is back, the object has   *)
(* no lock, and no helper, that could keep the next writer out.            *)
ClosedIsReleased ==
    \A o \in Objs : At(o, "idle") => ~Owns(o) /\ child[o].pc = "none"

(* A writer that dies, wherever it is, leaves the lock free in the end:    *)
(* its helpers find the end of their input, also when they wait for each   *)
(* other's lock.                                                           *)
LockComesFree ==
    <>[](\A o \in Objs : Owner[o] \notin alive => ~Owns(o))

(* lock() without DB_RETRY_LOCK comes back, with the lock or without it:   *)
(* the end of the input gets to the parent however the helper ends.        *)
LockReturns ==
    <>[](\A o \in Objs : obj[o].pc \in {"idle", "open"} \/ obj[o].wait)

-----------------------------------------------------------------------------
(* "Create database if it doesn't already exist" (DB_CREATE_OR_OPEN,       *)
(* constants.h): opening one that exists takes nothing out of it.          *)
NothingWiped ==
    [][\A o \in Objs :
         obj[o].pc = "tables" /\ obj'[o].pc = "open" /\ obj[o].action # "CREATE_OR_OVERWRITE"
             => (db.used => db'.used)]_vars

(* "If this flag is specified, then Xapian will instead wait for the lock" *)
(* (DB_RETRY_LOCK, constants.h), of Database::lock(flags) as well.         *)
RetryWaits ==
    [][\A o \in Objs :
         obj[o].asked /\ obj[o].pc = "ofd_setlk" => obj'[o].pc # "idle"]_vars
=============================================================================
