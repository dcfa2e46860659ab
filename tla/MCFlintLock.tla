----------------------------- MODULE MCFlintLock -----------------------------
(* Two objects in one process, so that it forks while another of its       *)
(* threads is in lock(), and one in a second process.                      *)
EXTENDS FlintLock

MCOwner == [o \in Objs |-> IF o = "z" THEN "q" ELSE "p"]

MCActions == [o \in Objs |-> IF o # "z" THEN {"OPEN"} ELSE {"CREATE", "LOCK"}]

\* What the deviations need: creators, and readers that ask for the lock.
MCCreating == [o \in Objs |-> {"CREATE_OR_OPEN"}]
MCLocking == [o \in Objs |-> {"LOCK"}]
=============================================================================
