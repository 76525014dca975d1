------------------------------- MODULE LockFile -------------------------------
(* The guard against a double invocation of uart_flash_mmc_programming.sh and  *)
(* of hailo-dma-usage.sh: flock on the file $LOCK_FILE, which the owner and    *)
(* the signal handler also remove.  The lock belongs to the inode that was     *)
(* opened, the removal to the path.                                            *)
EXTENDS Naturals

CONSTANTS
    Procs,      \* invocations; each may be run again when it has ended
    Inodes,     \* inodes of /tmp; twice as many as Procs are enough, they are reused
    NoFile,     \* the path does not exist / the descriptor is closed
    NoProc      \* nobody holds the lock

ASSUME LockAssumption == NoFile \notin Inodes /\ NoProc \notin Procs

VARIABLES
    path,       \* the inode $LOCK_FILE names
    fd,         \* the inode behind descriptor 200 of each invocation
    child,      \* the inode a child that outlives its invocation holds by that descriptor
    owner,      \* who took the lock of each inode
    pc          \* "idle", "opened", "main", "removed", "trap"

vars == <<path, fd, child, owner, pc>>

Goto(p, label) == pc' = [pc EXCEPT ![p] = label]

\* The lock belongs to the open file, which the children inherit (tee, sz, the
\* flash programs): it is dropped when the last of them has closed it.
Close(p) ==
    /\ fd' = [fd EXCEPT ![p] = NoFile]
    /\ owner' = IF owner[fd[p]] = p /\ child[p] # fd[p]
                THEN [owner EXCEPT ![fd[p]] = NoProc] ELSE owner
    /\ UNCHANGED child

\* The invocation ends before one of its children.  Bound: one at a time.
LeaveToChild(p) ==
    /\ pc[p] \in {"main", "removed"} /\ child[p] = NoFile
    /\ child' = [child EXCEPT ![p] = fd[p]]
    /\ fd' = [fd EXCEPT ![p] = NoFile]
    /\ UNCHANGED owner

Unused == {i \in Inodes : path # i /\ \A p \in Procs : fd[p] # i /\ child[p] # i}
-------------------------------------------------------------------------------
(* Faulty variants; Next does not use them.                                    *)

\* The owner is recorded in the file, as with a file of the process number.
InterruptKeepingLock(p) ==
    /\ pc[p] \in {"opened", "main", "removed"}
    /\ fd' = [fd EXCEPT ![p] = NoFile]
    /\ Goto(p, "trap")
    /\ UNCHANGED <<path, child, owner>>

\* Refused because the file exists, not because it is locked.
AbortIfExists(p) ==
    /\ pc[p] = "opened"
    /\ path # NoFile
    /\ Close(p)
    /\ Goto(p, "idle")
    /\ UNCHANGED path
-------------------------------------------------------------------------------
Init ==
    /\ path \in Inodes \cup {NoFile}
    /\ fd = [p \in Procs |-> NoFile]
    /\ child = [p \in Procs |-> NoFile]
    /\ owner = [i \in Inodes |-> NoProc]
    /\ pc = [p \in Procs |-> "idle"]

\* ( ... ) 200>$LOCK_FILE
Open(p) ==
    /\ pc[p] = "idle"
    /\ \/ path # NoFile /\ fd' = [fd EXCEPT ![p] = path] /\ UNCHANGED path
       \/ /\ path = NoFile
          /\ \E i \in Unused : path' = i /\ fd' = [fd EXCEPT ![p] = i]
    /\ Goto(p, "opened")
    /\ UNCHANGED <<child, owner>>

\* flock -xn 200
Lock(p) ==
    /\ pc[p] = "opened"
    /\ owner[fd[p]] = NoProc
    /\ owner' = [owner EXCEPT ![fd[p]] = p]
    /\ Goto(p, "main")
    /\ UNCHANGED <<path, fd, child>>

Abort(p) ==
    /\ pc[p] = "opened"
    /\ owner[fd[p]] # NoProc
    /\ Close(p)
    /\ Goto(p, "idle")
    /\ UNCHANGED path

\* rm -rf $LOCK_FILE: after main, and when getopt refuses the options.
Remove(p) ==
    /\ pc[p] = "main"
    /\ path' = NoFile
    /\ Goto(p, "removed")
    /\ UNCHANGED <<fd, child, owner>>

\* exit; also from main without the removal (--help, set -e).  tee ends after it.
Exit(p) ==
    /\ pc[p] \in {"main", "removed"}
    /\ Close(p) \/ LeaveToChild(p)
    /\ Goto(p, "idle")
    /\ UNCHANGED path

\* A signal to the process group ends the subshell, and its children unless one of
\* them goes on (tee writes out what it has); then the shell that waits for the
\* subshell runs trap_func.
Interrupt(p) ==
    /\ pc[p] \in {"opened", "main", "removed"}
    /\ Close(p) \/ LeaveToChild(p)
    /\ Goto(p, "trap")
    /\ UNCHANGED path

\* A signal to the shells alone, or to the subshell alone (the trap is not run).
Kill(p) ==
    /\ LeaveToChild(p)
    /\ Goto(p, "trap") \/ Goto(p, "idle")
    /\ UNCHANGED path

ChildEnds(p) ==
    /\ child[p] # NoFile
    /\ child' = [child EXCEPT ![p] = NoFile]
    /\ owner' = [owner EXCEPT ![child[p]] = NoProc]
    /\ UNCHANGED <<path, fd, pc>>

TrapFunc(p) ==
    /\ pc[p] = "trap"
    /\ path' = NoFile
    /\ Goto(p, "idle")
    /\ UNCHANGED <<fd, child, owner>>

Next ==
    \E p \in Procs :
        \/ Open(p) \/ Lock(p) \/ Abort(p) \/ Remove(p) \/ Exit(p)
        \/ Interrupt(p) \/ Kill(p) \/ ChildEnds(p) \/ TrapFunc(p)

Spec == Init /\ [][Next]_vars
-------------------------------------------------------------------------------
Running(p) == pc[p] \in {"main", "removed"}

\* A lock never outlives the invocation that took it and its children: whoever is
\* recorded as its owner is between flock and exit, on that very inode, or has left
\* it to a child.  So a killed or failed run cannot block the later ones for good,
\* although its lock file stays.
LockDiesWithOwner ==
    \A i \in Inodes : owner[i] # NoProc =>
        \/ Running(owner[i]) /\ fd[owner[i]] = i
        \/ child[owner[i]] = i

\* An invocation is refused only while another one is really running, or a child of
\* an earlier one.
RefusedOnlyIfBusy ==
    [][\A p \in Procs : pc[p] = "opened" /\ pc'[p] = "idle" =>
         \/ \E q \in Procs \ {p} : Running(q)
         \/ \E q \in Procs : child[q] # NoFile]_vars

\* "double invocation. Aborting." (uart_flash_mmc_programming.sh:256), "is already
\* running." (hailo-dma-usage.sh:195): two invocations are never in main together.
NoDoubleInvocation ==
    \A p, q \in Procs : pc[p] = "main" /\ pc[q] = "main" => p = q
===============================================================================
