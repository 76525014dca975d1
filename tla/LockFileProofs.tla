----------------------------- MODULE LockFileProofs -----------------------------
(* Proofs about LockFile, for any number of invocations and inodes.            *)
EXTENDS LockFile, TLAPS

TypeOK ==
    /\ path \in Inodes \cup {NoFile}
    /\ fd \in [Procs -> Inodes \cup {NoFile}]
    /\ child \in [Procs -> Inodes \cup {NoFile}]
    /\ owner \in [Inodes -> Procs \cup {NoProc}]
    /\ pc \in [Procs -> {"idle", "opened", "main", "removed", "trap"}]

\* An invocation that has opened the file has it open.
HasOpened == \A p \in Procs : pc[p] \in {"opened", "main", "removed"} => fd[p] \in Inodes

\* One that runs owns the lock of the inode it has open.
RunnerOwns == \A p \in Procs : Running(p) => owner[fd[p]] = p

\* A child that has outlived its invocation keeps the lock for it.
ChildKeeps == \A p \in Procs : child[p] # NoFile => owner[child[p]] = p

\* A later invocation of the same process has another inode, or is not running.
Apart == \A p \in Procs : Running(p) => child[p] # fd[p]

IInv == TypeOK /\ HasOpened /\ RunnerOwns /\ ChildKeeps /\ Apart /\ LockDiesWithOwner
-------------------------------------------------------------------------------
LEMMA InitInductive == Init => IInv
  BY LockAssumption DEF Init, IInv, TypeOK, HasOpened, RunnerOwns, ChildKeeps, Apart,
     LockDiesWithOwner, Running

LEMMA StepInductive == IInv /\ [Next]_vars => IInv'
<1> SUFFICES ASSUME IInv, [Next]_vars PROVE IInv'
  OBVIOUS
<1> USE LockAssumption DEF IInv, TypeOK, HasOpened, RunnerOwns, ChildKeeps, Apart,
      LockDiesWithOwner, Running, Goto
<1>1. CASE UNCHANGED vars
  BY <1>1 DEF vars
<1>2. ASSUME NEW p \in Procs, Open(p) PROVE IInv'
  BY <1>2 DEF Open, Unused
<1>3. ASSUME NEW p \in Procs, Lock(p) PROVE IInv'
  BY <1>3 DEF Lock
<1>4. ASSUME NEW p \in Procs, Abort(p) PROVE IInv'
  BY <1>4 DEF Abort, Close
<1>5. ASSUME NEW p \in Procs, Remove(p) PROVE IInv'
  BY <1>5 DEF Remove
<1>6. ASSUME NEW p \in Procs, Exit(p) PROVE IInv'
  BY <1>6 DEF Exit, Close, LeaveToChild
<1>7. ASSUME NEW p \in Procs, Interrupt(p) PROVE IInv'
  BY <1>7 DEF Interrupt, Close, LeaveToChild
<1>8. ASSUME NEW p \in Procs, Kill(p) PROVE IInv'
  BY <1>8 DEF Kill, LeaveToChild
<1>9. ASSUME NEW p \in Procs, ChildEnds(p) PROVE IInv'
  BY <1>9 DEF ChildEnds
<1>10. ASSUME NEW p \in Procs, TrapFunc(p) PROVE IInv'
  BY <1>10 DEF TrapFunc
<1> QED
  BY <1>1, <1>2, <1>3, <1>4, <1>5, <1>6, <1>7, <1>8, <1>9, <1>10 DEF Next

LEMMA Inductive == Spec => []IInv
  BY InitInductive, StepInductive, PTL DEF Spec

\* The lock file guard (flock -xn 200): the lock of an inode is always held by an
\* invocation that runs, or by a child of the one that took it.
THEOREM LockIsReleased == Spec => []LockDiesWithOwner
<1>1. IInv => LockDiesWithOwner
  BY DEF IInv
<1> QED
  BY <1>1, Inductive, PTL

\* An invocation that gives up has met another one, or a child of an earlier one.
THEOREM RefusalIsJustified == Spec => RefusedOnlyIfBusy
<1>1. ASSUME IInv, [Next]_vars, NEW p \in Procs, pc[p] = "opened", pc'[p] = "idle"
      PROVE \/ \E q \in Procs \ {p} : Running(q)
            \/ \E q \in Procs : child[q] # NoFile
  <2>1. Abort(p)
    BY <1>1 DEF Next, vars, IInv, TypeOK, Open, Lock, Abort, Remove, Exit, Interrupt, Kill,
       ChildEnds, TrapFunc, Goto, LeaveToChild
  <2>2. fd[p] \in Inodes /\ owner[fd[p]] \in Procs
    BY <1>1, <2>1, LockAssumption DEF Abort, IInv, TypeOK, HasOpened
  <2>3. CASE Running(owner[fd[p]])
    BY <1>1, <2>2, <2>3 DEF Running
  <2>4. CASE ~Running(owner[fd[p]])
    BY <1>1, <2>2, <2>4, LockAssumption DEF IInv, LockDiesWithOwner
  <2> QED
    BY <2>3, <2>4
<1>2. IInv /\ [Next]_vars =>
        [\A p \in Procs : pc[p] = "opened" /\ pc'[p] = "idle" =>
            \/ \E q \in Procs \ {p} : Running(q)
            \/ \E q \in Procs : child[q] # NoFile]_vars
  BY <1>1
<1> QED
  BY <1>2, Inductive, PTL DEF Spec, RefusedOnlyIfBusy
===============================================================================
