------------------------------ MODULE BootSelect ------------------------------
(* What set_sw_image.sh promises to the rest of the board: the choice of the   *)
(* image used for the next boot behaves as an atomic register.  An invocation  *)
(* switches the selection at most once, to the configuration it was asked for, *)
(* at one instant between its start and its end; a power cut or a failure      *)
(* leaves either the old or the new choice, never a board with no choice; a    *)
(* board that has no valid choice is refused.                                  *)

CONSTANTS
    Procs,      \* invocations of the script that may be alive
    Cfgs,       \* configurations that pass the boot loader's checks
    Requests,   \* configurations the script can be asked for
    NoConfig    \* "no valid configuration": the board does not boot

VARIABLES
    selected,   \* the configuration the next boot uses
    request,    \* what each invocation was asked for
    status      \* "idle", "working", or its exit status "ok" / "fail"

vars == <<selected, request, status>>

Init ==
    /\ selected \in Cfgs \cup {NoConfig}
    /\ request = [p \in Procs |-> NoConfig]
    /\ status = [p \in Procs |-> "idle"]

Invoke(p, c) ==
    /\ status[p] # "working"
    /\ request' = [request EXCEPT ![p] = c]
    /\ status' = [status EXCEPT ![p] = "working"]
    /\ UNCHANGED selected

Switch(p) ==
    /\ status[p] = "working"
    /\ selected # NoConfig
    /\ selected' = request[p]
    /\ UNCHANGED <<request, status>>

Succeed(p) ==
    /\ status[p] = "working"
    /\ selected = request[p]
    /\ status' = [status EXCEPT ![p] = "ok"]
    /\ UNCHANGED <<selected, request>>

Fail(p) ==
    /\ status[p] = "working"
    /\ status' = [status EXCEPT ![p] = "fail"]
    /\ UNCHANGED <<selected, request>>

\* A killed invocation has no exit status; a power cut ends all of them.
Stop(S) ==
    /\ status' = [p \in Procs |-> IF p \in S THEN "idle" ELSE status[p]]
    /\ UNCHANGED <<selected, request>>

Next ==
    \/ \E p \in Procs :
          \/ \E c \in Requests : Invoke(p, c)
          \/ Switch(p)
          \/ Succeed(p)
          \/ Fail(p)
    \/ \E S \in SUBSET Procs : Stop(S)

Spec == Init /\ [][Next]_vars
===============================================================================
