------------------------------ MODULE FlashStore ------------------------------
(* What hailo15_spi_flash_program and hailo15_emmc_program promise over UART:  *)
(* a store of sectors that is open to one session at a time.  A session        *)
(* that gets past its opening owns the store: it changes one section after     *)
(* the other in the order of run(), never another sector, and when it verifies *)
(* it leaves a section, and ends well, only with the whole file in place.      *)
(* What a failed session has left unfinished may reach the store later, but    *)
(* never in, or after, a session that ends well.                               *)
EXTENDS StorageLayout

CONSTANTS
    Requests,   \* what a session may be asked for
    Sectors,    \* sectors of the store
    Contents    \* what may be in a sector, the options of the sections among it

VARIABLES
    store,      \* per sector, its contents
    request,    \* the request of the session
    status,     \* "opening", "programming", or how the last session ended: "ok", "failed"
    todo,       \* sections left, by their places in RunOrder
    pending     \* a command of a failed session may still be executed

vars == <<store, request, status, todo, pending>>

Asked(r) == {i \in DOMAIN RunOrder : Option(RunOrder[i]) \in DOMAIN r.length}
Length(i) == request.length[Option(RunOrder[i])]

Current(i) == i \in todo /\ \A j \in todo : i <= j

\* The sectors the session may change.
Work ==
    {s \in Sectors : /\ status = "programming"
                     /\ \E i \in todo : Current(i) /\ s \in Reserved(RunOrder[i], request.bImage)}

Whole(i) ==
    \A s \in Sectors \cap Region(RunOrder[i], request.bImage, Length(i)) :
        store[s] = Option(RunOrder[i])

ChangeOnly(sectors) ==
    /\ store' \in [Sectors -> Contents]
    /\ \A s \in Sectors \ sectors : store'[s] = store[s]

Init ==
    /\ store \in [Sectors -> Contents]
    /\ request \in Requests
    /\ status = "failed" /\ todo = {} /\ pending = FALSE

Open ==
    /\ status \in {"ok", "failed"}
    /\ status' = "opening" /\ request' \in Requests /\ todo' = Asked(request')
    /\ UNCHANGED <<store, pending>>

Late ==
    /\ pending /\ status \in {"opening", "failed"}
    /\ ChangeOnly(Sectors)
    /\ pending' \in BOOLEAN
    /\ UNCHANGED <<request, status, todo>>

\* Nobody else has anything to say to the board any more.
Begin ==
    /\ status = "opening" /\ ~pending
    /\ status' = "programming"
    /\ UNCHANGED <<store, request, todo, pending>>

Change ==
    /\ ChangeOnly(Work)
    /\ UNCHANGED <<request, status, todo, pending>>

Complete(i) ==
    /\ status = "programming" /\ Current(i)
    /\ ~TooLarge(RunOrder[i], Length(i))
    /\ request.verify => Whole(i)
    /\ todo' = todo \ {i}
    /\ UNCHANGED <<store, request, status, pending>>

Succeed ==
    /\ status = "programming" /\ todo = {}
    /\ status' = "ok"
    /\ UNCHANGED <<store, request, todo, pending>>

Fail ==
    /\ status \in {"opening", "programming"}
    /\ status' = "failed" /\ todo' = {}
    /\ ChangeOnly(Work)
    /\ pending' \in (IF status = "opening" THEN {pending} ELSE BOOLEAN)
    /\ UNCHANGED request

Next ==
    \/ Open \/ Late \/ Begin \/ Change \/ Succeed \/ Fail
    \/ \E i \in DOMAIN RunOrder : Complete(i)

Spec == Init /\ [][Next]_vars
===============================================================================
