--------------------------- MODULE FrameAllocator ---------------------------
(***************************************************************************)
(* What a caller of pmm.c is promised: a pool of physical frames that is   *)
(* opened once at boot, hands every frame to at most one owner at a time,  *)
(* takes back only frames that are owned, and refuses a request only when  *)
(* the pool is empty.  Which free frame a request gets is left open.       *)
(***************************************************************************)
CONSTANTS
    Frame,        \* every frame number the allocator could ever name
    Reserved      \* frames that must never be handed out

VARIABLES
    opened,       \* pmm_init has run
    avail,        \* frames in the pool
    held,         \* frames owned by callers
    refused       \* the last request was refused

vars == <<opened, avail, held, refused>>

Init ==
    /\ opened = FALSE
    /\ avail = {}
    /\ held = {}
    /\ refused = FALSE

\* The boot-time initialisation chooses the pool among the unreserved frames.
Open ==
    /\ ~opened
    /\ opened' = TRUE
    /\ avail' \in SUBSET (Frame \ Reserved)
    /\ UNCHANGED <<held, refused>>

Alloc ==
    /\ opened
    /\ \E f \in avail :
          /\ avail' = avail \ {f}
          /\ held' = held \cup {f}
    /\ refused' = FALSE
    /\ UNCHANGED opened

Refuse ==
    /\ opened
    /\ avail = {}
    /\ refused' = TRUE
    /\ UNCHANGED <<opened, avail, held>>

Free ==
    /\ opened
    /\ \E f \in held :
          /\ held' = held \ {f}
          /\ avail' = avail \cup {f}
    /\ refused' = FALSE
    /\ UNCHANGED opened

\* A free that the allocator ignores: nothing changes but the last outcome.
Ignore ==
    /\ opened
    /\ refused' = FALSE
    /\ UNCHANGED <<opened, avail, held>>

Next == Open \/ Alloc \/ Refuse \/ Free \/ Ignore

Spec == Init /\ [][Next]_vars

=============================================================================
