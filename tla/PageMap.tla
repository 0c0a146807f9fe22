------------------------------ MODULE PageMap -------------------------------
(***************************************************************************)
(* What a caller of vmm.c is promised: one dictionary from virtual pages   *)
(* to translations.  A request to map or to unmap a page takes effect at   *)
(* once and for that page only, or, where memory for a page table is       *)
(* missing, not at all.                                                    *)
(***************************************************************************)
CONSTANTS Page, Translation, NoTranslation, NoRequest

VARIABLES mapping, request

vars == <<mapping, request>>

\* A request names a page and the translation it is to have.
Request == [page : Page, to : Translation]

Init == mapping = [v \in Page |-> NoTranslation] /\ request = NoRequest

Ask ==
    /\ request = NoRequest
    /\ request' \in Request
    /\ UNCHANGED mapping

Fulfil ==
    /\ request # NoRequest
    /\ mapping' = [mapping EXCEPT ![request.page] = request.to]
    /\ request' = NoRequest

Refuse ==
    /\ request # NoRequest
    /\ request' = NoRequest
    /\ UNCHANGED mapping

Next == Ask \/ Fulfil \/ Refuse

Spec == Init /\ [][Next]_vars

=============================================================================
