------------------------- MODULE SplitQueueRefinement -------------------------
(***************************************************************************)
(* The rings implement RequestQueue. A token is idle until its descriptor  *)
(* is published and again as soon as it has been popped.                   *)
(***************************************************************************)
EXTENDS SplitQueue

Abstract == INSTANCE RequestQueue WITH
    Tokens  <- 0 .. MaxQueue - 1,
    idle    <- {i \in Slots : \/ i \in popped
                              \/ stage # "none" /\ filling = i
                              \/ \E k \in DOMAIN q.freelist : q.freelist[k] = i},
    posted  <- OfferedNow,
    working <- {e[1] : e \in inflight},
    done    <- UsedNow

\* No request is lost, doubled or overtaken on its way through the rings, and
\* each is handled if the device works and the driver drains what is used.
ImplementsRequestQueue == Abstract!Spec

=============================================================================
