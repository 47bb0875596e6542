------------------------------ MODULE BatchDiff ------------------------------
(***************************************************************************)
(* What an object store promises to the code that handles a batch of       *)
(* events: a snapshot of the objects taken when the batch began, the       *)
(* objects now, and the keys written in between.                           *)
(***************************************************************************)
CONSTANT Keys

VARIABLES objects,   \* the objects now
          base,      \* the objects when the batch began
          touched    \* the keys written since

vars == <<objects, base, touched>>

Init == base = objects /\ touched = {}

(* A write changes one key; the snapshot stays.                            *)
Write(k) == /\ objects' = [objects EXCEPT ![k] = objects'[k]]
            /\ touched' = touched \cup {k}
            /\ UNCHANGED base

(* A new batch begins.                                                     *)
NewBatch == /\ base' = objects
            /\ touched' = {}
            /\ UNCHANGED objects

Next == NewBatch \/ \E k \in Keys : Write(k)

Spec == Init /\ [][Next]_vars
=============================================================================
