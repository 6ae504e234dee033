------------------------------ MODULE SectorStore ------------------------------
(***************************************************************************)
(* What a block device promises to the file system on it: what it has      *)
(* acknowledged it gives back, until the cells are written again, whatever *)
(* is done to other cells and other devices; after a power loss if the     *)
(* device is one that keeps it by then, which it does at the latest from a *)
(* deinit() on, unless a write to it has failed.                           *)
(***************************************************************************)
CONSTANTS
    Devices,
    Durable,  \* those that are more than memory
    Cells,    \* Cells[d]: the cells of device d
    NULL

VARIABLES
    content,  \* content[d][i]: what cell i is known to hold, NULL if nothing is
    kept,     \* the devices whose content a power loss leaves
    spoilt,   \* the devices that have failed a write and may give up what they have
    call      \* what happened last: the device, its cells, what was written or read

vars == <<content, kept, spoilt, call>>

Nothing(d) == [i \in Cells[d] |-> NULL]

Init == content = [d \in Devices |-> Nothing(d)] /\ spoilt = {}

\* Sets the cells of the call to x.
Set(x) == content' = [d \in Devices |-> [i \in Cells[d] |->
              IF d = call'.dev /\ i \in call'.cells THEN x ELSE content[d][i]]]

\* A call that is going to change its cells; one that fails, that only erases, or that
\* wrote a part of what it was given without saying so, leaves them unknown.
Start == call'.op = "start" /\ Set(NULL) /\ spoilt' \subseteq spoilt
Written == call'.op = "written" /\ Set(call'.x) /\ spoilt' \subseteq spoilt
Failed == call'.op = "failed" /\ UNCHANGED content /\ spoilt' \subseteq spoilt \cup {call'.dev}
Unknown == call'.op \in {"erased", "short"} /\ UNCHANGED content /\ spoilt' \subseteq spoilt

Read == /\ call'.op = "read" /\ UNCHANGED <<content, kept, spoilt>>
        /\ \A i \in call'.cells : content[call'.dev][i] \in {NULL, call'.got[i]}

\* init(), and a deinit() that fails.
Setup == /\ call'.op \in {"init", "deinit failed"} /\ UNCHANGED content
         /\ kept \subseteq kept' /\ spoilt' \subseteq spoilt

\* A deinit() that succeeds: a durable device keeps what it has, unless it is spoilt.
Deinit == /\ call'.op = "deinit" /\ kept \subseteq kept' /\ spoilt' \subseteq spoilt
          /\ \A d \in Devices :
                \/ content'[d] = content[d] /\ (d = call'.dev => d \in kept')
                \/ d = call'.dev /\ d \notin Durable \ spoilt /\ content'[d] = Nothing(d)

PowerLoss == /\ call'.op = "reset" /\ kept \subseteq kept' /\ spoilt' \subseteq spoilt
             /\ \A d \in Devices :
                   content'[d] = IF d \in kept THEN content[d] ELSE Nothing(d)

Next == \/ (Start \/ Written \/ Failed \/ Unknown) /\ kept \ {call'.dev} \subseteq kept'
        \/ Read \/ Setup \/ Deinit \/ PowerLoss

Spec == Init /\ [][Next]_vars
=============================================================================
