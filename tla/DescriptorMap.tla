---------------------------- MODULE DescriptorMap ----------------------------
(***************************************************************************)
(* What open() and close() promise to the cores of the chip: a descriptor  *)
(* that open() returns is one nobody owns, and until its owner closes it   *)
(* it stays bound to the file system that opened it.  Which number is      *)
(* handed out is left open.                                                *)
(***************************************************************************)
CONSTANTS Cores, Descriptors, FileSystems, NULL

VARIABLES
    owned,   \* owned[c]: the descriptors core c has opened and not yet closed
    bound    \* bound[d]: the file system an owned descriptor belongs to, or NULL

vars == <<owned, bound>>

Init == /\ owned = [c \in Cores |-> {}]
        /\ bound = [d \in Descriptors |-> NULL]

\* open() returns a descriptor that nobody owns.
Open(c, d, fs) ==
    /\ \A x \in Cores : d \notin owned[x]
    /\ owned' = [owned EXCEPT ![c] = @ \cup {d}]
    /\ bound' = [bound EXCEPT ![d] = fs]

\* The owner gives its descriptor to close().
Close(c, d) ==
    /\ d \in owned[c]
    /\ owned' = [owned EXCEPT ![c] = @ \ {d}]
    /\ bound' = [bound EXCEPT ![d] = NULL]

Next == \E c \in Cores, d \in Descriptors :
            \/ \E fs \in FileSystems : Open(c, d, fs)
            \/ Close(c, d)

Spec == Init /\ [][Next]_vars
=============================================================================
