--------------------------- MODULE OrderedDelivery ---------------------------
(***************************************************************************)
(* What the SNP layer promises to the layers above it, with no counters,   *)
(* windows or message integrity in sight: every direction of every AS/GS   *)
(* pair is a lossy but ordered pipe.  PDUs are numbered in the order in    *)
(* which they are handed down; some of them are handed up at the other     *)
(* end, each at most once, and never after one that was sent later.        *)
(***************************************************************************)
EXTENDS Naturals, Sequences

CONSTANT Flow          \* the directions of the AS/GS pairs

VARIABLES sent,        \* sent[f]: how many PDUs were handed down so far
          delivered    \* delivered[f]: the numbers handed up, oldest first

vars == <<sent, delivered>>

Init == /\ sent = [f \in Flow |-> 0]
        /\ delivered = [f \in Flow |-> <<>>]

Submit(f) == /\ sent' = [sent EXCEPT ![f] = @ + 1]
             /\ UNCHANGED delivered

\* n is new to the receiver: later than whatever it was given last.
Fresh(f, n) == \/ delivered[f] = <<>>
               \/ n > delivered[f][Len(delivered[f])]

Deliver(f, n) == /\ n < sent[f]
                 /\ Fresh(f, n)
                 /\ delivered' = [delivered EXCEPT ![f] = Append(@, n)]
                 /\ UNCHANGED sent

Next == \E f \in Flow : Submit(f) \/ \E n \in 0 .. sent[f] : Deliver(f, n)

Spec == Init /\ [][Next]_vars
==============================================================================
