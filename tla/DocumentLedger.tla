---------------------------- MODULE DocumentLedger ----------------------------
(***************************************************************************)
(* What the document pipeline promises, seen from its two ends: a content  *)
(* enters through the hash gate, and is then either handed to the graph    *)
(* writer, once, or given back so that the file can be submitted again.    *)
(***************************************************************************)
EXTENDS Naturals

CONSTANT Docs

VARIABLES
    claimed,   \* the contents the gate has let in and not given back
    delivered  \* how often each content was handed to the writer

ledgerVars == <<claimed, delivered>>

Init == /\ claimed = {}
        /\ delivered = [d \in Docs |-> 0]

Accept(d) == /\ d \notin claimed /\ delivered[d] = 0
             /\ claimed' = claimed \cup {d}
             /\ UNCHANGED delivered

GiveBack(d) == /\ d \in claimed /\ delivered[d] = 0
               /\ claimed' = claimed \ {d}
               /\ UNCHANGED delivered

Deliver(d) == /\ d \in claimed /\ delivered[d] = 0
              /\ delivered' = [delivered EXCEPT ![d] = 1]
              /\ UNCHANGED claimed

Next == \E d \in Docs : Accept(d) \/ GiveBack(d) \/ Deliver(d)

Spec == Init /\ [][Next]_ledgerVars

=============================================================================
