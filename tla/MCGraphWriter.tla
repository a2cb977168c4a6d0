---------------------------- MODULE MCGraphWriter ----------------------------
(***************************************************************************)
(* Instances of GraphWriter for TLC.  Subgraphs g and h are good and share *)
(* an entity; odd is a garbled, an unresolved, a refused or an empty       *)
(* payload.                                                                *)
(***************************************************************************)
EXTENDS GraphWriter, TLC

CONSTANTS g, h, odd, e1, e2

MCTraffic == {g :> "good" @@ h :> "good" @@ odd :> k : k \in Kinds \ {"good"}}
MCTouches == g :> {e1} @@ h :> {e1, e2} @@ odd :> {e2}

=============================================================================
