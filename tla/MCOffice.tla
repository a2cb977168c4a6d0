-------------------------------- MODULE MCOffice --------------------------------
(***************************************************************************)
(* Small instances of what ends at the plant's staff: the approval of work *)
(* orders (approval, module WorkOrderApproval itself), and the alerts of   *)
(* the periodic sweeps (sweeps).                                           *)
(*                                                                         *)
(* A behaviour is of one stage, chosen at the start.  The variables of     *)
(* WorkOrderApproval move only in its own; those of Sweeps are s1 to s13,  *)
(* in the order of its module, and stay None in the other.                 *)
(***************************************************************************)
EXTENDS WorkOrderApproval

CONSTANTS None, l1, p1, w1, w2, o1, std

VARIABLES stage, s1, s2, s3, s4, s5, s6, s7, s8, s9, s10, s11, s12, s13

slots == <<s1, s2, s3, s4, s5, s6, s7, s8, s9, s10, s11, s12, s13>>
officeVars == <<vars, stage, slots>>

(* One obligation and one standard, two processes *)

Sweep == INSTANCE Sweeps WITH
    Obligations <- {o1}, Standards <- {std}, ClaimTtl <- 1, MaxRevision <- 2,
    MaxFaults <- 1, MaxRestarts <- 1,
    overdue <- s1, published <- s2, due <- s3, second <- s4, known <- s5, claims <- s6,
    telling <- s7, at <- s8, todo <- s9, hand <- s10, batch <- s11, faults <- s12,
    restarts <- s13

ASSUME SweepsBounds == Sweep!SweepsAssumption

OfficeInit ==
    /\ Init
    /\ \/ /\ stage = "approval"
          /\ s1 = None /\ s2 = None /\ s3 = None /\ s4 = None /\ s5 = None /\ s6 = None
          /\ s7 = None /\ s8 = None /\ s9 = None /\ s10 = None /\ s11 = None
          /\ s12 = None /\ s13 = None
       \/ stage = "sweeps" /\ Sweep!Init

OfficeNext ==
    /\ \/ stage = "approval" /\ Next /\ UNCHANGED slots
       \/ stage = "sweeps" /\ Sweep!Next /\ UNCHANGED vars
    /\ UNCHANGED stage

\* The fairness of each module, while the behaviour is of its stage.
OfficeFairness ==
    /\ \A l \in Loops : WF_vars(stage = "approval" /\ Decide(l))
    /\ \A t \in Tasks : WF_vars(stage = "approval" /\ Dispatch(t))
    /\ \A p \in Sweep!Processes : WF_slots(stage = "sweeps" /\ Sweep!Go(p))
    /\ WF_slots(stage = "sweeps" /\ Sweep!DayPasses)

OfficeSpec == OfficeInit /\ [][OfficeNext]_officeVars /\ OfficeFairness

-----------------------------------------------------------------------------
(* The properties of the sweeps *)

\* An inspection that stays overdue is told of again and again: see Sweeps.
StandingBreachRepeated ==
    <>[](stage = "sweeps" /\ o1 \in s1) => []<>(stage = "sweeps" /\ s7 = o1)

\* A standard that moves is reported to have moved: see Sweeps.
MoveTold ==
    (stage = "sweeps" /\ Sweep!Moved(std, 2)) ~> (stage = "sweeps" => Sweep!ToldOrOver(std, 2))

=============================================================================
