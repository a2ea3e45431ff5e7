------------------------------- MODULE SyncJobs -------------------------------
(***************************************************************************)
(* What a synchronization of the catalogue promises to the one who reads   *)
(* its log: it brings in everything that is missing, in one step or not at *)
(* all, says how many that were, and says at the end how it went, unless   *)
(* its worker dies.                                                        *)
(***************************************************************************)
EXTENDS Naturals, FiniteSets

CONSTANTS Jobs, Items

VARIABLES
  phase,      \* where each job is
  catalogue,  \* the items the catalogue has
  created     \* how many items each job says it brought in

jobVars == <<phase, catalogue, created>>

Init ==
  /\ phase = [j \in Jobs |-> "none"]
  /\ catalogue \in SUBSET Items
  /\ created = [j \in Jobs |-> 0]

Start(j) ==
  /\ phase[j] = "none"
  /\ phase' = [phase EXCEPT ![j] = "running"]
  /\ UNCHANGED <<catalogue, created>>

Apply(j) ==
  /\ phase[j] = "running"
  /\ phase' = [phase EXCEPT ![j] = "applied"]
  /\ created' = [created EXCEPT ![j] = Cardinality(Items \ catalogue)]
  /\ catalogue' = Items

Complete(j) ==
  /\ phase[j] = "applied"
  /\ phase' = [phase EXCEPT ![j] = "completed"]
  /\ UNCHANGED <<catalogue, created>>

\* The job ends without a result: it says so, or nobody is left to say it.
GiveUp(j, ending) ==
  /\ phase[j] \in {"running", "applied"}
  /\ phase' = [phase EXCEPT ![j] = ending]
  /\ created' = [created EXCEPT ![j] = 0]
  /\ UNCHANGED catalogue

Fail(j) == GiveUp(j, "failed")

Abandon(j) == GiveUp(j, "abandoned")

Next ==
  \E j \in Jobs : Start(j) \/ Apply(j) \/ Complete(j) \/ Fail(j) \/ Abandon(j)

SafeSpec == Init /\ [][Next]_jobVars

\* A job that is not abandoned goes on.
Progress(j) == Apply(j) \/ Complete(j) \/ Fail(j)

Spec == SafeSpec /\ \A j \in Jobs : WF_jobVars(Progress(j))

=============================================================================
