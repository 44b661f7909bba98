--------------------------- MODULE MissionProgress ---------------------------
(***************************************************************************)
(* The progress report of a mission, computed by one SELECT: everything it *)
(* says is about one state of the tables.                                  *)
(***************************************************************************)
EXTENDS DroneTasks

ASSUME ProgressAssumption == IsFiniteSet(Units)

UnitsOf(m) == {u \in Units : MissionOf[u] = m}

TasksIn(m, status) ==
  {t \in Tasks : UnitOf[t] \in UnitsOf(m) /\ drone_tasks[t].status = status}

\* sum(required_tasks): the places of all units, counted.
Places(m) == UNION {{u} \X (1 .. Required[u]) : u \in UnitsOf(m)}
RequiredOf(m) == Cardinality(Places(m))

\* A plausible mistake in MissionComplete, used to test the property: tasks
\* that moved on after their completion count as well.
BadMissionComplete(m) ==
  /\ RequiredOf(m) > 0
  /\ Cardinality({t \in Tasks :
       /\ UnitOf[t] \in UnitsOf(m)
       /\ drone_tasks[t].status \notin {"absent", "queued"}}) >= RequiredOf(m)
  /\ TasksIn(m, "rejected") = {}

\* missionProgress, then MissionProgress.Complete: `completed' counts the tasks
\* that are in that status now.
MissionComplete(m) ==
  /\ RequiredOf(m) > 0
  /\ Cardinality(TasksIn(m, "completed")) >= RequiredOf(m)
  /\ TasksIn(m, "rejected") = {}

\* The report adds the completed tasks of all units and never compares a unit
\* with its own requirement.  It still calls a mission complete only when every
\* unit is full: no unit can make up for another, whatever versions clients
\* send.
CompleteReportMeansFull ==
  \A m \in Missions :
    MissionComplete(m) =>
      \A u \in UnitsOf(m) : mission_drones[u] = Required[u]

=============================================================================
