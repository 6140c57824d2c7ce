---------------------------- MODULE TaskContract ----------------------------
(***************************************************************************)
(* What the API of the tasks resource promises its clients, without        *)
(* versions, requests or handlers: which change of one task each kind of   *)
(* request may make.  TaskRegistry implements it as long as requests do    *)
(* not overlap.                                                            *)
(***************************************************************************)
EXTENDS TaskStrategy

CONSTANTS Keys, Absent

VARIABLE tasks

Init == tasks = [k \in Keys |-> Absent]

Only(k) == \A l \in Keys \ {k} : tasks'[l] = tasks[l]

\* A task starts at generation 1, with nothing observed.
Create(k) ==
  /\ tasks[k] = Absent
  /\ tasks'[k] \in Tasks
  /\ validateTask(tasks'[k])
  /\ tasks'[k].gen = 1
  /\ tasks'[k].status = EmptyStatus

\* It stays the same task, its status too; the generation counts specs.
SpecWrite(k) ==
  /\ tasks[k] # Absent
  /\ tasks'[k] \in Tasks
  /\ validateTask(tasks'[k])
  /\ tasks'[k].uid = tasks[k].uid
  /\ tasks'[k].status = tasks[k].status
  /\ IF specEqual(tasks'[k].spec, tasks[k].spec)
       THEN tasks'[k].gen = tasks[k].gen
       ELSE tasks'[k].gen = tasks[k].gen + 1

\* It stays the same task with the same spec; metadata may change with the
\* status (StatusStrategy does not pin it).
StatusWrite(k) ==
  /\ tasks[k] # Absent
  /\ tasks'[k] \in Tasks
  /\ validateStatusUpdate(tasks'[k])
  /\ tasks'[k].uid = tasks[k].uid
  /\ tasks'[k].spec = tasks[k].spec
  /\ tasks'[k].gen = tasks[k].gen

Delete(k) == tasks[k] # Absent /\ tasks'[k] = Absent

\* Storage is in memory: a restart forgets every task.
Restart == tasks' = [k \in Keys |-> Absent]

Next ==
  \/ Restart
  \/ /\ DOMAIN tasks' = Keys
     /\ \E k \in Keys :
          /\ Only(k)
          /\ Create(k) \/ SpecWrite(k) \/ StatusWrite(k) \/ Delete(k)

Spec == Init /\ [][Next]_tasks
=============================================================================
