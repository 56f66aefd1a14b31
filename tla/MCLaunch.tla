----------------------------- MODULE MCLaunch -----------------------------
(***************************************************************************)
(* A small instance of Launch: databases of version 4, where 0 stands for  *)
(* no parent, and of version 5, which has tombstones of times.             *)
(***************************************************************************)
EXTENDS Launch

CONSTANTS a, b, e1, e2, e3

Tasks(top) ==
  {{[id |-> a, parent |-> top, deleted |-> FALSE],
    [id |-> b, parent |-> a, deleted |-> gone]} : gone \in BOOLEAN}

Entry(n, e, owner, running, deleted) ==
  [id |-> n, entry |-> e, owner |-> owner, running |-> running,
   deleted |-> deleted, state |-> "stopped"]

MCOldDatabases ==
  {[version |-> 4, tasks |-> rows,
    times |-> {Entry(1, e1, a, FALSE, FALSE), Entry(2, e2, b, TRUE, FALSE),
               Entry(3, e3, Zero, FALSE, FALSE)}] : rows \in Tasks(Zero)}
  \cup
  {[version |-> 5, tasks |-> rows,
    times |-> {Entry(1, e1, a, running, FALSE), Entry(2, e2, b, running, TRUE),
               Entry(3, e3, b, FALSE, FALSE)}] :
      rows \in Tasks(Null), running \in BOOLEAN}
============================================================================
