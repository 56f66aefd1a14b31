------------------------------- MODULE Launch -------------------------------
(***************************************************************************)
(* Starting and ending the program (main.cpp): a lock on a file keeps a    *)
(* second process away from the database; the second process asks the      *)
(* first one through a socket to show its window and ends.  The lock is    *)
(* the operating system's: it goes with the process.  The socket is a name *)
(* in a directory and outlives a process that dies.                        *)
(***************************************************************************)
EXTENDS DbUpdater, Sequences

CONSTANTS
  Process,
  NoProcess,
  Backlog        \* connections that wait to be accepted

ASSUME LaunchAssumption == NoProcess \notin Process /\ Backlog \in Nat \ {0}

VARIABLES
  proc,          \* what a process is doing
  holder,        \* the process that has the lock
  socket,        \* the process that bound the name of the socket
  pending,       \* connections not accepted yet
  shown          \* the main window is visible

launchVars == <<proc, holder, socket, pending, shown>>
allVars == <<dbVars, launchVars>>

LaunchTypeOK ==
  /\ DbTypeOK
  /\ proc \in [Process -> {"off", "opening", "serving", "closing", "client"}]
  /\ holder \in Process \cup {NoProcess}
  /\ socket \in Process \cup {NoProcess}
  /\ \A p \in Process :
       /\ pending[p] \in Seq(Process) /\ Len(pending[p]) <= Backlog
       /\ proc[p] # "serving" => pending[p] = <<>>
  /\ shown \in BOOLEAN

Goto(p, s) == proc' = [proc EXCEPT ![p] = s]

-----------------------------------------------------------------------------
\* application_lock, and the beginning of the database
Start(p) ==
  /\ proc[p] = "off"
  /\ IF holder = NoProcess
     THEN /\ holder' = p /\ Goto(p, "opening") /\ Then("open")
     ELSE /\ Goto(p, "client") /\ UNCHANGED <<holder, step>>
  /\ UNCHANGED <<tableVars, todo, old, cut, socket, pending, shown>>

\* The constructor of database
Opening ==
  /\ \E p \in Process : proc[p] = "opening"
  /\ Statement
  /\ UNCHANGED launchVars

\* A db_exception ends the process.
Abort(p) ==
  /\ proc[p] = "opening" /\ At("failed")
  /\ Close
  /\ Goto(p, "off") /\ holder' = NoProcess
  /\ UNCHANGED <<socket, pending, shown>>

\* ipc_server: what is at the name is unlinked, and the socket bound.
Listen(p) ==
  /\ proc[p] = "opening" /\ At("done")
  /\ Goto(p, "serving") /\ socket' = p
  /\ shown' \in BOOLEAN
  /\ UNCHANGED <<dbVars, holder, pending>>

\* Mutant of Knock: the backlog has no end.
KnockAlways(p) ==
  /\ proc[p] = "client"
  /\ Goto(p, "off")
  /\ pending' = IF socket \in Process /\ proc[socket] = "serving"
                THEN [pending EXCEPT ![socket] = Append(@, p)]
                ELSE pending
  /\ UNCHANGED <<dbVars, holder, socket, shown>>

\* ipc_client::window_2_front
Knock(p) ==
  /\ proc[p] = "client"
  /\ Goto(p, "off")
  /\ pending' = IF /\ socket \in Process /\ proc[socket] = "serving"
                   /\ Len(pending[socket]) < Backlog
                THEN [pending EXCEPT ![socket] = Append(@, p)]
                ELSE pending
  /\ UNCHANGED <<dbVars, holder, socket, shown>>

\* Mutant of Poll: a connection is accepted and nobody is told.
PollSilent(p) ==
  /\ proc[p] = "serving" /\ pending[p] # <<>>
  /\ pending' = [pending EXCEPT ![p] = Tail(@)]
  /\ UNCHANGED <<dbVars, proc, holder, socket, shown>>

\* ipc_server::poll accepts one connection a second.
Poll(p) ==
  /\ proc[p] = "serving" /\ pending[p] # <<>>
  /\ pending' = [pending EXCEPT ![p] = Tail(@)]
  /\ shown' = TRUE
  /\ UNCHANGED <<dbVars, proc, holder, socket>>

\* The user shows or hides the window.
ToggleWindow(p) ==
  /\ proc[p] = "serving"
  /\ shown' = ~ shown
  /\ UNCHANGED <<dbVars, proc, holder, socket, pending>>

\* Mutant of Quit: the lock goes first, then the socket.
QuitUnlocked(p) ==
  /\ proc[p] = "serving"
  /\ Goto(p, "closing") /\ shown' = FALSE
  /\ holder' = NoProcess
  /\ pending' = [pending EXCEPT ![p] = <<>>]
  /\ UNCHANGED <<dbVars, socket>>

\* The destructors run backwards: the socket is closed and unlinked ...
Quit(p) ==
  /\ proc[p] = "serving"
  /\ Goto(p, "closing") /\ shown' = FALSE
  /\ socket' = NoProcess
  /\ pending' = [pending EXCEPT ![p] = <<>>]
  /\ UNCHANGED <<dbVars, holder>>

\* ... before the database is closed and the lock released.
Unlock(p) ==
  /\ proc[p] = "closing"
  /\ Close
  /\ Goto(p, "off") /\ holder' = NoProcess
  /\ UNCHANGED <<socket, pending, shown>>

\* A client that dies changes nothing, so its end is always Knock.
Crash(p) ==
  /\ holder = p
  /\ Close
  /\ Goto(p, "off") /\ holder' = NoProcess
  /\ pending' = [pending EXCEPT ![p] = <<>>]
  /\ shown' = FALSE
  /\ UNCHANGED socket

-----------------------------------------------------------------------------
Init ==
  /\ DbInit
  /\ proc = [p \in Process |-> "off"]
  /\ holder = NoProcess /\ socket = NoProcess
  /\ pending = [p \in Process |-> <<>>]
  /\ shown = FALSE

Next ==
  \/ Opening
  \/ \E p \in Process :
       \/ Start(p) \/ Abort(p) \/ Listen(p) \/ Knock(p) \/ Poll(p)
       \/ ToggleWindow(p) \/ Quit(p) \/ Unlock(p) \/ Crash(p)

\* The timer polls every second, and a client runs to its end.
Fairness == \A p \in Process : WF_allVars(Poll(p)) /\ WF_allVars(Knock(p))

Spec == Init /\ [][Next]_allVars /\ Fairness

-----------------------------------------------------------------------------
(***************************************************************************)
(* While a process serves, the name of the socket leads to it: a process   *)
(* that ends or died before, and one that starts and finds the lock taken, *)
(* never takes the name away (ipc_server unlinks it in its constructor and *)
(* in its destructor).                                                     *)
(***************************************************************************)
SocketLeadsHere == \A p \in Process : proc[p] = "serving" => socket = p

(***************************************************************************)
(* Somebody who starts the program a second time while the first process   *)
(* serves gets to see its window, unless that process ends before; also    *)
(* when the backlog is full and the connection is refused.  A process that *)
(* has the lock and does not listen yet loses the knock: of a second start *)
(* at that moment nothing is said.                                         *)
(***************************************************************************)
KnockShowsWindow ==
  \A p, q \in Process :
    proc[p] = "serving" /\ proc[q] = "client" ~> shown \/ proc[p] # "serving"
=============================================================================
