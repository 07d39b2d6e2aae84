------------------------------ MODULE Handover -----------------------------
(* Two processes and one database directory. The socket keeps the second one *)
(* a client as long as the first serves it; but Close gives the socket up    *)
(* before it closes the store (src/core/daemon/daemon.go), so that a second  *)
(* process may find no server, open a store on the same directory and serve  *)
(* it while the first has still to compact.                                  *)
(*                                                                           *)
(* Each process is a Db with variables of its own, old_ and new_; the files  *)
(* and the clock are shared. No process crashes here.                        *)
EXTENDS Entries

CONSTANTS Ops, CacheKeys, Faults, MaxGen, MaxJobs, MaxGets   \* those of Db

VARIABLES
  old_phase, old_mem, old_num, old_due, old_loadErr, old_pend, old_todo,
  old_jobs, old_gets, old_gcKeep, old_cur, old_why, old_fork, old_served,
  new_phase, new_mem, new_num, new_due, new_loadErr, new_pend, new_todo,
  new_jobs, new_gets, new_gcKeep, new_cur, new_why, new_fork, new_served,
  snaps, logs, now,
  socket     \* who serves the socket: "old", "none", "new"

oldVars ==
  <<old_phase, old_mem, old_num, old_due, old_loadErr, old_pend, old_todo,
    old_jobs, old_gets, old_gcKeep, old_cur, old_why, old_fork, old_served>>
newVars ==
  <<new_phase, new_mem, new_num, new_due, new_loadErr, new_pend, new_todo,
    new_jobs, new_gets, new_gcKeep, new_cur, new_why, new_fork, new_served>>
vars == <<oldVars, newVars, snaps, logs, now, socket>>

Old == INSTANCE Db WITH
  phase <- old_phase, mem <- old_mem, num <- old_num, due <- old_due,
  loadErr <- old_loadErr, pend <- old_pend, todo <- old_todo, jobs <-
  old_jobs, gets <- old_gets, gcKeep <- old_gcKeep, cur <- old_cur, why <-
  old_why, fork <- old_fork, served <- old_served

New == INSTANCE Db WITH
  phase <- new_phase, mem <- new_mem, num <- new_num, due <- new_due,
  loadErr <- new_loadErr, pend <- new_pend, todo <- new_todo, jobs <-
  new_jobs, gets <- new_gets, gcKeep <- new_gcKeep, cur <- new_cur, why <-
  new_why, fork <- new_fork, served <- new_served
---------------------------------------------------------------------------
Init == Old!Init /\ New!Init /\ socket = "old"

(* Daemon.Close of the old process, while no request is under way: Stop ends *)
(* the listener, then Store.Close compacts.                                  *)
OldStops ==
  /\ socket = "old" /\ old_phase = "idle" /\ socket' = "none"
  /\ UNCHANGED <<oldVars, newVars, snaps, logs, now>>

OldSteps ==
  /\ Old!Next /\ old_phase' # "down"
  /\ old_phase = "idle" => (old_phase' \in {"snap", "closed"} <=> socket # "old")
  /\ UNCHANGED <<newVars, socket>>

(* daemon.New finds nobody at the socket: this process serves it from now on. *)
NewServes ==
  /\ socket = "none" /\ socket' = "new"
  /\ UNCHANGED <<oldVars, newVars, snaps, logs, now>>

NewSteps ==
  /\ socket = "new" /\ New!Next /\ new_phase' # "down"
  /\ UNCHANGED <<oldVars, socket>>

Next == OldStops \/ OldSteps \/ NewServes \/ NewSteps

Spec == Init /\ [][Next]_vars
---------------------------------------------------------------------------
(* README.md: crash-safe, every write is fsynced to an append log. What the  *)
(* process that serves the directory shows and has acknowledged is what a    *)
(* restart would replay.                                                     *)
NewWritesSurvive == socket = "new" => New!MemoryMatchesDisk
============================================================================
