----------------------------- MODULE PluginHost -----------------------------
(***************************************************************************)
(* The plugin runner of public/js/app/main.js, an overlay with at most one *)
(* module at a time, and the sandboxed frames of                           *)
(* core/modules/module-sandbox.js that it puts there.                      *)
(*                                                                         *)
(* runModule() clears the overlay, then awaits the module's code; nothing  *)
(* keeps it from being called again, or the overlay from being closed,     *)
(* before that code is there.  Only the frame that was mounted last has a  *)
(* handle to stop it by.                                                   *)
(***************************************************************************)
EXTENDS Naturals

CONSTANTS Pages,
          Runnable,    \* module ids
          NoModule,    \* null
          MaxRuns      \* bound: calls of runModule() in the life of a page

ASSUME HostAssumption == MaxRuns \in Nat /\ NoModule \notin Runnable

VARIABLES ran,      \* the module of each call, or NoModule
          frame,    \* what has become of it
          handle,   \* activePluginHandle: the call that set it, or 0
          active,   \* activePluginModuleId
          visible,  \* whether the overlay is shown
          crowded   \* history: pages that ran or closed a module while one was loading

hostVars == <<ran, frame, handle, active, visible, crowded>>

Runs == 1 .. MaxRuns

Loading(p) == {n \in Runs : frame[p][n] = "loading"}

HostInit ==
  /\ ran = [p \in Pages |-> [n \in Runs |-> NoModule]]
  /\ frame = [p \in Pages |-> [n \in Runs |-> "none"]]
  /\ handle = [p \in Pages |-> 0]
  /\ active = [p \in Pages |-> NoModule]
  /\ visible = [p \in Pages |-> FALSE]
  /\ crowded = [p \in Pages |-> FALSE]

-----------------------------------------------------------------------------

\* Mutant: the new frame is put beside the old one.
Run_Beside(p, n, m) ==
  /\ frame[p][n] = "none"
  /\ ran' = [ran EXCEPT ![p][n] = m]
  /\ frame' = [frame EXCEPT ![p][n] = "loading"]
  /\ visible' = [visible EXCEPT ![p] = TRUE]
  /\ crowded' = [crowded EXCEPT ![p] = @ \/ Loading(p) # {}]
  /\ UNCHANGED <<handle, active>>

(* runModule, up to its await: what is in the overlay is taken out of the  *)
(* document, its listener left, and the overlay shown.                     *)
Run(p, n, m) ==
  /\ frame[p][n] = "none"
  /\ ran' = [ran EXCEPT ![p][n] = m]
  /\ frame' = [frame EXCEPT ![p] = [k \in Runs |->
       IF k = n THEN "loading" ELSE IF @[k] = "mounted" THEN "detached" ELSE @[k]]]
  /\ visible' = [visible EXCEPT ![p] = TRUE]
  /\ crowded' = [crowded EXCEPT ![p] = @ \/ Loading(p) # {}]
  /\ UNCHANGED <<handle, active>>

(* loadVerifiedModuleCode() cannot get the code, or its hash is not the    *)
(* registered one: the overlay says so, and stays.                         *)
LoadFails(p, n) ==
  /\ frame[p][n] = "loading"
  /\ frame' = [frame EXCEPT ![p][n] = "failed"]
  /\ UNCHANGED <<ran, handle, active, visible, crowded>>

\* mountModule() appends the frame, listening, and the handle becomes its own.
Mounts(p, n) ==
  /\ frame[p][n] = "loading"
  /\ frame' = [frame EXCEPT ![p][n] = "mounted"]
  /\ handle' = [handle EXCEPT ![p] = n]
  /\ active' = [active EXCEPT ![p] = ran[p][n]]
  /\ UNCHANGED <<ran, visible, crowded>>

\* stopActiveModule: the frame that has the handle is removed, and the overlay hidden.
Stop(p) ==
  /\ visible[p]
  /\ frame' = [frame EXCEPT ![p] = [k \in Runs |-> IF k = handle[p] THEN "unmounted" ELSE @[k]]]
  /\ handle' = [handle EXCEPT ![p] = 0]
  /\ active' = [active EXCEPT ![p] = NoModule]
  /\ visible' = [visible EXCEPT ![p] = FALSE]
  /\ crowded' = [crowded EXCEPT ![p] = @ \/ Loading(p) # {}]
  /\ UNCHANGED ran

\* A reloaded page starts with nothing.
Restart(p) ==
  /\ ran' = [ran EXCEPT ![p] = [n \in Runs |-> NoModule]]
  /\ frame' = [frame EXCEPT ![p] = [n \in Runs |-> "none"]]
  /\ handle' = [handle EXCEPT ![p] = 0]
  /\ active' = [active EXCEPT ![p] = NoModule]
  /\ visible' = [visible EXCEPT ![p] = FALSE]
  /\ crowded' = [crowded EXCEPT ![p] = FALSE]

HostNext ==
  \E p \in Pages :
    \/ \E n \in Runs : LoadFails(p, n) \/ Mounts(p, n) \/ \E m \in Runnable : Run(p, n, m)
    \/ Stop(p)
    \/ Restart(p)

HostSpec == HostInit /\ [][HostNext]_hostVars

-----------------------------------------------------------------------------

HostTypeOK ==
  /\ ran \in [Pages -> [Runs -> Runnable \cup {NoModule}]]
  /\ frame \in [Pages -> [Runs ->
       {"none", "loading", "failed", "mounted", "detached", "unmounted"}]]
  /\ handle \in [Pages -> 0 .. MaxRuns]
  /\ active \in [Pages -> Runnable \cup {NoModule}]
  /\ visible \in [Pages -> BOOLEAN]
  /\ crowded \in [Pages -> BOOLEAN]

(* A module that runs is the one in the overlay, and messages to it and    *)
(* the close button reach it: once closed, nothing runs.  Unless a module  *)
(* was run, or closed, while one was still loading; the later of two then  *)
(* gets the handle, and the other can commit and claim for good.           *)
ClosedMeansStopped ==
  \A p \in Pages : crowded[p] \/ \A n \in Runs :
    frame[p][n] = "mounted" => visible[p] /\ handle[p] = n /\ active[p] = ran[p][n]
=============================================================================
