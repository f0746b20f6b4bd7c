---------------------------- MODULE ControlBridge ----------------------------
(***************************************************************************)
(* The remote control of the engine: dashboard requests in the API         *)
(* process, the two files they leave for the engine process                *)
(* (data/control.json and data/kill_switch.active), the engine's start,    *)
(* control loop, liquidation, exit and crash, and the scripts that start   *)
(* and stop it (run_paper.sh, stop_paper.sh).                              *)
(*                                                                         *)
(* API and engine are different processes: an API handler is one step per  *)
(* file access, and the engine reads control.json in one step and applies  *)
(* what it read in another.  Inside the engine everything between two      *)
(* awaits is one step.                                                     *)
(***************************************************************************)
EXTENDS Naturals

CONSTANTS Requests,     \* the control requests posted during a behaviour
          Serial,       \* TRUE: one request at a time; FALSE: they overlap
          MaxCrashes    \* bound on engine crashes

ASSUME ControlAssumption == Serial \in BOOLEAN /\ MaxCrashes \in Nat

VARIABLES
  cmd,        \* control.json: last sequence number and action (0: no file)
  killFile,   \* does data/kill_switch.active exist
  marker,     \* data/engine_stopped.marker: none, or who left it
  req,        \* the API's requests: action, next step, sequence number read
  phase,      \* where the engine process is
  control,    \* the engine's ControlSwitch state ...
  flatReq,    \* ... and its flat_all_requested flag
  applied,    \* the control loop's last applied sequence number
  rd,         \* what the control loop has read and not yet applied
  flat,       \* no holdings and no working orders: is_flat()
  crashes,
  startSeq,   \* history: cmd.seq when the control loop started
  resumed,    \* history: a resume came after the last stop mark
  mandate     \* history: an acknowledged stop nobody has taken back

files   == <<cmd, killFile, marker>>
engine  == <<phase, control, flatReq, applied, rd>>
history == <<startSeq, resumed, mandate>>
vars    == <<files, req, engine, flat, crashes, history>>

Actions  == {"pause", "resume", "stop"}
Controls == {"RUNNING", "PAUSED", "STOPPED"}
Phases   == {"down", "hydrating", "starting", "running", "exiting", "unlinking"}
Steps    == {"idle", "mark", "read", "write", "unlink", "done", "dead"}
Cmds     == [seq : Nat, action : Actions \cup {"none"}]
Credits  == {"none", "racing", "settled"}   \* what an acknowledged stop is owed
Reqs     == [action : Actions, at : Steps, prev : Nat, credit : Credits]
NoCmd    == [seq |-> 0, action |-> "none"]

\* The state of the switch that an action asks for.
Wanted == [pause |-> "PAUSED", resume |-> "RUNNING", stop |-> "STOPPED"]

Active(r) == req[r].at \notin {"idle", "done", "dead"}
Up        == phase \in {"starting", "running"}
\* No earlier command and no dying engine is about to undo a fresh stop mark.
CaughtUp  == /\ phase = "running" => applied >= cmd.seq /\ rd = NoCmd
             /\ phase # "unlinking"

\* The engine has stopped trading for good: flat, and will not be restarted.
Finished  == phase = "down" /\ marker = "kill"

TypeOK ==
  /\ cmd \in Cmds /\ rd \in Cmds
  /\ killFile \in BOOLEAN /\ flat \in BOOLEAN /\ flatReq \in BOOLEAN
  /\ marker \in {"none", "user", "kill"}
  /\ req \in [Requests -> Reqs]
  /\ phase \in Phases /\ control \in Controls
  /\ applied \in Nat /\ startSeq \in Nat /\ crashes \in Nat
  /\ resumed \in BOOLEAN /\ mandate \in Credits

Init ==
  /\ cmd = NoCmd /\ rd = NoCmd
  /\ killFile = FALSE /\ marker = "none"
  /\ req = [r \in Requests |->
              [action |-> "pause", at |-> "idle", prev |-> 0, credit |-> "none"]]
  /\ phase = "down" /\ control = "RUNNING" /\ flatReq = FALSE /\ applied = 0
  /\ flat \in BOOLEAN
  /\ crashes = 0 /\ startSeq = 0 /\ resumed = FALSE /\ mandate = "none"

-----------------------------------------------------------------------------
(* The API process: api/routes/control.py set_control.                     *)

\* Mutant: a stop goes straight to its command and leaves no mark.
PostUnmarked(r, a) ==
  /\ req[r].at = "idle"
  /\ Serial => \A q \in Requests : ~Active(q)
  /\ req' = [req EXCEPT ![r] = [action |-> a, at |-> "read", prev |-> 0,
                                credit |-> IF CaughtUp THEN "settled" ELSE "racing"]]
  /\ mandate' = IF a = "stop" THEN mandate ELSE "none"
  /\ UNCHANGED <<files, engine, flat, crashes, startSeq, resumed>>

\* A request arrives.  Only stop marks the kill switch before the command.
Post(r, a) ==
  /\ req[r].at = "idle"
  /\ Serial => \A q \in Requests : ~Active(q)
  /\ req' = [req EXCEPT ![r] = [action |-> a,
                                at |-> IF a = "stop" THEN "mark" ELSE "read",
                                prev |-> 0,
                                credit |-> IF CaughtUp THEN "settled" ELSE "racing"]]
  /\ mandate' = IF a = "stop" THEN mandate ELSE "none"
  /\ UNCHANGED <<files, engine, flat, crashes, startSeq, resumed>>

\* mark_kill_switch.
Mark(r) ==
  /\ req[r].at = "mark"
  /\ killFile' = TRUE
  /\ resumed' = FALSE
  /\ req' = [req EXCEPT ![r].at = "read"]
  /\ UNCHANGED <<cmd, marker, engine, flat, crashes, startSeq, mandate>>

\* write_command, first half: the previous sequence number is read.
ReadSeq(r) ==
  /\ req[r].at = "read"
  /\ req' = [req EXCEPT ![r].at = "write", ![r].prev = cmd.seq]
  /\ UNCHANGED <<files, engine, flat, crashes, history>>

\* write_command, second half: the file is replaced atomically.
WriteCommand(r) ==
  /\ req[r].at = "write"
  /\ cmd' = [seq |-> req[r].prev + 1, action |-> req[r].action]
  /\ req' = [req EXCEPT ![r].at = IF req[r].action = "resume"
                                  THEN "unlink" ELSE "done"]
  /\ resumed' = (resumed \/ req[r].action = "resume")
  /\ mandate' = IF req[r].action = "stop" THEN req[r].credit ELSE mandate
  /\ UNCHANGED <<killFile, marker, engine, flat, crashes, startSeq>>

\* A resume removes the kill-switch mark after its command is durable.
Unlink(r) ==
  /\ req[r].at = "unlink"
  /\ killFile' = FALSE
  /\ req' = [req EXCEPT ![r].at = "done"]
  /\ UNCHANGED <<cmd, marker, engine, flat, crashes, history>>

\* The API process dies in the middle of a request.
ApiDies ==
  /\ \E r \in Requests : Active(r)
  /\ req' = [r \in Requests |-> IF Active(r) THEN [req[r] EXCEPT !.at = "dead"]
                                             ELSE req[r]]
  /\ UNCHANGED <<files, engine, flat, crashes, history>>

-----------------------------------------------------------------------------
(* The scripts.                                                            *)

\* run_paper.sh by hand: both files are removed, even when the engine is up.
\* (History: it takes back every stop, the ones still being posted too.)
ManualStart ==
  /\ marker' = "none" /\ killFile' = FALSE
  /\ phase' = IF phase = "down" THEN "hydrating" ELSE phase
  /\ req' = [r \in Requests |-> [req[r] EXCEPT !.credit = "none"]]
  /\ resumed' = TRUE /\ mandate' = "none"
  /\ UNCHANGED <<cmd, control, flatReq, applied, rd, flat, crashes, startSeq>>

\* run_paper.sh --watchdog: restarts a dead engine unless the marker is there.
WatchdogStart ==
  /\ phase = "down" /\ marker = "none"
  /\ phase' = "hydrating"
  /\ UNCHANGED <<files, req, control, flatReq, applied, rd, flat, crashes, history>>

\* stop_paper.sh: leaves the marker and kills both processes; no liquidation.
StopPaper ==
  /\ marker' = "user"
  /\ phase' = "down" /\ rd' = NoCmd
  /\ req' = [r \in Requests |-> IF Active(r) THEN [req[r] EXCEPT !.at = "dead"]
                                             ELSE req[r]]
  /\ mandate' = "none"
  /\ UNCHANGED <<cmd, killFile, control, flatReq, applied, flat, crashes, startSeq, resumed>>

-----------------------------------------------------------------------------
(* The engine process.                                                     *)

\* Mutant: the start ignores the kill-switch mark.
HydrateForgetful ==
  /\ phase = "hydrating"
  /\ phase' = "starting"
  /\ control' = "RUNNING" /\ flatReq' = FALSE
  /\ applied' = 0 /\ rd' = NoCmd
  /\ UNCHANGED <<files, req, flat, crashes, history>>

\* A fresh process hydrates, then looks at the kill-switch mark once.
HydrateAndCheck ==
  /\ phase = "hydrating"
  /\ phase' = "starting"
  /\ control' = IF killFile THEN "STOPPED" ELSE "RUNNING"
  /\ flatReq' = killFile
  /\ applied' = 0 /\ rd' = NoCmd
  /\ UNCHANGED <<files, req, flat, crashes, history>>

\* After reconcile and backfill the control loop starts and takes whatever
\* command is in the file as already applied.
StartControlLoop ==
  /\ phase = "starting"
  /\ phase' = "running"
  /\ applied' = cmd.seq
  /\ startSeq' = cmd.seq
  /\ UNCHANGED <<files, req, control, flatReq, rd, flat, crashes, resumed, mandate>>

\* read_command in the control loop: only a higher number is a new command.
ReadCommand ==
  /\ phase = "running" /\ rd = NoCmd
  /\ cmd.seq > applied
  /\ rd' = cmd
  /\ UNCHANGED <<files, req, phase, control, flatReq, applied, flat, crashes, history>>

\* Mutants: the file's latest number is noted instead of the one that was
\* read; a stop relies on the mark the API left.
ApplyCommandLatest ==
  /\ phase = "running" /\ rd # NoCmd
  /\ applied' = cmd.seq /\ rd' = NoCmd
  /\ control' = Wanted[rd.action]
  /\ flatReq' = CASE rd.action = "pause" -> flatReq [] OTHER -> rd.action = "stop"
  /\ killFile' = CASE rd.action = "pause" -> killFile [] OTHER -> rd.action = "stop"
  /\ UNCHANGED <<cmd, marker, req, phase, flat, crashes, history>>

ApplyCommandUnmarked ==
  /\ phase = "running" /\ rd # NoCmd
  /\ applied' = rd.seq /\ rd' = NoCmd
  /\ control' = Wanted[rd.action]
  /\ flatReq' = CASE rd.action = "pause" -> flatReq [] OTHER -> rd.action = "stop"
  /\ killFile' = (killFile /\ rd.action # "resume")
  /\ UNCHANGED <<cmd, marker, req, phase, flat, crashes, history>>

\* apply_command: no await since the read, so no other engine step comes
\* between (an API step may).  resume also removes the mark, stop also (re)creates it.
ApplyCommand ==
  /\ phase = "running" /\ rd # NoCmd
  /\ applied' = rd.seq
  /\ rd' = NoCmd
  /\ \/ /\ rd.action = "pause"
        /\ control' = "PAUSED"
        /\ UNCHANGED <<flatReq, killFile>>
     \/ /\ rd.action = "resume"
        /\ control' = "RUNNING" /\ flatReq' = FALSE
        /\ killFile' = FALSE
     \/ /\ rd.action = "stop"
        /\ control' = "STOPPED" /\ flatReq' = TRUE
        /\ killFile' = TRUE
  /\ UNCHANGED <<cmd, marker, req, phase, flat, crashes, history>>

\* Trading: entries only while RUNNING, exits in every state.
Trade ==
  /\ phase = "running" /\ rd = NoCmd
  /\ \/ control = "RUNNING" /\ flat' = FALSE
     \/ control # "STOPPED" /\ flat' = TRUE
  /\ UNCHANGED <<files, req, engine, crashes, history>>

\* The liquidation that flat_all_requested asks for on every bar completes.
Liquidate ==
  /\ phase = "running" /\ rd = NoCmd /\ flatReq /\ ~flat
  /\ flat' = TRUE
  /\ UNCHANGED <<files, req, engine, crashes, history>>

\* process(): the request is withdrawn only once nothing is held or working.
ClearFlatAll ==
  /\ phase = "running" /\ rd = NoCmd /\ flatReq /\ flat
  /\ flatReq' = FALSE
  /\ UNCHANGED <<files, req, phase, control, applied, rd, flat, crashes, history>>

\* The serve loop ends when stopped and flat; the tasks are cancelled.
LeaveServeLoop ==
  /\ phase = "running" /\ rd = NoCmd /\ control = "STOPPED" /\ flat
  /\ phase' = "exiting"
  /\ UNCHANGED <<files, req, control, flatReq, applied, rd, flat, crashes, history>>

\* The marker that keeps the watchdog away is written first ...
WriteMarker ==
  /\ phase = "exiting"
  /\ marker' = "kill"
  /\ phase' = "unlinking"
  /\ UNCHANGED <<cmd, killFile, req, control, flatReq, applied, rd, flat, crashes, history>>

\* ... then the in-progress mark is removed and the process is gone.
UnlinkAndExit ==
  /\ phase = "unlinking"
  /\ killFile' = FALSE
  /\ phase' = "down"
  /\ UNCHANGED <<cmd, marker, req, control, flatReq, applied, rd, flat, crashes, history>>

\* The engine process dies at any point; its memory is lost.
Crash ==
  /\ phase # "down" /\ crashes < MaxCrashes
  /\ phase' = "down" /\ rd' = NoCmd
  /\ crashes' = crashes + 1
  /\ UNCHANGED <<files, req, control, flatReq, applied, flat, history>>

Api == \E r \in Requests : \/ \E a \in Actions : Post(r, a)
                           \/ Mark(r)
                           \/ ReadSeq(r)
                           \/ WriteCommand(r)
                           \/ Unlink(r)

Scripts == ManualStart \/ WatchdogStart \/ StopPaper

Engine == \/ HydrateAndCheck \/ StartControlLoop
          \/ ReadCommand \/ ApplyCommand
          \/ Trade \/ Liquidate \/ ClearFlatAll
          \/ LeaveServeLoop \/ WriteMarker \/ UnlinkAndExit
          \/ Crash

Next == Api \/ ApiDies \/ Scripts \/ Engine

Spec == Init /\ [][Next]_vars

\* launchd runs the watchdog every five minutes, the engine's tasks run on
\* their timers, and the market eventually takes the liquidation orders; the
\* operator and the crashes are under no obligation.
Fairness == /\ WF_vars(WatchdogStart)
            /\ WF_vars(HydrateAndCheck) /\ WF_vars(StartControlLoop)
            /\ WF_vars(ReadCommand) /\ WF_vars(ApplyCommand)
            /\ WF_vars(Liquidate) /\ WF_vars(LeaveServeLoop)
            /\ WF_vars(WriteMarker) /\ WF_vars(UnlinkAndExit)

FairSpec == Spec /\ Fairness

-----------------------------------------------------------------------------
(* Properties.                                                             *)

\* A stopped engine that dies comes back stopped: while the engine is STOPPED
\* the mark is on disk, unless a resume (or a manual start) came after the
\* last stop (control_file.py:20-22).
StoppedIsDurable == Up /\ control = "STOPPED" => killFile \/ resumed

\* Sequence numbers do their job: once the control loop has consumed the
\* command in the file, the switch is in the state that command asks for -
\* no command is skipped and none is applied twice (control_file.py:7-8).
ConsumedCommandInForce ==
  phase = "running" /\ rd = NoCmd /\ applied = cmd.seq /\ cmd.seq > startSeq
    => control = Wanted[cmd.action]

\* An acknowledged stop outlives a crash: if no earlier command was waiting
\* when it was posted and nobody took it back, then whenever the engine is
\* down either the mark makes the next start STOPPED or the marker forbids it.
SettledStopSurvivesCrash ==
  mandate = "settled" /\ phase = "down" => killFile \/ marker # "none"

\* An acknowledged stop that nobody took back is in force once the control
\* loop has seen everything there is to see (control.py:46-48).
StopHonoured ==
  mandate # "none" /\ phase = "running" /\ rd = NoCmd /\ applied >= cmd.seq
    => control = "STOPPED"

\* A stopped engine finishes its liquidation and exits for good, whatever
\* crashes interrupt it, unless the operator takes the stop back (a resume, a
\* pause the control loop applied, a manual start) or kills the session.
StopFinishes ==
  Up /\ control = "STOPPED"
    ~> \/ Finished
       \/ resumed \/ marker = "user"
       \/ phase = "running" /\ control # "STOPPED" /\ applied > startSeq
=============================================================================
