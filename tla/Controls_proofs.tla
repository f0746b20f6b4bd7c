-------------------------- MODULE Controls_proofs --------------------------
(***************************************************************************)
(* What keeps the engine from trading: the commands of ControlBridge, for  *)
(* any set of requests that do not overlap (Serial) and any number of      *)
(* crashes, and the limits of RiskGate and the day's profit they are       *)
(* checked against, for any tickers, limits, nights and restarts.          *)
(***************************************************************************)
EXTENDS ControlBridge, RiskGate, Sums, TLAPS

\* One request at a time, and each step belongs to its kind of request.
RequestsOK ==
  /\ \A r, q \in Requests : Active(r) /\ Active(q) => r = q
  /\ \A r \in Requests :
       /\ req[r].at = "mark" => req[r].action = "stop"
       /\ req[r].at = "write" => req[r].prev = cmd.seq
       /\ req[r].at = "unlink" => req[r].action = "resume" /\ resumed
       /\ Active(r) /\ req[r].action # "stop" => mandate = "none"

\* What the control loop holds is not newer than the file, and is the file's
\* command if the numbers agree.
LoopOK ==
  /\ applied <= cmd.seq \/ phase # "running"
  /\ cmd.seq > 0 => cmd.action # "none"
  /\ rd # NoCmd => /\ phase = "running"
                   /\ applied < rd.seq /\ rd.seq <= cmd.seq
                   /\ rd.action # "none"
                   /\ rd.seq = cmd.seq => rd = cmd

\* While a settled stop is being posted nothing can undo its mark.
PostingOK ==
  \A r \in Requests :
    Active(r) /\ req[r].action = "stop" /\ req[r].credit = "settled"
      => /\ phase = "running" => applied >= cmd.seq /\ rd = NoCmd
         /\ phase = "unlinking" => marker # "none"
         /\ req[r].at # "mark" => killFile \/ marker # "none"

\* Once it is acknowledged, the only command about is a stop.
SettledOK ==
  mandate = "settled" =>
    /\ cmd.action = "stop"
    /\ rd # NoCmd => rd.action = "stop"
    /\ phase = "unlinking" => marker # "none"
    /\ killFile \/ marker # "none"

IInv == /\ TypeOK
        /\ RequestsOK
        /\ LoopOK
        /\ StoppedIsDurable
        /\ ConsumedCommandInForce
        /\ PostingOK
        /\ SettledOK

-----------------------------------------------------------------------------
\* The tuples every action leaves alone are sets of variables.
USE DEF files, engine, history

\* A request that moves to another step is still a request.
LEMMA MoveRequest ==
  ASSUME TypeOK, NEW r \in Requests, NEW s \in Steps
  PROVE  [req EXCEPT ![r].at = s] \in [Requests -> Reqs]
<1>1. [req[r] EXCEPT !.at = s] \in Reqs
  BY DEF TypeOK, Reqs
<1>2. QED
  BY <1>1 DEF TypeOK

\* The initial state is well typed.
LEMMA InitType == Init => TypeOK
<1>1. NoCmd \in Cmds
  BY DEF NoCmd, Cmds
<1>2. [action |-> "pause", at |-> "idle", prev |-> 0, credit |-> "none"] \in Reqs
  BY DEF Reqs, Actions, Steps, Credits
<1>3. Init => req \in [Requests -> Reqs]
  BY <1>2 DEF Init
<1>4. Init => cmd \in Cmds /\ rd \in Cmds
  BY <1>1 DEF Init
<1>5. Init => /\ killFile \in BOOLEAN /\ flat \in BOOLEAN /\ flatReq \in BOOLEAN
              /\ resumed \in BOOLEAN
  BY DEF Init
<1>6. Init => /\ marker \in {"none", "user", "kill"} /\ mandate \in Credits
              /\ phase \in Phases /\ control \in Controls
  BY DEF Init, Controls, Phases, Credits
<1>7. Init => applied \in Nat /\ startSeq \in Nat /\ crashes \in Nat
  BY DEF Init
<1>8. QED
  BY <1>3, <1>4, <1>5, <1>6, <1>7 DEF TypeOK

\* Every step keeps the types.
LEMMA TypeStep ==
  ASSUME TypeOK, [Next]_vars
  PROVE  TypeOK'
<1>1. ASSUME NEW r \in Requests, NEW a \in Actions, Post(r, a)
      PROVE  TypeOK'
  BY <1>1 DEF TypeOK, Cmds, NoCmd, Actions, Controls, Phases, Steps, Credits,
       Reqs, CaughtUp, Active, Post
<1>2. ASSUME NEW r \in Requests, Mark(r)
      PROVE  TypeOK'
  <2>1. req' = [req EXCEPT ![r].at = "read"] /\ "read" \in Steps
    BY <1>2 DEF Mark, Steps
  <2>2. req' \in [Requests -> Reqs]
    BY <2>1, MoveRequest
  <2>3. QED
    BY <1>2, <2>2 DEF TypeOK, Mark
<1>3. ASSUME NEW r \in Requests, ReadSeq(r)
      PROVE  TypeOK'
  <2>1. [req[r] EXCEPT !.at = "write", !.prev = cmd.seq] \in Reqs
    BY DEF TypeOK, Reqs, Cmds, Steps
  <2>2. req' \in [Requests -> Reqs]
    BY <1>3, <2>1 DEF TypeOK, ReadSeq
  <2>3. QED
    BY <1>3, <2>2 DEF TypeOK, ReadSeq
<1>4. ASSUME NEW r \in Requests, WriteCommand(r)
      PROVE  TypeOK'
  <2>1. PICK s \in Steps : req' = [req EXCEPT ![r].at = s]
    <3>1. "unlink" \in Steps /\ "done" \in Steps
      BY DEF Steps
    <3>2. CASE req[r].action = "resume"
      BY <1>4, <3>1, <3>2 DEF WriteCommand
    <3>3. CASE req[r].action # "resume"
      BY <1>4, <3>1, <3>3 DEF WriteCommand
    <3>4. QED
      BY <3>2, <3>3
  <2>2. req' \in [Requests -> Reqs]
    BY <2>1, MoveRequest
  <2>3. req[r].action \in Actions /\ req[r].prev + 1 \in Nat /\ req[r].credit \in Credits
    BY DEF TypeOK, Reqs
  <2>4. cmd' \in Cmds
    BY <1>4, <2>3 DEF WriteCommand, Cmds
  <2>5. mandate' \in Credits /\ resumed' \in BOOLEAN
    BY <1>4, <2>3 DEF WriteCommand, TypeOK
  <2>6. QED
    BY <1>4, <2>2, <2>4, <2>5 DEF TypeOK, WriteCommand
<1>5. ASSUME NEW r \in Requests, Unlink(r)
      PROVE  TypeOK'
  <2>1. req' = [req EXCEPT ![r].at = "done"] /\ "done" \in Steps
    BY <1>5 DEF Unlink, Steps
  <2>2. req' \in [Requests -> Reqs]
    BY <2>1, MoveRequest
  <2>3. QED
    BY <1>5, <2>2 DEF TypeOK, Unlink
<1>6. CASE ApiDies
  BY <1>6 DEF TypeOK, Cmds, NoCmd, Actions, Controls, Phases, Steps, Credits,
       Reqs, CaughtUp, Active, ApiDies
<1>7. CASE ManualStart
  BY ZenonT(60), <1>7 DEF TypeOK, Cmds, NoCmd, Actions, Controls, Phases, Steps, Credits,
       Reqs, CaughtUp, Active, ManualStart
<1>8. CASE WatchdogStart
  BY <1>8 DEF TypeOK, Cmds, NoCmd, Actions, Controls, Phases, Steps, Credits,
       Reqs, CaughtUp, Active, WatchdogStart
<1>9. CASE StopPaper
  BY <1>9 DEF TypeOK, Cmds, NoCmd, Actions, Controls, Phases, Steps, Credits,
       Reqs, CaughtUp, Active, StopPaper
<1>10. CASE HydrateAndCheck
  BY <1>10 DEF TypeOK, Cmds, NoCmd, Actions, Controls, Phases, Steps, Credits,
       Reqs, CaughtUp, Active, HydrateAndCheck
<1>11. CASE StartControlLoop
  BY <1>11 DEF TypeOK, Cmds, NoCmd, Actions, Controls, Phases, Steps, Credits,
       Reqs, CaughtUp, Active, StartControlLoop
<1>12. CASE ReadCommand
  BY <1>12 DEF TypeOK, Cmds, NoCmd, Actions, Controls, Phases, Steps, Credits,
       Reqs, CaughtUp, Active, ReadCommand
<1>13. CASE ApplyCommand
  BY ZenonT(60), <1>13 DEF TypeOK, Cmds, NoCmd, Actions, Controls, Phases, Steps, Credits,
       Reqs, CaughtUp, Active, ApplyCommand
<1>14. CASE Trade
  BY ZenonT(60), <1>14 DEF TypeOK, Cmds, NoCmd, Actions, Controls, Phases, Steps, Credits,
       Reqs, CaughtUp, Active, Trade
<1>15. CASE Liquidate
  BY <1>15 DEF TypeOK, Cmds, NoCmd, Actions, Controls, Phases, Steps, Credits,
       Reqs, CaughtUp, Active, Liquidate
<1>16. CASE ClearFlatAll
  BY ZenonT(60), <1>16 DEF TypeOK, Cmds, NoCmd, Actions, Controls, Phases, Steps, Credits,
       Reqs, CaughtUp, Active, ClearFlatAll
<1>17. CASE LeaveServeLoop
  BY <1>17 DEF TypeOK, Cmds, NoCmd, Actions, Controls, Phases, Steps, Credits,
       Reqs, CaughtUp, Active, LeaveServeLoop
<1>18. CASE WriteMarker
  BY <1>18 DEF TypeOK, Cmds, NoCmd, Actions, Controls, Phases, Steps, Credits,
       Reqs, CaughtUp, Active, WriteMarker
<1>19. CASE UnlinkAndExit
  BY ZenonT(60), <1>19 DEF TypeOK, Cmds, NoCmd, Actions, Controls, Phases, Steps, Credits,
       Reqs, CaughtUp, Active, UnlinkAndExit
<1>20. CASE Crash
  BY <1>20 DEF TypeOK, Cmds, NoCmd, Actions, Controls, Phases, Steps, Credits,
       Reqs, CaughtUp, Active, Crash
<1>21. CASE UNCHANGED vars
  BY <1>21 DEF TypeOK, Cmds, NoCmd, Actions, Controls, Phases, Steps, Credits,
       Reqs, CaughtUp, Active, vars
<1>22. QED
  BY <1>1, <1>2, <1>3, <1>4, <1>5, <1>6, <1>7, <1>8, <1>9, <1>10, <1>11,
       <1>12, <1>13, <1>14, <1>15, <1>16, <1>17, <1>18, <1>19, <1>20,
            <1>21 DEF Next, Api, Scripts, Engine

\* The sets of values the remaining case analyses range over.
USE DEF Cmds, NoCmd, Actions, Controls, Phases, Steps, Credits, Reqs

\* Requests that do not overlap keep their shape.
LEMMA RequestsStep ==
  ASSUME Serial, TypeOK, RequestsOK, [Next]_vars
  PROVE  RequestsOK'
<1>1. ASSUME NEW r \in Requests, NEW a \in Actions, Post(r, a)
      PROVE  RequestsOK'
  BY <1>1 DEF TypeOK, RequestsOK, Active, Post
<1>2. ASSUME NEW r \in Requests, Mark(r)
      PROVE  RequestsOK'
  BY <1>2 DEF TypeOK, RequestsOK, Active, Mark
<1>3. ASSUME NEW r \in Requests, ReadSeq(r)
      PROVE  RequestsOK'
  BY <1>3 DEF TypeOK, RequestsOK, Active, ReadSeq
<1>4. ASSUME NEW r \in Requests, WriteCommand(r)
      PROVE  RequestsOK'
  BY ZenonT(60), <1>4 DEF TypeOK, RequestsOK, Active, WriteCommand
<1>5. ASSUME NEW r \in Requests, Unlink(r)
      PROVE  RequestsOK'
  BY <1>5 DEF TypeOK, RequestsOK, Active, Unlink
<1>6. CASE ApiDies
  BY <1>6 DEF TypeOK, RequestsOK, Active, ApiDies
<1>7. CASE ManualStart
  BY <1>7 DEF TypeOK, RequestsOK, Active, ManualStart
<1>8. CASE WatchdogStart
  BY <1>8 DEF TypeOK, RequestsOK, Active, WatchdogStart
<1>9. CASE StopPaper
  BY <1>9 DEF TypeOK, RequestsOK, Active, StopPaper
<1>10. CASE HydrateAndCheck
  BY <1>10 DEF TypeOK, RequestsOK, Active, HydrateAndCheck
<1>11. CASE StartControlLoop
  BY <1>11 DEF TypeOK, RequestsOK, Active, StartControlLoop
<1>12. CASE ReadCommand
  BY <1>12 DEF TypeOK, RequestsOK, Active, ReadCommand
<1>13. CASE ApplyCommand
  BY <1>13 DEF TypeOK, RequestsOK, Active, ApplyCommand
<1>14. CASE Trade
  BY <1>14 DEF TypeOK, RequestsOK, Active, Trade
<1>15. CASE Liquidate
  BY <1>15 DEF TypeOK, RequestsOK, Active, Liquidate
<1>16. CASE ClearFlatAll
  BY <1>16 DEF TypeOK, RequestsOK, Active, ClearFlatAll
<1>17. CASE LeaveServeLoop
  BY <1>17 DEF TypeOK, RequestsOK, Active, LeaveServeLoop
<1>18. CASE WriteMarker
  BY <1>18 DEF TypeOK, RequestsOK, Active, WriteMarker
<1>19. CASE UnlinkAndExit
  BY <1>19 DEF TypeOK, RequestsOK, Active, UnlinkAndExit
<1>20. CASE Crash
  BY <1>20 DEF TypeOK, RequestsOK, Active, Crash
<1>21. CASE UNCHANGED vars
  BY <1>21 DEF TypeOK, RequestsOK, Active, vars
<1>22. QED
  BY <1>1, <1>2, <1>3, <1>4, <1>5, <1>6, <1>7, <1>8, <1>9, <1>10, <1>11,
       <1>12, <1>13, <1>14, <1>15, <1>16, <1>17, <1>18, <1>19, <1>20,
            <1>21 DEF Next, Api, Scripts, Engine

\* The control loop never holds a command newer than the file.
LEMMA LoopStep ==
  ASSUME TypeOK, RequestsOK, LoopOK, [Next]_vars
  PROVE  LoopOK'
<1>1. ASSUME NEW r \in Requests, NEW a \in Actions, Post(r, a)
      PROVE  LoopOK'
  BY <1>1 DEF TypeOK, RequestsOK, LoopOK, Active, Post
<1>2. ASSUME NEW r \in Requests, Mark(r)
      PROVE  LoopOK'
  BY <1>2 DEF TypeOK, RequestsOK, LoopOK, Active, Mark
<1>3. ASSUME NEW r \in Requests, ReadSeq(r)
      PROVE  LoopOK'
  BY <1>3 DEF TypeOK, RequestsOK, LoopOK, Active, ReadSeq
<1>4. ASSUME NEW r \in Requests, WriteCommand(r)
      PROVE  LoopOK'
  BY <1>4 DEF TypeOK, RequestsOK, LoopOK, Active, WriteCommand
<1>5. ASSUME NEW r \in Requests, Unlink(r)
      PROVE  LoopOK'
  BY <1>5 DEF TypeOK, RequestsOK, LoopOK, Active, Unlink
<1>6. CASE ApiDies
  BY <1>6 DEF TypeOK, RequestsOK, LoopOK, Active, ApiDies
<1>7. CASE ManualStart
  BY <1>7 DEF TypeOK, RequestsOK, LoopOK, Active, ManualStart
<1>8. CASE WatchdogStart
  BY <1>8 DEF TypeOK, RequestsOK, LoopOK, Active, WatchdogStart
<1>9. CASE StopPaper
  BY <1>9 DEF TypeOK, RequestsOK, LoopOK, Active, StopPaper
<1>10. CASE HydrateAndCheck
  BY <1>10 DEF TypeOK, RequestsOK, LoopOK, Active, HydrateAndCheck
<1>11. CASE StartControlLoop
  BY <1>11 DEF TypeOK, RequestsOK, LoopOK, Active, StartControlLoop
<1>12. CASE ReadCommand
  BY <1>12 DEF TypeOK, RequestsOK, LoopOK, Active, ReadCommand
<1>13. CASE ApplyCommand
  BY <1>13 DEF TypeOK, RequestsOK, LoopOK, Active, ApplyCommand
<1>14. CASE Trade
  BY <1>14 DEF TypeOK, RequestsOK, LoopOK, Active, Trade
<1>15. CASE Liquidate
  BY <1>15 DEF TypeOK, RequestsOK, LoopOK, Active, Liquidate
<1>16. CASE ClearFlatAll
  BY <1>16 DEF TypeOK, RequestsOK, LoopOK, Active, ClearFlatAll
<1>17. CASE LeaveServeLoop
  BY <1>17 DEF TypeOK, RequestsOK, LoopOK, Active, LeaveServeLoop
<1>18. CASE WriteMarker
  BY <1>18 DEF TypeOK, RequestsOK, LoopOK, Active, WriteMarker
<1>19. CASE UnlinkAndExit
  BY <1>19 DEF TypeOK, RequestsOK, LoopOK, Active, UnlinkAndExit
<1>20. CASE Crash
  BY <1>20 DEF TypeOK, RequestsOK, LoopOK, Active, Crash
<1>21. CASE UNCHANGED vars
  BY <1>21 DEF TypeOK, RequestsOK, LoopOK, Active, vars
<1>22. QED
  BY <1>1, <1>2, <1>3, <1>4, <1>5, <1>6, <1>7, <1>8, <1>9, <1>10, <1>11,
       <1>12, <1>13, <1>14, <1>15, <1>16, <1>17, <1>18, <1>19, <1>20,
            <1>21 DEF Next, Api, Scripts, Engine

\* The stop mark stays while the engine is stopped.
LEMMA DurableStep ==
  ASSUME TypeOK, RequestsOK, StoppedIsDurable, [Next]_vars
  PROVE  StoppedIsDurable'
<1>1. ASSUME NEW r \in Requests, NEW a \in Actions, Post(r, a)
      PROVE  StoppedIsDurable'
  BY <1>1 DEF TypeOK, RequestsOK, StoppedIsDurable, Up, Active, Post
<1>2. ASSUME NEW r \in Requests, Mark(r)
      PROVE  StoppedIsDurable'
  BY <1>2 DEF TypeOK, RequestsOK, StoppedIsDurable, Up, Active, Mark
<1>3. ASSUME NEW r \in Requests, ReadSeq(r)
      PROVE  StoppedIsDurable'
  BY <1>3 DEF TypeOK, RequestsOK, StoppedIsDurable, Up, Active, ReadSeq
<1>4. ASSUME NEW r \in Requests, WriteCommand(r)
      PROVE  StoppedIsDurable'
  BY <1>4 DEF TypeOK, RequestsOK, StoppedIsDurable, Up, Active, WriteCommand
<1>5. ASSUME NEW r \in Requests, Unlink(r)
      PROVE  StoppedIsDurable'
  BY <1>5 DEF TypeOK, RequestsOK, StoppedIsDurable, Up, Active, Unlink
<1>6. CASE ApiDies
  BY <1>6 DEF TypeOK, RequestsOK, StoppedIsDurable, Up, Active, ApiDies
<1>7. CASE ManualStart
  BY <1>7 DEF TypeOK, RequestsOK, StoppedIsDurable, Up, Active, ManualStart
<1>8. CASE WatchdogStart
  BY <1>8 DEF TypeOK, RequestsOK, StoppedIsDurable, Up, Active, WatchdogStart
<1>9. CASE StopPaper
  BY <1>9 DEF TypeOK, RequestsOK, StoppedIsDurable, Up, Active, StopPaper
<1>10. CASE HydrateAndCheck
  BY <1>10 DEF TypeOK, RequestsOK, StoppedIsDurable, Up, Active, HydrateAndCheck
<1>11. CASE StartControlLoop
  BY <1>11 DEF TypeOK, RequestsOK, StoppedIsDurable, Up, Active,
       StartControlLoop
<1>12. CASE ReadCommand
  BY <1>12 DEF TypeOK, RequestsOK, StoppedIsDurable, Up, Active, ReadCommand
<1>13. CASE ApplyCommand
  BY <1>13 DEF TypeOK, RequestsOK, StoppedIsDurable, Up, Active, ApplyCommand
<1>14. CASE Trade
  BY <1>14 DEF TypeOK, RequestsOK, StoppedIsDurable, Up, Active, Trade
<1>15. CASE Liquidate
  BY <1>15 DEF TypeOK, RequestsOK, StoppedIsDurable, Up, Active, Liquidate
<1>16. CASE ClearFlatAll
  BY <1>16 DEF TypeOK, RequestsOK, StoppedIsDurable, Up, Active, ClearFlatAll
<1>17. CASE LeaveServeLoop
  BY <1>17 DEF TypeOK, RequestsOK, StoppedIsDurable, Up, Active, LeaveServeLoop
<1>18. CASE WriteMarker
  BY <1>18 DEF TypeOK, RequestsOK, StoppedIsDurable, Up, Active, WriteMarker
<1>19. CASE UnlinkAndExit
  BY <1>19 DEF TypeOK, RequestsOK, StoppedIsDurable, Up, Active, UnlinkAndExit
<1>20. CASE Crash
  BY <1>20 DEF TypeOK, RequestsOK, StoppedIsDurable, Up, Active, Crash
<1>21. CASE UNCHANGED vars
  BY <1>21 DEF TypeOK, RequestsOK, StoppedIsDurable, Up, Active, vars
<1>22. QED
  BY <1>1, <1>2, <1>3, <1>4, <1>5, <1>6, <1>7, <1>8, <1>9, <1>10, <1>11,
       <1>12, <1>13, <1>14, <1>15, <1>16, <1>17, <1>18, <1>19, <1>20,
            <1>21 DEF Next, Api, Scripts, Engine

\* What the loop consumed is what the switch says.
LEMMA InForceStep ==
  ASSUME TypeOK, RequestsOK, LoopOK, ConsumedCommandInForce, [Next]_vars
  PROVE  ConsumedCommandInForce'
<1>1. ASSUME NEW r \in Requests, NEW a \in Actions, Post(r, a)
      PROVE  ConsumedCommandInForce'
  BY <1>1 DEF TypeOK, RequestsOK, LoopOK, ConsumedCommandInForce, Wanted,
       Active, Post
<1>2. ASSUME NEW r \in Requests, Mark(r)
      PROVE  ConsumedCommandInForce'
  BY <1>2 DEF TypeOK, RequestsOK, LoopOK, ConsumedCommandInForce, Wanted,
       Active, Mark
<1>3. ASSUME NEW r \in Requests, ReadSeq(r)
      PROVE  ConsumedCommandInForce'
  BY <1>3 DEF TypeOK, RequestsOK, LoopOK, ConsumedCommandInForce, Wanted,
       Active, ReadSeq
<1>4. ASSUME NEW r \in Requests, WriteCommand(r)
      PROVE  ConsumedCommandInForce'
  BY <1>4 DEF TypeOK, RequestsOK, LoopOK, ConsumedCommandInForce, Wanted,
       Active, WriteCommand
<1>5. ASSUME NEW r \in Requests, Unlink(r)
      PROVE  ConsumedCommandInForce'
  BY <1>5 DEF TypeOK, RequestsOK, LoopOK, ConsumedCommandInForce, Wanted,
       Active, Unlink
<1>6. CASE ApiDies
  BY <1>6 DEF TypeOK, RequestsOK, LoopOK, ConsumedCommandInForce, Wanted,
       Active, ApiDies
<1>7. CASE ManualStart
  BY <1>7 DEF TypeOK, RequestsOK, LoopOK, ConsumedCommandInForce, Wanted,
       Active, ManualStart
<1>8. CASE WatchdogStart
  BY <1>8 DEF TypeOK, RequestsOK, LoopOK, ConsumedCommandInForce, Wanted,
       Active, WatchdogStart
<1>9. CASE StopPaper
  BY <1>9 DEF TypeOK, RequestsOK, LoopOK, ConsumedCommandInForce, Wanted,
       Active, StopPaper
<1>10. CASE HydrateAndCheck
  BY <1>10 DEF TypeOK, RequestsOK, LoopOK, ConsumedCommandInForce, Wanted,
       Active, HydrateAndCheck
<1>11. CASE StartControlLoop
  BY <1>11 DEF TypeOK, RequestsOK, LoopOK, ConsumedCommandInForce, Wanted,
       Active, StartControlLoop
<1>12. CASE ReadCommand
  BY <1>12 DEF TypeOK, RequestsOK, LoopOK, ConsumedCommandInForce, Wanted,
       Active, ReadCommand
<1>13. CASE ApplyCommand
  BY <1>13 DEF TypeOK, RequestsOK, LoopOK, ConsumedCommandInForce, Wanted,
       Active, ApplyCommand
<1>14. CASE Trade
  BY <1>14 DEF TypeOK, RequestsOK, LoopOK, ConsumedCommandInForce, Wanted,
       Active, Trade
<1>15. CASE Liquidate
  BY <1>15 DEF TypeOK, RequestsOK, LoopOK, ConsumedCommandInForce, Wanted,
       Active, Liquidate
<1>16. CASE ClearFlatAll
  BY <1>16 DEF TypeOK, RequestsOK, LoopOK, ConsumedCommandInForce, Wanted,
       Active, ClearFlatAll
<1>17. CASE LeaveServeLoop
  BY <1>17 DEF TypeOK, RequestsOK, LoopOK, ConsumedCommandInForce, Wanted,
       Active, LeaveServeLoop
<1>18. CASE WriteMarker
  BY <1>18 DEF TypeOK, RequestsOK, LoopOK, ConsumedCommandInForce, Wanted,
       Active, WriteMarker
<1>19. CASE UnlinkAndExit
  BY <1>19 DEF TypeOK, RequestsOK, LoopOK, ConsumedCommandInForce, Wanted,
       Active, UnlinkAndExit
<1>20. CASE Crash
  BY <1>20 DEF TypeOK, RequestsOK, LoopOK, ConsumedCommandInForce, Wanted,
       Active, Crash
<1>21. CASE UNCHANGED vars
  BY <1>21 DEF TypeOK, RequestsOK, LoopOK, ConsumedCommandInForce, Wanted,
       Active, vars
<1>22. QED
  BY <1>1, <1>2, <1>3, <1>4, <1>5, <1>6, <1>7, <1>8, <1>9, <1>10, <1>11,
       <1>12, <1>13, <1>14, <1>15, <1>16, <1>17, <1>18, <1>19, <1>20,
            <1>21 DEF Next, Api, Scripts, Engine

\* Nothing undoes the mark of a settled stop while it is posted.
LEMMA PostingStep ==
  ASSUME Serial, TypeOK, RequestsOK, LoopOK, PostingOK, [Next]_vars
  PROVE  PostingOK'
<1>1. ASSUME NEW r \in Requests, NEW a \in Actions, Post(r, a)
      PROVE  PostingOK'
  BY <1>1 DEF TypeOK, RequestsOK, LoopOK, PostingOK, CaughtUp, Active, Post
<1>2. ASSUME NEW r \in Requests, Mark(r)
      PROVE  PostingOK'
  BY <1>2 DEF TypeOK, RequestsOK, LoopOK, PostingOK, CaughtUp, Active, Mark
<1>3. ASSUME NEW r \in Requests, ReadSeq(r)
      PROVE  PostingOK'
  BY <1>3 DEF TypeOK, RequestsOK, LoopOK, PostingOK, CaughtUp, Active, ReadSeq
<1>4. ASSUME NEW r \in Requests, WriteCommand(r)
      PROVE  PostingOK'
  BY <1>4 DEF TypeOK, RequestsOK, LoopOK, PostingOK, CaughtUp, Active,
       WriteCommand
<1>5. ASSUME NEW r \in Requests, Unlink(r)
      PROVE  PostingOK'
  BY <1>5 DEF TypeOK, RequestsOK, LoopOK, PostingOK, CaughtUp, Active, Unlink
<1>6. CASE ApiDies
  BY <1>6 DEF TypeOK, RequestsOK, LoopOK, PostingOK, CaughtUp, Active, ApiDies
<1>7. CASE ManualStart
  BY <1>7 DEF TypeOK, RequestsOK, LoopOK, PostingOK, CaughtUp, Active,
       ManualStart
<1>8. CASE WatchdogStart
  BY <1>8 DEF TypeOK, RequestsOK, LoopOK, PostingOK, CaughtUp, Active,
       WatchdogStart
<1>9. CASE StopPaper
  BY <1>9 DEF TypeOK, RequestsOK, LoopOK, PostingOK, CaughtUp, Active, StopPaper
<1>10. CASE HydrateAndCheck
  BY <1>10 DEF TypeOK, RequestsOK, LoopOK, PostingOK, CaughtUp, Active,
       HydrateAndCheck
<1>11. CASE StartControlLoop
  BY <1>11 DEF TypeOK, RequestsOK, LoopOK, PostingOK, CaughtUp, Active,
       StartControlLoop
<1>12. CASE ReadCommand
  BY <1>12 DEF TypeOK, RequestsOK, LoopOK, PostingOK, CaughtUp, Active,
       ReadCommand
<1>13. CASE ApplyCommand
  BY <1>13 DEF TypeOK, RequestsOK, LoopOK, PostingOK, CaughtUp, Active,
       ApplyCommand
<1>14. CASE Trade
  BY <1>14 DEF TypeOK, RequestsOK, LoopOK, PostingOK, CaughtUp, Active, Trade
<1>15. CASE Liquidate
  BY <1>15 DEF TypeOK, RequestsOK, LoopOK, PostingOK, CaughtUp, Active,
       Liquidate
<1>16. CASE ClearFlatAll
  BY <1>16 DEF TypeOK, RequestsOK, LoopOK, PostingOK, CaughtUp, Active,
       ClearFlatAll
<1>17. CASE LeaveServeLoop
  BY <1>17 DEF TypeOK, RequestsOK, LoopOK, PostingOK, CaughtUp, Active,
       LeaveServeLoop
<1>18. CASE WriteMarker
  BY <1>18 DEF TypeOK, RequestsOK, LoopOK, PostingOK, CaughtUp, Active,
       WriteMarker
<1>19. CASE UnlinkAndExit
  BY <1>19 DEF TypeOK, RequestsOK, LoopOK, PostingOK, CaughtUp, Active,
       UnlinkAndExit
<1>20. CASE Crash
  BY <1>20 DEF TypeOK, RequestsOK, LoopOK, PostingOK, CaughtUp, Active, Crash
<1>21. CASE UNCHANGED vars
  BY <1>21 DEF TypeOK, RequestsOK, LoopOK, PostingOK, CaughtUp, Active, vars
<1>22. QED
  BY <1>1, <1>2, <1>3, <1>4, <1>5, <1>6, <1>7, <1>8, <1>9, <1>10, <1>11,
       <1>12, <1>13, <1>14, <1>15, <1>16, <1>17, <1>18, <1>19, <1>20,
            <1>21 DEF Next, Api, Scripts, Engine

\* Nothing undoes it afterwards, until it is taken back.
LEMMA SettledStep ==
  ASSUME Serial, TypeOK, RequestsOK, LoopOK, PostingOK, SettledOK, [Next]_vars
  PROVE  SettledOK'
<1>1. ASSUME NEW r \in Requests, NEW a \in Actions, Post(r, a)
      PROVE  SettledOK'
  BY <1>1 DEF TypeOK, RequestsOK, LoopOK, PostingOK, SettledOK, CaughtUp,
       Active, Post
<1>2. ASSUME NEW r \in Requests, Mark(r)
      PROVE  SettledOK'
  BY <1>2 DEF TypeOK, RequestsOK, LoopOK, PostingOK, SettledOK, CaughtUp,
       Active, Mark
<1>3. ASSUME NEW r \in Requests, ReadSeq(r)
      PROVE  SettledOK'
  BY <1>3 DEF TypeOK, RequestsOK, LoopOK, PostingOK, SettledOK, CaughtUp,
       Active, ReadSeq
<1>4. ASSUME NEW r \in Requests, WriteCommand(r)
      PROVE  SettledOK'
  BY <1>4 DEF TypeOK, RequestsOK, LoopOK, PostingOK, SettledOK, CaughtUp,
       Active, WriteCommand
<1>5. ASSUME NEW r \in Requests, Unlink(r)
      PROVE  SettledOK'
  BY <1>5 DEF TypeOK, RequestsOK, LoopOK, PostingOK, SettledOK, CaughtUp,
       Active, Unlink
<1>6. CASE ApiDies
  BY <1>6 DEF TypeOK, RequestsOK, LoopOK, PostingOK, SettledOK, CaughtUp,
       Active, ApiDies
<1>7. CASE ManualStart
  BY <1>7 DEF TypeOK, RequestsOK, LoopOK, PostingOK, SettledOK, CaughtUp,
       Active, ManualStart
<1>8. CASE WatchdogStart
  BY <1>8 DEF TypeOK, RequestsOK, LoopOK, PostingOK, SettledOK, CaughtUp,
       Active, WatchdogStart
<1>9. CASE StopPaper
  BY <1>9 DEF TypeOK, RequestsOK, LoopOK, PostingOK, SettledOK, CaughtUp,
       Active, StopPaper
<1>10. CASE HydrateAndCheck
  BY <1>10 DEF TypeOK, RequestsOK, LoopOK, PostingOK, SettledOK, CaughtUp,
       Active, HydrateAndCheck
<1>11. CASE StartControlLoop
  BY <1>11 DEF TypeOK, RequestsOK, LoopOK, PostingOK, SettledOK, CaughtUp,
       Active, StartControlLoop
<1>12. CASE ReadCommand
  BY <1>12 DEF TypeOK, RequestsOK, LoopOK, PostingOK, SettledOK, CaughtUp,
       Active, ReadCommand
<1>13. CASE ApplyCommand
  BY <1>13 DEF TypeOK, RequestsOK, LoopOK, PostingOK, SettledOK, CaughtUp,
       Active, ApplyCommand
<1>14. CASE Trade
  BY <1>14 DEF TypeOK, RequestsOK, LoopOK, PostingOK, SettledOK, CaughtUp,
       Active, Trade
<1>15. CASE Liquidate
  BY <1>15 DEF TypeOK, RequestsOK, LoopOK, PostingOK, SettledOK, CaughtUp,
       Active, Liquidate
<1>16. CASE ClearFlatAll
  BY <1>16 DEF TypeOK, RequestsOK, LoopOK, PostingOK, SettledOK, CaughtUp,
       Active, ClearFlatAll
<1>17. CASE LeaveServeLoop
  BY <1>17 DEF TypeOK, RequestsOK, LoopOK, PostingOK, SettledOK, CaughtUp,
       Active, LeaveServeLoop
<1>18. CASE WriteMarker
  BY <1>18 DEF TypeOK, RequestsOK, LoopOK, PostingOK, SettledOK, CaughtUp,
       Active, WriteMarker
<1>19. CASE UnlinkAndExit
  BY <1>19 DEF TypeOK, RequestsOK, LoopOK, PostingOK, SettledOK, CaughtUp,
       Active, UnlinkAndExit
<1>20. CASE Crash
  BY <1>20 DEF TypeOK, RequestsOK, LoopOK, PostingOK, SettledOK, CaughtUp,
       Active, Crash
<1>21. CASE UNCHANGED vars
  BY <1>21 DEF TypeOK, RequestsOK, LoopOK, PostingOK, SettledOK, CaughtUp,
       Active, vars
<1>22. QED
  BY <1>1, <1>2, <1>3, <1>4, <1>5, <1>6, <1>7, <1>8, <1>9, <1>10, <1>11,
       <1>12, <1>13, <1>14, <1>15, <1>16, <1>17, <1>18, <1>19, <1>20,
            <1>21 DEF Next, Api, Scripts, Engine

\* The invariant holds of every behaviour with one request at a time.
LEMMA Invariance == ASSUME Serial PROVE Spec => []IInv
<1>1. Init => IInv
  BY InitType DEF Init, IInv, NoCmd, RequestsOK, LoopOK,
         StoppedIsDurable, ConsumedCommandInForce, PostingOK, SettledOK, Active, Up
<1>2. IInv /\ [Next]_vars => IInv'
  BY TypeStep, RequestsStep, LoopStep, DurableStep, InForceStep, PostingStep,
     SettledStep DEF IInv
<1>3. QED
  BY <1>1, <1>2, PTL DEF Spec

\* Types hold whether or not requests overlap.
THEOREM TypeCorrect == Spec => []TypeOK
<1>1. Init => TypeOK
  BY InitType
<1>2. TypeOK /\ [Next]_vars => TypeOK'
  BY TypeStep
<1>3. QED
  BY <1>1, <1>2, PTL DEF Spec

\* A STOPPED engine always leaves a mark for its successor (control_file.py
\* mark_kill_switch, api/routes/control.py), for any number of requests and
\* crashes, as long as requests do not overlap.
THEOREM StopIsDurable ==
  ASSUME Serial PROVE Spec => []StoppedIsDurable
<1>1. IInv => StoppedIsDurable
  BY DEF IInv
<1>2. QED
  BY <1>1, Invariance, PTL

\* The sequence numbers of control_file.py make the switch follow the file.
THEOREM CommandsTakeEffect ==
  ASSUME Serial PROVE Spec => []ConsumedCommandInForce
<1>1. IInv => ConsumedCommandInForce
  BY DEF IInv
<1>2. QED
  BY <1>1, Invariance, PTL

\* A stop posted to a system that is caught up is never lost to a crash.
THEOREM SettledStopIsKept ==
  ASSUME Serial PROVE Spec => []SettledStopSurvivesCrash
<1>1. IInv => SettledStopSurvivesCrash
  BY DEF IInv, SettledOK, SettledStopSurvivesCrash
<1>2. QED
  BY <1>1, Invariance, PTL

-----------------------------------------------------------------------------
(* The limits on entries.                                                   *)

Accounts == [qty : Nat, avg : Int]
Ords     == [side : {"none", "BUY", "SELL"}, px : Nat, day : Nat, live : Nat, done : Nat, seen : {0, 1}]
Runs     == [up : BOOLEAN, crashes : Nat, top : Nat, late : BOOLEAN]
\* The day's profit is a sum over the fills, of which nothing is asked here.
Books(profit) == [lot : [Tickers -> Accounts], left : [Tickers -> Nat], date : Nat,
                  realized : {profit}, cash : Int, equity : Int, peak : Nat]

TypesOK ==
  /\ today \in Nat /\ price \in [Tickers -> Int] /\ bucket \in [Tickers -> Nat]
  /\ ord \in [Tickers -> Ords] /\ account \in Int
  /\ row \in [Tickers -> Accounts] /\ audit \in Nat
  /\ book \in Books(book.realized) /\ state \in Runs

\* The book knows what each open order has yet to bring, but for the one share that is
\* recorded and not booked.
BookedOK ==
  \A t \in Tickers :
    IF state.up
    THEN /\ book.left[t] = ord[t].live + ord[t].done + ord[t].seen
         /\ row[t].qty = book.lot[t].qty + (IF ord[t].seen = 0 THEN 0 ELSE IF ord[t].side = "BUY" THEN 1 ELSE -1)
    ELSE ord[t].seen = 0

\* Only an order brings shares, and a sale has no more than there are.
OrdersOK ==
  \A t \in Tickers : /\ ord[t].side = "none" => ~Busy(t)
                     /\ ord[t].side = "SELL" => ord[t].live + ord[t].done <= row[t].qty

\* No peak is ahead of the one on disk by more than PeakStep.
PeaksOK == state.top <= audit + PeakStep /\ (state.up => audit <= book.peak)

RiskInv == TypesOK /\ BookedOK /\ OrdersOK /\ PeaksOK /\ OpenCapped

-----------------------------------------------------------------------------
Open == {t \in Tickers : AtBroker(t) > 0}

\* Every set of tickers can be counted.
LEMMA OpenFinite ==
  ASSUME RiskAssumption
  PROVE  \A S \in SUBSET Tickers : IsFiniteSet(S) /\ Cardinality(S) \in Nat
<1> TAKE S \in SUBSET Tickers
<1>1. IsFiniteSet(S)
  BY FS_Subset DEF RiskAssumption
<1> QED BY <1>1, FS_CardinalityType

\* The limit holds while no ticker opens.
LEMMA NoneOpens ==
  ASSUME RiskAssumption, OpenCapped, \A t \in Tickers : AtBroker(t)' > 0 => AtBroker(t) > 0
  PROVE  OpenCapped'
<1>1. Open' \subseteq Open /\ Open \subseteq Tickers /\ Open' \subseteq Tickers
  BY DEF Open
<1>2. IsFiniteSet(Open) /\ Cardinality(Open) \in Nat /\ Cardinality(Open') \in Nat
  BY <1>1, OpenFinite
<1>3. Cardinality(Open') <= Cardinality(Open)
  BY <1>1, <1>2, FS_Subset
<1>4. Cardinality(Open) <= MaxOpen
  BY DEF OpenCapped, Open
<1>5. MaxOpen \in Nat
  BY DEF RiskAssumption
<1> HIDE DEF Open
<1>6. Cardinality(Open') <= MaxOpen
  BY <1>2, <1>3, <1>4, <1>5
<1> QED BY <1>6 DEF OpenCapped, Open

\* The gate sees every open ticker: one with shares in the book, or with a buy the book
\* waits for.
LEMMA GateSees ==
  ASSUME RiskAssumption, TypesOK, BookedOK, OrdersOK, state.up
  PROVE  Open \subseteq {t \in Tickers : book.lot[t].qty > 0 \/ (ord[t].side = "BUY" /\ book.left[t] > 0)}
<1> SUFFICES ASSUME NEW t \in Tickers, AtBroker(t) > 0
             PROVE  book.lot[t].qty > 0 \/ (ord[t].side = "BUY" /\ book.left[t] > 0)
  BY DEF Open
<1>1. /\ row[t].qty \in Nat /\ book.lot[t].qty \in Nat /\ ord[t].live \in Nat /\ ord[t].done \in Nat
      /\ ord[t].seen \in {0, 1} /\ ord[t].side \in {"none", "BUY", "SELL"}
  BY DEF TypesOK, Accounts, Ords, Books
<1>2. /\ book.left[t] = ord[t].live + ord[t].done + ord[t].seen
      /\ row[t].qty = book.lot[t].qty + (IF ord[t].seen = 0 THEN 0 ELSE IF ord[t].side = "BUY" THEN 1 ELSE -1)
  BY DEF BookedOK
<1>3. AtBroker(t) = row[t].qty + (IF ord[t].side = "BUY" THEN ord[t].live + ord[t].done ELSE 0)
  BY DEF AtBroker
<1> QED BY <1>1, <1>2, <1>3

\* One more fits under the limit when the gate counts fewer than it.
LEMMA OneOpens ==
  ASSUME RiskAssumption, TypesOK, BookedOK, OrdersOK, state.up, NEW b, b.lot = book.lot, b.left = book.left,
         OpenCount(b) < MaxOpen, NEW k \in Tickers,
         \A t \in Tickers \ {k} : AtBroker(t)' > 0 => AtBroker(t) > 0
  PROVE  OpenCapped'
<1> DEFINE O == {t \in Tickers : book.lot[t].qty > 0 \/ (ord[t].side = "BUY" /\ book.left[t] > 0)}
<1>1. OpenCount(b) = Cardinality(O)
  BY DEF OpenCount
<1>2. Open \subseteq O
  BY GateSees
<1>3. Open' \subseteq O \cup {k} /\ O \subseteq Tickers /\ O \cup {k} \in SUBSET Tickers /\ Open' \in SUBSET Tickers
  BY <1>2 DEF Open
<1> HIDE DEF O
<1>4. IsFiniteSet(O) /\ Cardinality(O) \in Nat /\ IsFiniteSet(O \cup {k}) /\ Cardinality(O \cup {k}) \in Nat
      /\ Cardinality(Open') \in Nat
  BY <1>3, OpenFinite
<1>5. Cardinality(O \cup {k}) <= Cardinality(O) + 1
  <2>1. CASE k \in O
    <3>1. O \cup {k} = O
      BY <2>1
    <3>2. Cardinality(O \cup {k}) = Cardinality(O) /\ Cardinality(O) \in Nat
      BY <1>4, <3>1
    <3> QED BY <3>2
  <2>2. CASE k \notin O
    BY <1>4, <2>2, FS_AddElement
  <2> QED BY <2>1, <2>2
<1>6. Cardinality(Open') <= Cardinality(O \cup {k})
  BY <1>3, <1>4, FS_Subset
<1>7. MaxOpen \in Nat
  BY DEF RiskAssumption
<1>8. Cardinality(Open') <= MaxOpen
  BY <1>1, <1>4, <1>5, <1>6, <1>7
<1> QED BY <1>8 DEF OpenCapped, Open

-----------------------------------------------------------------------------
(* The figures.                                                             *)

\* The worth of the shares is a number.
LEMMA WorthIsInt ==
  ASSUME RiskAssumption, NEW q \in [Tickers -> Nat], NEW p \in [Tickers -> Int]
  PROVE  Worth(q, p) \in Int
<1> DEFINE f == [t \in Tickers |-> q[t] * p[t]]
<1>1. \A t \in Tickers : f[t] \in Int
  <2> TAKE t \in Tickers
  <2>1. q[t] \in Int /\ p[t] \in Int
    OBVIOUS
  <2> QED BY <2>1
<1>2. IsFiniteSet(Tickers)
  BY DEF RiskAssumption
<1>3. SumFunctionOnSet(f, Tickers) \in Int
  <2> HIDE DEF f
  <2> QED BY <1>1, <1>2, SumIsInt
<1> QED BY <1>3 DEF Worth

\* A fill moves the quantity of an account by one share.
LEMMA ApplyAccount ==
  ASSUME NEW l \in Accounts, NEW f, f.px \in Nat
  PROVE  /\ f.side = "BUY" => Applied(l, f) \in Accounts /\ Applied(l, f).qty = l.qty + 1
         /\ f.side # "BUY" /\ l.qty > 0 => Applied(l, f) \in Accounts /\ Applied(l, f).qty = l.qty - 1
<1>1. l.qty \in Nat /\ l.avg \in Int /\ l = [qty |-> l.qty, avg |-> l.avg]
  BY DEF Accounts
<1>2. CASE f.side = "BUY"
  <2> DEFINE a == (l.avg * l.qty + f.px) \div (l.qty + 1)
  <2>1. l.avg * l.qty + f.px \in Int
    <3>1. l.avg * l.qty \in Int
      BY <1>1
    <3> DEFINE m == l.avg * l.qty
    <3> HIDE DEF m
    <3> QED BY <3>1 DEF m
  <2>2. a \in Int
    <3> DEFINE n == l.avg * l.qty + f.px
    <3>1. n \in Int /\ l.qty + 1 \in Nat \ {0}
      BY <1>1, <2>1
    <3> HIDE DEF n
    <3>2. n \div (l.qty + 1) \in Int
      BY <3>1
    <3> QED BY <3>2 DEF n
  <2>3. Applied(l, f) = [qty |-> l.qty + 1, avg |-> a]
    BY <1>2 DEF Applied
  <2> HIDE DEF a
  <2> QED BY <1>1, <1>2, <2>2, <2>3 DEF Accounts
<1>3. CASE f.side # "BUY" /\ l.qty > 0
  <2>1. Applied(l, f) = [l EXCEPT !.qty = @ - 1]
    BY <1>3 DEF Applied
  <2> QED BY <1>1, <1>3, <2>1 DEF Accounts
<1> QED BY <1>2, <1>3

\* What valuing the book leaves: only the equity, the cash and the peak are new.
LEMMA Figures ==
  ASSUME RiskAssumption, TypesOK, NEW cash \in Int, NEW p \in [Tickers -> Int], NEW d \in Nat
  PROVE  LET b == Valued(OnDay(book, d), cash, p) IN
         /\ b \in Books(b.realized) /\ b.lot = book.lot /\ b.left = book.left
         /\ b.peak >= book.peak /\ b.equity \in Int
<1> DEFINE c == OnDay(book, d)
           b == Valued(c, cash, p)
           e == IF cash = NoCash THEN 0 ELSE cash + Worth([t \in Tickers |-> c.lot[t].qty], p)
<1>1. book \in Books(book.realized)
  BY DEF TypesOK
<1>2. c \in Books(c.realized) /\ c.lot = book.lot /\ c.left = book.left /\ c.peak = book.peak
  BY <1>1 DEF OnDay, Books
<1> HIDE DEF c
<1>3. e \in Int
  <2> DEFINE q == [t \in Tickers |-> c.lot[t].qty]
  <2>1. q \in [Tickers -> Nat]
    BY <1>2 DEF Books, Accounts
  <2> HIDE DEF q
  <2>2. Worth(q, p) \in Int
    BY <2>1, WorthIsInt
  <2>3. cash + Worth(q, p) \in Int
    BY <2>2
  <2> QED BY <2>3 DEF q
<1>4. b = [c EXCEPT !.cash = cash, !.equity = e, !.peak = Bigger(@, e)]
  BY DEF Valued
<1> HIDE DEF e, b
<1>5. c.peak \in Nat /\ Bigger(c.peak, e) \in Nat /\ Bigger(c.peak, e) >= c.peak
  BY <1>2, <1>3 DEF Books, Bigger
<1>6. /\ b.lot = c.lot /\ b.left = c.left /\ b.cash = cash /\ b.equity = e /\ b.peak = Bigger(c.peak, e)
      /\ b.realized = c.realized /\ b \in Books(b.realized)
  BY <1>2, <1>3, <1>4, <1>5 DEF Books
<1> QED BY <1>2, <1>3, <1>5, <1>6 DEF b, c

-----------------------------------------------------------------------------
(* The actions.                                                             *)

\* What a ticker has in the invariant.
LEMMA Ticker ==
  ASSUME RiskInv, NEW t \in Tickers
  PROVE  /\ row[t] \in Accounts /\ row[t].qty \in Nat
         /\ book.lot \in [Tickers -> Accounts] /\ book.left \in [Tickers -> Nat]
         /\ book.lot[t] \in Accounts /\ book.lot[t].qty \in Nat /\ book.left[t] \in Nat
         /\ ord[t] \in Ords /\ ord[t].live \in Nat /\ ord[t].done \in Nat /\ ord[t].seen \in {0, 1}
         /\ ord[t].side \in {"none", "BUY", "SELL"} /\ ord[t].px \in Nat /\ ord[t].day \in Nat
BY DEF RiskInv, TypesOK, Accounts, Ords, Books

\* The rows an order can become.
With(o, n, m, s) == [side |-> o.side, px |-> o.px, day |-> o.day, live |-> n, done |-> m, seen |-> s]

\* An order, by the parts that change.
LEMMA OrdIsWith == ASSUME NEW o \in Ords PROVE o = With(o, o.live, o.done, o.seen)
BY DEF Ords, With

\* The parts that were put in are the parts it has.
LEMMA WithTyped ==
  ASSUME NEW o \in Ords, NEW n, NEW m, NEW s, n \in Nat, m \in Nat, s \in {0, 1}
  PROVE  /\ With(o, n, m, s) \in Ords /\ With(o, n, m, s).side = o.side
         /\ With(o, n, m, s).px = o.px /\ With(o, n, m, s).day = o.day
         /\ With(o, n, m, s).live = n /\ With(o, n, m, s).done = m /\ With(o, n, m, s).seen = s
BY DEF Ords, With

\* An order of which a share trades.
LEMMA Traded ==
  ASSUME NEW o \in Ords
  PROVE  [o EXCEPT !.live = @ - 1, !.done = @ + 1] = With(o, o.live - 1, o.done + 1, o.seen)
<1>1. \A n, m : [o EXCEPT !.live = n, !.done = m] = With(o, n, m, o.seen)
  <2> TAKE n, m
  <2>1. [o EXCEPT !.live = n] = With(o, n, o.done, o.seen)
    BY OrdIsWith DEF With
  <2>2. [With(o, n, o.done, o.seen) EXCEPT !.done = m] = With(o, n, m, o.seen)
    BY DEF With
  <2> QED BY <2>1, <2>2
<1> QED BY <1>1, Zenon

\* An order of which a share is recorded.
LEMMA Recorded ==
  ASSUME NEW o \in Ords
  PROVE  [o EXCEPT !.done = @ - 1, !.seen = 1] = With(o, o.live, o.done - 1, 1)
<1>1. \A m : [o EXCEPT !.done = m, !.seen = 1] = With(o, o.live, m, 1)
  <2> TAKE m
  <2>1. [o EXCEPT !.done = m] = With(o, o.live, m, o.seen)
    BY OrdIsWith DEF With
  <2>2. [With(o, o.live, m, o.seen) EXCEPT !.seen = 1] = With(o, o.live, m, 1)
    BY DEF With
  <2> QED BY <2>1, <2>2
<1> QED BY <1>1, Zenon

\* An order of which a share is booked.
LEMMA IsBooked ==
  ASSUME NEW o \in Ords
  PROVE  [o EXCEPT !.seen = 0] = With(o, o.live, o.done, 0)
BY OrdIsWith DEF With

\* An order that ends with its day.
LEMMA IsEnded ==
  ASSUME NEW o \in Ords
  PROVE  [o EXCEPT !.live = 0] = With(o, 0, o.done, o.seen)
BY OrdIsWith DEF With

\* The order of which a share trades: one more is done, one less at work.
LEMMA OrdTraded ==
  ASSUME RiskInv, NEW k \in Tickers, Execute(k)
  PROVE  /\ ord' \in [Tickers -> Ords] /\ \A t \in Tickers \ {k} : ord'[t] = ord[t]
         /\ ord'[k].side = ord[k].side /\ ord'[k].px = ord[k].px /\ ord'[k].day = ord[k].day
         /\ ord'[k].live = ord[k].live - 1 /\ ord'[k].done = ord[k].done + 1 /\ ord'[k].seen = ord[k].seen
<1> DEFINE r == [ord[k] EXCEPT !.live = @ - 1, !.done = @ + 1]
<1>1. ord[k] \in Ords /\ ord[k].live \in Nat \ {0} /\ ord[k].done \in Nat
  BY Ticker DEF Execute
<1>2. /\ r \in Ords /\ r.side = ord[k].side /\ r.px = ord[k].px /\ r.day = ord[k].day
      /\ r.live = ord[k].live - 1 /\ r.done = ord[k].done + 1 /\ r.seen = ord[k].seen
  <2>1. r = With(ord[k], ord[k].live - 1, ord[k].done + 1, ord[k].seen)
    BY <1>1, Traded
  <2>2. ord[k].live - 1 \in Nat /\ ord[k].done + 1 \in Nat /\ ord[k].seen \in {0, 1}
    BY <1>1 DEF Ords
  <2> HIDE DEF r
  <2> QED BY <1>1, <2>1, <2>2, WithTyped
<1>3. ord' = [ord EXCEPT ![k] = r] /\ ord \in [Tickers -> Ords]
  BY DEF Execute, RiskInv, TypesOK
<1> HIDE DEF r
<1> QED BY <1>2, <1>3

\* The order of which a share is recorded: it is not yet booked.
LEMMA OrdRecorded ==
  ASSUME RiskInv, NEW k \in Tickers, Record(k)
  PROVE  /\ ord' \in [Tickers -> Ords] /\ \A t \in Tickers \ {k} : ord'[t] = ord[t]
         /\ ord'[k].side = ord[k].side /\ ord'[k].px = ord[k].px /\ ord'[k].day = ord[k].day
         /\ ord'[k].live = ord[k].live /\ ord'[k].done = ord[k].done - 1 /\ ord'[k].seen = 1
<1> DEFINE r == [ord[k] EXCEPT !.done = @ - 1, !.seen = 1]
<1>1. ord[k] \in Ords /\ ord[k].live \in Nat /\ ord[k].done - 1 \in Nat
  <2>1. ord[k] \in Ords /\ ord[k].live \in Nat /\ ord[k].done \in Nat /\ ord[k].done > 0
    BY Ticker DEF Record
  <2> QED BY <2>1
<1>2. /\ r \in Ords /\ r.side = ord[k].side /\ r.px = ord[k].px /\ r.day = ord[k].day
      /\ r.live = ord[k].live /\ r.done = ord[k].done - 1 /\ r.seen = 1
  <2>1. r = With(ord[k], ord[k].live, ord[k].done - 1, 1)
    BY <1>1, Recorded
  <2> HIDE DEF r
  <2> QED BY <1>1, <2>1, WithTyped
<1>3. ord' = [ord EXCEPT ![k] = r] /\ ord \in [Tickers -> Ords]
  BY DEF Record, RiskInv, TypesOK
<1> HIDE DEF r
<1> QED BY <1>2, <1>3

\* The order of which a share is booked: nothing waits.
LEMMA OrdBooked ==
  ASSUME RiskInv, NEW k \in Tickers, Booked(k)
  PROVE  /\ ord' \in [Tickers -> Ords] /\ \A t \in Tickers \ {k} : ord'[t] = ord[t]
         /\ ord'[k].side = ord[k].side /\ ord'[k].px = ord[k].px /\ ord'[k].day = ord[k].day
         /\ ord'[k].live = ord[k].live /\ ord'[k].done = ord[k].done /\ ord'[k].seen = 0
<1> DEFINE r == [ord[k] EXCEPT !.seen = 0]
<1>1. ord[k] \in Ords /\ ord[k].live \in Nat /\ ord[k].done \in Nat
  BY Ticker
<1>2. /\ r \in Ords /\ r.side = ord[k].side /\ r.px = ord[k].px /\ r.day = ord[k].day
      /\ r.live = ord[k].live /\ r.done = ord[k].done /\ r.seen = 0
  <2>1. r = With(ord[k], ord[k].live, ord[k].done, 0)
    BY <1>1, IsBooked
  <2> HIDE DEF r
  <2> QED BY <1>1, <2>1, WithTyped
<1>3. ord' = [ord EXCEPT ![k] = r] /\ ord \in [Tickers -> Ords]
  BY Zenon DEF Booked, RiskInv, TypesOK
<1> HIDE DEF r
<1> QED BY <1>2, <1>3

\* The orders that end with their day.
LEMMA OrdEnded ==
  ASSUME RiskInv, Night, NEW t \in Tickers
  PROVE  /\ ord'[t] \in Ords /\ ord'[t].side = ord[t].side /\ ord'[t].px = ord[t].px
         /\ ord'[t].day = ord[t].day
         /\ ord'[t].live = 0 /\ ord'[t].done = ord[t].done /\ ord'[t].seen = ord[t].seen
<1>1. ord[t] \in Ords /\ ord[t].done \in Nat /\ ord[t].seen \in {0, 1}
  BY Ticker
<1>2. ord'[t] = With(ord[t], 0, ord[t].done, ord[t].seen)
  BY <1>1, IsEnded DEF Night
<1> QED BY <1>1, <1>2, WithTyped

\* The first tick only starts a bar.
LEMMA FirstTickKeeps == ASSUME RiskInv, NEW t \in Tickers, FirstTick(t) PROVE RiskInv'
<1>1. TypesOK'
  BY DEF RiskInv, TypesOK, FirstTick
<1>2. BookedOK' /\ OrdersOK' /\ PeaksOK' /\ OpenCapped'
  BY DEF RiskInv, BookedOK, OrdersOK, PeaksOK, OpenCapped, AtBroker, Busy, FirstTick
<1> QED BY <1>1, <1>2 DEF RiskInv

\* A share trades: it is still owed.
LEMMA ExecuteKeeps == ASSUME RiskAssumption, RiskInv, NEW k \in Tickers, Execute(k) PROVE RiskInv'
<1>0. /\ ord[k].live > 0
      /\ ord' = [ord EXCEPT ![k].live = @ - 1, ![k].done = @ + 1]
      /\ account' = IF ord[k].side = "BUY" THEN account - ord[k].px ELSE account + ord[k].px
      /\ UNCHANGED <<today, price, bucket, fills, row, lotNo, audit, book, halted, state>>
  BY DEF Execute
<1>1. /\ ord' \in [Tickers -> Ords] /\ \A t \in Tickers \ {k} : ord'[t] = ord[t]
      /\ ord'[k].side = ord[k].side /\ ord'[k].seen = ord[k].seen
      /\ ord'[k].live = ord[k].live - 1 /\ ord'[k].done = ord[k].done + 1
  BY OrdTraded
<1>2. TypesOK'
  <2>1. account' \in Int
    <3>1. ord[k].px \in Nat /\ account \in Int
      BY Ticker DEF RiskInv, TypesOK
    <3> QED BY <1>0, <3>1
  <2> QED BY <1>0, <1>1, <2>1 DEF RiskInv, TypesOK
<1>3. ASSUME NEW t \in Tickers
      PROVE  /\ ord'[t].side = ord[t].side /\ ord'[t].seen = ord[t].seen
             /\ ord'[t].live + ord'[t].done = ord[t].live + ord[t].done
             /\ ord[t].live \in Nat /\ ord[t].done \in Nat /\ ord[t].seen \in Nat
             /\ ord'[t].live \in Nat /\ ord'[t].done \in Nat
  <2>1. ord[t].live \in Nat /\ ord[t].done \in Nat /\ ord[t].seen \in Nat
    BY Ticker
  <2>2. ord'[t].live \in Nat /\ ord'[t].done \in Nat
    BY <1>1 DEF Ords
  <2>3. CASE t = k
    BY <1>1, <2>1, <2>2, <2>3
  <2>4. CASE t # k
    BY <1>1, <2>1, <2>2, <2>4
  <2> QED BY <2>3, <2>4
<1>4. BookedOK'
  <2> SUFFICES ASSUME NEW t \in Tickers
               PROVE  IF state'.up
                      THEN /\ book'.left[t] = ord'[t].live + ord'[t].done + ord'[t].seen
                           /\ row'[t].qty = book'.lot[t].qty
                                + (IF ord'[t].seen = 0 THEN 0 ELSE IF ord'[t].side = "BUY" THEN 1 ELSE -1)
                      ELSE ord'[t].seen = 0
    BY DEF BookedOK
  <2> QED BY ZenonT(60), <1>0, <1>3 DEF RiskInv, BookedOK
<1>5. OrdersOK'
  <2> SUFFICES ASSUME NEW t \in Tickers
               PROVE  /\ ord'[t].side = "none" => ~Busy(t)'
                      /\ ord'[t].side = "SELL" => ord'[t].live + ord'[t].done <= row'[t].qty
    BY DEF OrdersOK
  <2>1. Busy(t)' <=> Busy(t)
    BY <1>3 DEF Busy
  <2> QED BY <1>0, <1>3, <2>1 DEF RiskInv, OrdersOK
<1>6. PeaksOK'
  BY <1>0 DEF RiskInv, PeaksOK
<1>7. OpenCapped'
  <2>1. \A t \in Tickers : AtBroker(t)' = AtBroker(t)
    BY <1>0, <1>3 DEF AtBroker
  <2> QED BY <2>1, NoneOpens DEF RiskInv
<1> QED BY <1>2, <1>4, <1>5, <1>6, <1>7 DEF RiskInv

\* A share reaches the table: it is not owed any more, but held.
LEMMA RecordKeeps == ASSUME RiskAssumption, RiskInv, NEW k \in Tickers, Record(k) PROVE RiskInv'
<1> DEFINE f == FillOf(k)
           l == Applied(row[k], f)
           buy == ord[k].side = "BUY"
<1>0. /\ state.up /\ ord[k].done > 0 /\ ord[k].seen = 0
      /\ row' = [row EXCEPT ![k] = l]
      /\ ord' = [ord EXCEPT ![k].done = @ - 1, ![k].seen = 1]
      /\ UNCHANGED <<today, price, bucket, account, lotNo, audit, book, halted, state>>
  BY DEF Record
<1>1. /\ row[k] \in Accounts /\ row[k].qty \in Nat /\ ord[k] \in Ords
      /\ ord[k].live \in Nat /\ ord[k].done \in Nat \ {0} /\ f.px \in Nat /\ f.side = ord[k].side
  BY <1>0, Ticker DEF FillOf
<1>2. /\ buy => l \in Accounts /\ l.qty = row[k].qty + 1
      /\ ~buy => ord[k].side = "SELL" /\ row[k].qty > 0 /\ l \in Accounts /\ l.qty = row[k].qty - 1
             /\ ord[k].live + ord[k].done <= row[k].qty
  <2>1. buy => l \in Accounts /\ l.qty = row[k].qty + 1
    BY <1>1, ApplyAccount
  <2>2. ASSUME ~buy
        PROVE  ord[k].side = "SELL" /\ row[k].qty > 0 /\ ord[k].live + ord[k].done <= row[k].qty
    <3>1. ord[k].side = "SELL"
      <4>1. Busy(k)
        BY <1>0, <1>1 DEF Busy
      <4> QED BY <2>2, <4>1, Ticker DEF RiskInv, OrdersOK
    <3>2. ord[k].live + ord[k].done <= row[k].qty
      BY <3>1 DEF RiskInv, OrdersOK
    <3> QED BY <1>1, <3>1, <3>2
  <2>3. ~buy => l \in Accounts /\ l.qty = row[k].qty - 1
    BY <1>1, <2>2, ApplyAccount
  <2> QED BY <2>1, <2>2, <2>3
<1> HIDE DEF f, l
<1>3. /\ ord' \in [Tickers -> Ords] /\ \A t \in Tickers \ {k} : ord'[t] = ord[t]
      /\ ord'[k].side = ord[k].side /\ ord'[k].seen = 1
      /\ ord'[k].live = ord[k].live /\ ord'[k].done = ord[k].done - 1
  BY OrdRecorded
<1>4. row' \in [Tickers -> Accounts] /\ row'[k] = l /\ \A t \in Tickers \ {k} : row'[t] = row[t]
  <2>1. row \in [Tickers -> Accounts] /\ l \in Accounts
    BY <1>2 DEF RiskInv, TypesOK
  <2> QED BY <1>0, <2>1
<1>5. TypesOK'
  BY <1>0, <1>3, <1>4 DEF RiskInv, TypesOK
<1>6. ASSUME NEW t \in Tickers
      PROVE  /\ book.left[t] = ord'[t].live + ord'[t].done + ord'[t].seen
             /\ row'[t].qty = book.lot[t].qty
                  + (IF ord'[t].seen = 0 THEN 0 ELSE IF ord'[t].side = "BUY" THEN 1 ELSE -1)
             /\ ord'[t].side = "none" => ~Busy(t)'
             /\ ord'[t].side = "SELL" => ord'[t].live + ord'[t].done <= row'[t].qty
             /\ AtBroker(t)' > 0 => AtBroker(t) > 0
  <2>1. /\ book.left[t] = ord[t].live + ord[t].done + ord[t].seen
        /\ row[t].qty = book.lot[t].qty + (IF ord[t].seen = 0 THEN 0 ELSE IF ord[t].side = "BUY" THEN 1 ELSE -1)
        /\ ord[t].side = "none" => ~Busy(t)
        /\ ord[t].side = "SELL" => ord[t].live + ord[t].done <= row[t].qty
    BY <1>0 DEF RiskInv, BookedOK, OrdersOK
  <2>2. CASE t # k
    BY <1>3, <1>4, <2>1, <2>2 DEF Busy, AtBroker
  <2>3. CASE t = k
    <3>1. /\ book.left[k] = ord[k].live + ord[k].done + 0 /\ row[k].qty = book.lot[k].qty + 0
          /\ book.lot[k].qty \in Nat
      BY <1>0, <2>1, <2>3, Ticker
    <3>2. CASE buy
      <4>1. /\ ord'[k].side = "BUY" /\ row'[k].qty = row[k].qty + 1
        BY <1>2, <1>3, <1>4, <3>2
      <4>2. AtBroker(k) > 0
        BY <1>1, <3>2 DEF AtBroker
      <4> QED BY <1>1, <1>3, <2>3, <3>1, <4>1, <4>2
    <3>3. CASE ~buy
      <4>1. /\ ord'[k].side = "SELL" /\ row'[k].qty = row[k].qty - 1 /\ row[k].qty > 0
            /\ ord[k].live + ord[k].done <= row[k].qty
        BY <1>2, <1>3, <1>4, <3>3
      <4>2. AtBroker(k) > 0
        BY <1>1, <3>3, <4>1 DEF AtBroker
      <4> QED BY <1>1, <1>3, <2>3, <3>1, <4>1, <4>2
    <3> QED BY <3>2, <3>3
  <2> QED BY <2>2, <2>3
<1>7. BookedOK' /\ OrdersOK'
  BY ZenonT(60), <1>0, <1>6 DEF BookedOK, OrdersOK
<1>8. PeaksOK'
  BY <1>0 DEF RiskInv, PeaksOK
<1>9. OpenCapped'
  BY <1>6, NoneOpens DEF RiskInv
<1> QED BY <1>5, <1>7, <1>8, <1>9 DEF RiskInv

\* The recorded share reaches the book.
LEMMA BookedKeeps == ASSUME RiskAssumption, RiskInv, NEW k \in Tickers, Booked(k) PROVE RiskInv'
<1> DEFINE f == FillOf(k)
           l == Applied(book.lot[k], f)
           cash == IF book.cash = NoCash THEN book.cash
                   ELSE book.cash + (IF f.side = "BUY" THEN -f.px ELSE f.px)
           profit == IF book.date = 0 \/ f.day >= book.date THEN book.realized + Gain(book.lot[k], f)
                     ELSE book.realized
           left == book.left[k] - 1
           o == [ord[k] EXCEPT !.seen = 0]
<1>0. /\ state.up /\ ord[k].seen = 1
      /\ book' = [book EXCEPT !.lot[k] = l, !.left[k] = left, !.cash = cash, !.realized = profit]
      /\ ord' = [ord EXCEPT ![k] = o]
      /\ UNCHANGED <<today, price, bucket, account, fills, row, lotNo, audit, halted, state>>
  BY Zenon DEF Booked
<1>1. /\ book \in Books(book.realized) /\ ord \in [Tickers -> Ords]
      /\ f.px \in Nat /\ f.side = ord[k].side /\ book.cash \in Int
      /\ book.lot[k] \in Accounts /\ book.lot[k].qty \in Nat /\ row[k].qty \in Nat /\ ord[k] \in Ords
      /\ ord[k].live \in Nat /\ ord[k].done \in Nat
  BY Ticker DEF FillOf, RiskInv, TypesOK, Books
<1>2. /\ book.left[k] = ord[k].live + ord[k].done + 1
      /\ row[k].qty = book.lot[k].qty + (IF ord[k].side = "BUY" THEN 1 ELSE -1)
  BY <1>0 DEF RiskInv, BookedOK
<1>3. l \in Accounts /\ l.qty = row[k].qty
  <2>1. CASE ord[k].side = "BUY"
    BY <1>1, <1>2, <2>1, ApplyAccount
  <2>2. CASE ord[k].side # "BUY"
    <3>1. book.lot[k].qty > 0
      BY <1>1, <1>2, <2>2
    <3>2. l \in Accounts /\ l.qty = book.lot[k].qty - 1
      BY <1>1, <2>2, <3>1, ApplyAccount
    <3> QED BY <1>1, <1>2, <2>2, <3>2
  <2> QED BY <2>1, <2>2
<1>4. /\ o \in Ords /\ o.side = ord[k].side /\ o.live = ord[k].live /\ o.done = ord[k].done /\ o.seen = 0
  <2>1. o = With(ord[k], ord[k].live, ord[k].done, 0)
    BY <1>1, IsBooked
  <2> HIDE DEF o
  <2> QED BY <1>1, <2>1, WithTyped
<1>5. cash \in Int /\ left = ord[k].live + ord[k].done /\ left \in Nat
  <2>1. f.px \in Nat /\ book.cash \in Int
    BY <1>1, Zenon
  <2>2. cash \in Int
    <3> DEFINE x == f.px
    <3> HIDE DEF x
    <3> QED BY <2>1 DEF x
  <2> QED BY <1>1, <1>2, <2>2
<1> HIDE DEF f, l, cash, profit, left, o
<1>6. /\ book'.lot = [book.lot EXCEPT ![k] = l] /\ book'.left = [book.left EXCEPT ![k] = left]
      /\ book'.peak = book.peak /\ book' \in Books(book'.realized)
  <2> DEFINE lots == [book.lot EXCEPT ![k] = l]
             lefts == [book.left EXCEPT ![k] = left]
  <2>1. lots \in [Tickers -> Accounts] /\ lefts \in [Tickers -> Nat]
    <3>1. book.lot \in [Tickers -> Accounts] /\ book.left \in [Tickers -> Nat]
      BY Ticker
    <3> QED BY <1>3, <1>5, <3>1
  <2>2. book' = [book EXCEPT !.lot = lots, !.left = lefts, !.cash = cash, !.realized = profit]
    BY <1>0, <1>1 DEF Books
  <2> HIDE DEF lots, lefts
  <2>3. /\ book'.lot = lots /\ book'.left = lefts /\ book'.peak = book.peak /\ book'.realized = profit
        /\ book'.cash = cash /\ book'.equity = book.equity /\ book'.date = book.date
        /\ book' \in Books(profit)
    BY <1>1, <1>5, <2>1, <2>2 DEF Books
  <2> QED BY <2>3 DEF lots, lefts
<1>7. ord' \in [Tickers -> Ords] /\ ord'[k] = o /\ \A t \in Tickers \ {k} : ord'[t] = ord[t]
  BY <1>0, <1>1, <1>4
<1>8. /\ book'.lot[k] = l /\ book'.left[k] = left
      /\ \A t \in Tickers \ {k} : book'.lot[t] = book.lot[t] /\ book'.left[t] = book.left[t]
  <2>1. book.lot \in [Tickers -> Accounts] /\ book.left \in [Tickers -> Nat]
    BY Ticker
  <2> QED BY <1>6, <2>1
<1>9. TypesOK'
  BY <1>0, <1>6, <1>7 DEF RiskInv, TypesOK
<1>10. ASSUME NEW t \in Tickers
      PROVE  /\ book'.left[t] = ord'[t].live + ord'[t].done + ord'[t].seen
             /\ row[t].qty = book'.lot[t].qty
                  + (IF ord'[t].seen = 0 THEN 0 ELSE IF ord'[t].side = "BUY" THEN 1 ELSE -1)
             /\ ord'[t].side = "none" => ~Busy(t)'
             /\ ord'[t].side = "SELL" => ord'[t].live + ord'[t].done <= row[t].qty
             /\ AtBroker(t)' = AtBroker(t)
  <2>1. /\ book.left[t] = ord[t].live + ord[t].done + ord[t].seen
        /\ row[t].qty = book.lot[t].qty + (IF ord[t].seen = 0 THEN 0 ELSE IF ord[t].side = "BUY" THEN 1 ELSE -1)
        /\ ord[t].side = "none" => ~Busy(t)
        /\ ord[t].side = "SELL" => ord[t].live + ord[t].done <= row[t].qty
    BY <1>0 DEF RiskInv, BookedOK, OrdersOK
  <2>2. CASE t # k
    BY <1>0, <1>7, <1>8, <2>1, <2>2 DEF Busy, AtBroker
  <2>3. CASE t = k
    <3>1. AtBroker(k)' = AtBroker(k)
      BY <1>0, <1>4, <1>7 DEF AtBroker
    <3>2. ord'[k].side # "none"
      <4>1. Busy(k)
        BY <1>0, <1>1 DEF Busy
      <4> QED BY <1>4, <1>7, <2>1, <2>3, <4>1
    <3> QED BY <1>1, <1>3, <1>4, <1>5, <1>7, <1>8, <2>1, <2>3, <3>1, <3>2
  <2> QED BY <2>2, <2>3
<1>11. BookedOK' /\ OrdersOK'
  BY <1>0, <1>10 DEF BookedOK, OrdersOK
<1>12. PeaksOK'
  BY <1>0, <1>6 DEF RiskInv, PeaksOK
<1>13. OpenCapped'
  BY <1>10, NoneOpens DEF RiskInv
<1> QED BY <1>9, <1>11, <1>12, <1>13 DEF RiskInv

\* Day orders end: what still worked is not owed any more.
LEMMA NightKeeps == ASSUME RiskAssumption, RiskInv, Night PROVE RiskInv'
<1>0. /\ today' = today + 1
      /\ ord' = [t \in Tickers |-> [ord[t] EXCEPT !.live = 0]]
      /\ book' = [book EXCEPT !.left = [t \in Tickers |-> ord[t].done + ord[t].seen]]
      /\ UNCHANGED <<price, bucket, account, fills, row, lotNo, audit, halted, state>>
  BY DEF Night
<1>1. ASSUME NEW t \in Tickers
      PROVE  /\ ord'[t] \in Ords /\ ord'[t].side = ord[t].side /\ ord'[t].live = 0
             /\ ord'[t].done = ord[t].done /\ ord'[t].seen = ord[t].seen
             /\ ord[t].done \in Nat /\ ord[t].seen \in {0, 1} /\ ord[t].live \in Nat
  <2>1. ord[t] \in Ords /\ ord[t].done \in Nat /\ ord[t].seen \in {0, 1} /\ ord[t].live \in Nat
    BY Ticker
  <2> QED BY <2>1, OrdEnded
<1>2. ord' \in [Tickers -> Ords]
  BY <1>0, <1>1
<1>3. /\ \A t \in Tickers : book'.left[t] = ord[t].done + ord[t].seen
      /\ book'.lot = book.lot /\ book'.peak = book.peak /\ book' \in Books(book'.realized)
  <2> DEFINE lefts == [t \in Tickers |-> ord[t].done + ord[t].seen]
  <2>1. lefts \in [Tickers -> Nat]
    BY <1>1
  <2>2. book' = [book EXCEPT !.left = lefts] /\ book \in Books(book.realized)
    BY <1>0 DEF RiskInv, TypesOK
  <2>3. \A t \in Tickers : lefts[t] = ord[t].done + ord[t].seen
    OBVIOUS
  <2> HIDE DEF lefts
  <2>4. /\ book'.left = lefts /\ book'.lot = book.lot /\ book'.peak = book.peak
        /\ book' \in Books(book'.realized)
    BY <2>1, <2>2 DEF Books
  <2> QED BY <2>3, <2>4
<1>4. TypesOK'
  BY <1>0, <1>2, <1>3 DEF RiskInv, TypesOK
<1>5. BookedOK'
  BY <1>0, <1>1, <1>3 DEF RiskInv, BookedOK
<1>6. OrdersOK'
  <2> SUFFICES ASSUME NEW t \in Tickers
               PROVE  /\ ord'[t].side = "none" => ~Busy(t)'
                      /\ ord'[t].side = "SELL" => ord'[t].live + ord'[t].done <= row'[t].qty
    BY DEF OrdersOK
  <2>1. row[t].qty \in Nat
    BY Ticker
  <2> QED BY <1>0, <1>1, <2>1 DEF RiskInv, OrdersOK, Busy
<1>7. PeaksOK'
  BY <1>0, <1>3 DEF RiskInv, PeaksOK
<1>8. OpenCapped'
  <2>1. ASSUME NEW t \in Tickers PROVE AtBroker(t)' > 0 => AtBroker(t) > 0
    <3>1. row[t].qty \in Nat
      BY Ticker
    <3> QED BY <1>0, <1>1, <3>1 DEF AtBroker
  <2> QED BY <2>1, NoneOpens DEF RiskInv
<1> QED BY <1>4, <1>5, <1>6, <1>7, <1>8 DEF RiskInv

\* The process goes down: the book is lost, and a recorded share with it.
LEMMA DownKeeps == ASSUME RiskAssumption, RiskInv, Down PROVE RiskInv'
<1>0. /\ state' = [state EXCEPT !.up = FALSE, !.crashes = @ + 1]
      /\ book' = NoBook /\ price' = [t \in Tickers |-> 0] /\ bucket' = [t \in Tickers |-> 0]
      /\ ord' = [t \in Tickers |-> [ord[t] EXCEPT !.seen = 0]]
      /\ UNCHANGED <<today, account, fills, row, lotNo, audit, halted>>
  BY DEF Down
<1>1. ASSUME NEW t \in Tickers
      PROVE  /\ ord'[t] \in Ords /\ ord'[t].side = ord[t].side /\ ord'[t].live = ord[t].live
             /\ ord'[t].done = ord[t].done /\ ord'[t].seen = 0
             /\ ord[t].done \in Nat /\ ord[t].seen \in {0, 1} /\ ord[t].live \in Nat
  <2>1. ord[t] \in Ords /\ ord[t].done \in Nat /\ ord[t].seen \in {0, 1} /\ ord[t].live \in Nat
    BY Ticker
  <2>2. ord'[t] = With(ord[t], ord[t].live, ord[t].done, 0)
    BY <1>0, <2>1, IsBooked
  <2> QED BY <2>1, <2>2, WithTyped
<1>2. ord' \in [Tickers -> Ords]
  BY <1>0, <1>1
<1>3. state' \in Runs /\ state'.up = FALSE /\ state'.top = state.top
  <2> DEFINE n == state.crashes + 1
  <2>1. state \in Runs /\ n \in Nat
    BY DEF RiskInv, TypesOK, Runs
  <2>2. state' = [state EXCEPT !.up = FALSE, !.crashes = n]
    BY <1>0
  <2> HIDE DEF n
  <2> QED BY <2>1, <2>2 DEF Runs
<1>4. NoBook \in Books(NoBook.realized)
  BY DEF NoBook, Books, Accounts, Empty, NoCash
<1>5. TypesOK'
  BY <1>0, <1>2, <1>3, <1>4 DEF RiskInv, TypesOK
<1>6. BookedOK'
  BY <1>1, <1>3 DEF BookedOK
<1>7. OrdersOK'
  <2> SUFFICES ASSUME NEW t \in Tickers
               PROVE  /\ ord'[t].side = "none" => ~Busy(t)'
                      /\ ord'[t].side = "SELL" => ord'[t].live + ord'[t].done <= row'[t].qty
    BY DEF OrdersOK
  <2> QED BY <1>0, <1>1 DEF RiskInv, OrdersOK, Busy
<1>8. PeaksOK'
  BY <1>0, <1>3 DEF RiskInv, PeaksOK
<1>9. OpenCapped'
  <2>1. \A t \in Tickers : AtBroker(t)' = AtBroker(t)
    BY <1>0, <1>1 DEF AtBroker
  <2> QED BY <2>1, NoneOpens DEF RiskInv
<1> QED BY <1>5, <1>6, <1>7, <1>8, <1>9 DEF RiskInv

\* A restart rebuilds the book: the lots from the positions table, what is owed from the
\* open orders, the peak from the audit log.
LEMMA HydrateKeeps == ASSUME RiskAssumption, RiskInv, Hydrate PROVE RiskInv'
<1> DEFINE left == [t \in Tickers |-> Owed(t)]
           day  == Restored(today)
<1>0. /\ ~state.up /\ state' = [state EXCEPT !.up = TRUE, !.late = FALSE]
      /\ book' = [NoBook EXCEPT !.lot = row, !.left = left, !.date = today, !.realized = day, !.peak = audit]
      /\ price' = [t \in Tickers |-> row[t].avg]
      /\ UNCHANGED <<today, bucket, ord, account, fills, row, lotNo, audit, halted>>
  BY DEF Hydrate
<1>1. ASSUME NEW t \in Tickers
      PROVE  /\ left[t] = ord[t].live + ord[t].done /\ left[t] \in Nat /\ ord[t].seen = 0
             /\ row[t].qty \in Nat /\ row[t].avg \in Int
  <2>1. ord[t].live \in Nat /\ ord[t].done \in Nat /\ row[t] \in Accounts
    BY Ticker
  <2>2. ord[t].seen = 0
    BY <1>0 DEF RiskInv, BookedOK
  <2>3. left[t] = ord[t].live + ord[t].done
    BY DEF Owed
  <2> QED BY <2>1, <2>2, <2>3 DEF Accounts
<1>2. left \in [Tickers -> Nat]
  BY <1>1
<1> HIDE DEF left, day
<1>3. today \in Nat /\ audit \in Nat /\ row \in [Tickers -> Accounts] /\ ord \in [Tickers -> Ords]
  BY DEF RiskInv, TypesOK
<1>4. /\ book'.lot = row /\ book'.left = left /\ book'.peak = audit
      /\ book' \in Books(book'.realized)
  <2>1. NoBook \in Books(0)
    BY DEF NoBook, Books, Accounts, Empty, NoCash
  <2>2. /\ book'.lot = row /\ book'.left = left /\ book'.peak = audit /\ book'.realized = day
        /\ book' \in Books(day)
    BY <1>0, <1>2, <1>3, <2>1 DEF Books
  <2> QED BY <2>2
<1>5. state' \in Runs /\ state'.up /\ state'.top = state.top
  BY <1>0 DEF RiskInv, TypesOK, Runs
<1>6. price' \in [Tickers -> Int]
  BY <1>0, <1>1
<1>7. TypesOK'
  BY <1>0, <1>3, <1>4, <1>5, <1>6 DEF RiskInv, TypesOK
<1>8. BookedOK'
  <2> SUFFICES ASSUME NEW t \in Tickers
               PROVE  /\ book'.left[t] = ord'[t].live + ord'[t].done + ord'[t].seen
                      /\ row'[t].qty = book'.lot[t].qty
                           + (IF ord'[t].seen = 0 THEN 0 ELSE IF ord'[t].side = "BUY" THEN 1 ELSE -1)
    BY <1>5 DEF BookedOK
  <2>1. ord[t].live \in Nat /\ ord[t].done \in Nat
    BY Ticker
  <2> QED BY <1>0, <1>1, <1>4, <2>1
<1>9. OrdersOK'
  BY <1>0 DEF RiskInv, OrdersOK, Busy
<1>10. PeaksOK'
  BY <1>0, <1>3, <1>4, <1>5 DEF RiskInv, PeaksOK
<1>11. OpenCapped'
  BY <1>0, NoneOpens DEF RiskInv, AtBroker
<1> QED BY <1>7, <1>8, <1>9, <1>10, <1>11 DEF RiskInv

-----------------------------------------------------------------------------
(* A bar.                                                                   *)

\* The figures a bar of ticker t at price p is looked at with.
FiguresOf(t, cash, p) == Valued(OnDay(book, bucket[t]), cash, [price EXCEPT ![t] = p])

\* What a bar leaves whatever it decides: the peak it used is on disk, or nearly.
LEMMA BarFigures ==
  ASSUME RiskAssumption, RiskInv, NEW k \in Tickers, NEW p \in Prices, NEW cash \in {account, book.cash},
         NEW b, b = FiguresOf(k, cash, p), state.up,
         price' = [price EXCEPT ![k] = p], bucket' = [bucket EXCEPT ![k] = today],
         audit' = Persisted(b.peak),
         state' = [state EXCEPT !.top = Bigger(@, b.peak), !.late = @ \/ bucket[k] < today]
  PROVE  /\ price' \in [Tickers -> Int] /\ bucket' \in [Tickers -> Nat] /\ audit' \in Nat /\ state' \in Runs
         /\ state'.up /\ state'.top <= audit' + PeakStep /\ audit' <= b.peak
         /\ state.top - PeakStep <= b.peak
         /\ b \in Books(b.realized) /\ b.lot = book.lot /\ b.left = book.left /\ b.equity \in Int
<1>1. /\ p \in Int /\ cash \in Int /\ bucket[k] \in Nat /\ book.peak \in Nat /\ today \in Nat
      /\ audit \in Nat /\ state \in Runs /\ PeakStep \in Nat
      /\ price \in [Tickers -> Int] /\ bucket \in [Tickers -> Nat]
  BY DEF RiskAssumption, RiskInv, TypesOK, Books
<1>2. price' \in [Tickers -> Int] /\ bucket' \in [Tickers -> Nat]
  BY <1>1
<1> DEFINE q == [price EXCEPT ![k] = p]
           d == bucket[k]
<1>3. b = Valued(OnDay(book, d), cash, q) /\ q \in [Tickers -> Int] /\ d \in Nat /\ cash \in Int
  BY <1>1 DEF FiguresOf
<1> HIDE DEF q, d
<1>4. /\ b \in Books(b.realized) /\ b.lot = book.lot /\ b.left = book.left
      /\ b.peak >= book.peak /\ b.equity \in Int
  BY <1>3, Figures DEF RiskInv
<1>5. b.peak \in Nat
  BY <1>4 DEF Books
<1>6. state.top \in Nat /\ state.top <= audit + PeakStep /\ audit <= book.peak
  BY <1>1 DEF RiskInv, PeaksOK, Runs
<1>7. /\ state'.up /\ state'.top = Bigger(state.top, b.peak) /\ state' \in Runs
  <2> DEFINE n == Bigger(state.top, b.peak)
             c == state.late \/ bucket[k] < today
  <2>1. n \in Nat /\ c \in BOOLEAN
    BY <1>1, <1>5, <1>6 DEF Bigger
  <2>2. state' = [state EXCEPT !.top = n, !.late = c]
    OBVIOUS
  <2> HIDE DEF n, c
  <2>3. state'.up = state.up /\ state'.top = n /\ state' \in Runs
    BY <1>1, <2>1, <2>2 DEF Runs
  <2> QED BY <2>3 DEF n
<1>8. audit' \in Nat /\ audit' <= b.peak /\ Bigger(state.top, b.peak) <= audit' + PeakStep
  BY <1>1, <1>4, <1>5, <1>6 DEF Persisted, Bigger
<1>9. state.top - PeakStep <= b.peak
  BY <1>1, <1>4, <1>5, <1>6
<1> QED BY <1>2, <1>4, <1>7, <1>8, <1>9

\* A new order of a ticker that has none.
LEMMA Placed ==
  ASSUME RiskAssumption, RiskInv, NEW k \in Tickers, NEW side \in {"BUY", "SELL"},
         NEW q \in Nat \ {0}, NEW p \in Prices, ~Busy(k), Place(k, side, q, p)
  PROVE  /\ ord' \in [Tickers -> Ords] /\ \A t \in Tickers \ {k} : ord'[t] = ord[t]
         /\ ord'[k].side = side /\ ord'[k].live = q /\ ord'[k].done = 0 /\ ord'[k].seen = 0
         /\ ord'[k].day = today /\ ord[k].live = 0 /\ ord[k].done = 0 /\ ord[k].seen = 0
<1> DEFINE o == [side |-> side, px |-> p, day |-> today, live |-> q, done |-> 0, seen |-> 0]
<1>1. o \in Ords
  BY DEF Ords, RiskAssumption, RiskInv, TypesOK
<1>2. o.side = side /\ o.day = today /\ o.live = q /\ o.done = 0 /\ o.seen = 0
  OBVIOUS
<1>3. ord' = [ord EXCEPT ![k] = o] /\ ord \in [Tickers -> Ords]
  BY DEF Place, RiskInv, TypesOK
<1> HIDE DEF o
<1>4. ord[k].live = 0 /\ ord[k].done = 0 /\ ord[k].seen = 0
  <2>1. ord[k].live \in Nat /\ ord[k].done \in Nat /\ ord[k].seen \in {0, 1}
    BY Ticker
  <2> QED BY <2>1 DEF Busy
<1> QED BY <1>1, <1>2, <1>3, <1>4

\* A bar leaves an order the gate has room for, a sale of what the lot has, or none.
LEMMA BarKeeps ==
  ASSUME RiskAssumption, RiskInv, NEW k \in Tickers, NEW p \in Prices, Bar(k, p)
  PROVE  RiskInv'
<1>1. /\ state.up
      /\ bucket' = [bucket EXCEPT ![k] = today] /\ price' = [price EXCEPT ![k] = p]
      /\ UNCHANGED <<today, account, fills, halted>>
  BY DEF Bar
<1>2. PICK cash \in {account, book.cash} :
        LET b == Valued(OnDay(book, bucket[k]), cash, price') IN
        /\ audit' = Persisted(b.peak)
        /\ state' = [state EXCEPT !.top = Bigger(@, b.peak), !.late = @ \/ bucket[k] < today]
        /\ \/ /\ book' = b /\ UNCHANGED <<ord, row, lotNo>>
           \/ \E q \in Sizes :
                /\ ~Busy(k) /\ b.equity > 0 /\ Allowed(b, k, q, p)
                /\ Place(k, "BUY", q, p)
                /\ IF b.lot[k].qty = 0
                   THEN lotNo' = [lotNo EXCEPT ![k] = @ + 1] /\ row' = [row EXCEPT ![k] = Empty]
                   ELSE UNCHANGED <<row, lotNo>>
                /\ book' = [b EXCEPT !.left[k] = q]
           \/ /\ ~Busy(k) /\ b.lot[k].qty > 0
              /\ Place(k, "SELL", b.lot[k].qty, p)
              /\ book' = [b EXCEPT !.left[k] = b.lot[k].qty]
              /\ UNCHANGED <<row, lotNo>>
  BY Zenon DEF Bar
<1> DEFINE b == Valued(OnDay(book, bucket[k]), cash, price')
<1>3. b = FiguresOf(k, cash, p)
  BY <1>1, Zenon DEF FiguresOf
<1>4. /\ audit' = Persisted(b.peak)
      /\ state' = [state EXCEPT !.top = Bigger(@, b.peak), !.late = @ \/ bucket[k] < today]
  BY <1>2, Zenon
<1>5. \/ book' = b /\ UNCHANGED <<ord, row, lotNo>>
      \/ \E q \in Sizes :
           /\ ~Busy(k) /\ Allowed(b, k, q, p) /\ Place(k, "BUY", q, p)
           /\ IF b.lot[k].qty = 0 THEN row' = [row EXCEPT ![k] = Empty] ELSE row' = row
           /\ book' = [b EXCEPT !.left[k] = q]
      \/ /\ ~Busy(k) /\ b.lot[k].qty > 0 /\ Place(k, "SELL", b.lot[k].qty, p)
         /\ book' = [b EXCEPT !.left[k] = b.lot[k].qty] /\ row' = row
  BY <1>2, Zenon
<1> HIDE DEF b
<1>6. /\ price' \in [Tickers -> Int] /\ bucket' \in [Tickers -> Nat] /\ audit' \in Nat /\ state' \in Runs
      /\ state'.up /\ state'.top <= audit' + PeakStep /\ audit' <= b.peak
      /\ b \in Books(b.realized) /\ b.lot = book.lot /\ b.left = book.left
  BY <1>1, <1>3, <1>4, BarFigures
<1>7. /\ book.lot \in [Tickers -> Accounts] /\ book.left \in [Tickers -> Nat]
      /\ row \in [Tickers -> Accounts] /\ ord \in [Tickers -> Ords]
      /\ TypesOK /\ BookedOK /\ OrdersOK /\ OpenCapped
  BY Ticker DEF RiskInv, TypesOK
<1>8. /\ book.left[k] = ord[k].live + ord[k].done + ord[k].seen
      /\ row[k].qty = book.lot[k].qty + (IF ord[k].seen = 0 THEN 0 ELSE IF ord[k].side = "BUY" THEN 1 ELSE -1)
  BY <1>1, <1>7 DEF BookedOK
<1>9. CASE book' = b /\ UNCHANGED <<ord, row, lotNo>>
  <2>1. TypesOK'
    BY <1>1, <1>6, <1>7, <1>9 DEF TypesOK
  <2>2. BookedOK' /\ OrdersOK' /\ PeaksOK'
    BY <1>1, <1>6, <1>7, <1>9 DEF BookedOK, OrdersOK, PeaksOK, Busy
  <2>3. OpenCapped'
    BY <1>7, <1>9, NoneOpens DEF AtBroker
  <2> QED BY <2>1, <2>2, <2>3 DEF RiskInv
<1>10. ASSUME NEW side \in {"BUY", "SELL"}, NEW q \in Nat \ {0}, ~Busy(k), Place(k, side, q, p),
              book' = [b EXCEPT !.left[k] = q], row' \in [Tickers -> Accounts], row'[k].qty = row[k].qty,
              \A t \in Tickers \ {k} : row'[t] = row[t],
              side = "SELL" => q = book.lot[k].qty
       PROVE  /\ TypesOK' /\ BookedOK' /\ OrdersOK' /\ PeaksOK'
              /\ \A t \in Tickers \ {k} : AtBroker(t)' = AtBroker(t)
              /\ side = "SELL" => AtBroker(k)' = AtBroker(k)
  <2>1. /\ ord' \in [Tickers -> Ords] /\ \A t \in Tickers \ {k} : ord'[t] = ord[t]
        /\ ord'[k].side = side /\ ord'[k].live = q /\ ord'[k].done = 0 /\ ord'[k].seen = 0
        /\ ord[k].live = 0 /\ ord[k].done = 0 /\ ord[k].seen = 0
    BY <1>10, Placed
  <2>2. /\ book'.lot = book.lot /\ book'.left = [book.left EXCEPT ![k] = q] /\ book'.peak = b.peak
        /\ book' \in Books(book'.realized)
    <3> DEFINE lefts == [book.left EXCEPT ![k] = q]
    <3>1. lefts \in [Tickers -> Nat]
      BY <1>7
    <3>2. book' = [b EXCEPT !.left = lefts]
      BY <1>6, <1>10
    <3> HIDE DEF lefts
    <3>3. book'.lot = b.lot /\ book'.left = lefts /\ book'.peak = b.peak /\ book' \in Books(book'.realized)
      BY <1>6, <3>1, <3>2 DEF Books
    <3> QED BY <1>6, <3>3 DEF lefts
  <2>3. book'.left[k] = q /\ \A t \in Tickers \ {k} : book'.left[t] = book.left[t]
    BY <1>7, <2>2
  <2>4. TypesOK'
    BY <1>1, <1>6, <1>7, <1>10, <2>1, <2>2 DEF TypesOK
  <2>5. row[k].qty = book.lot[k].qty /\ book.lot[k].qty \in Nat
    BY <1>8, <2>1, Ticker
  <2>6. BookedOK'
    <3> SUFFICES ASSUME NEW t \in Tickers
                 PROVE  /\ book'.left[t] = ord'[t].live + ord'[t].done + ord'[t].seen
                        /\ row'[t].qty = book'.lot[t].qty
                             + (IF ord'[t].seen = 0 THEN 0 ELSE IF ord'[t].side = "BUY" THEN 1 ELSE -1)
      BY <1>6 DEF BookedOK
    <3>1. CASE t = k
      BY <1>10, <2>1, <2>2, <2>3, <2>5, <3>1
    <3>2. CASE t # k
      BY <1>1, <1>7, <1>10, <2>1, <2>2, <2>3, <3>2 DEF BookedOK
    <3> QED BY <3>1, <3>2
  <2>7. OrdersOK'
    <3> SUFFICES ASSUME NEW t \in Tickers
                 PROVE  /\ ord'[t].side = "none" => ~Busy(t)'
                        /\ ord'[t].side = "SELL" => ord'[t].live + ord'[t].done <= row'[t].qty
      BY DEF OrdersOK
    <3>1. CASE t = k
      BY <1>10, <2>1, <2>5, <3>1
    <3>2. CASE t # k
      BY <1>7, <1>10, <2>1, <3>2 DEF OrdersOK, Busy
    <3> QED BY <3>1, <3>2
  <2>8. PeaksOK'
    BY <1>6, <2>2 DEF PeaksOK
  <2>9. \A t \in Tickers \ {k} : AtBroker(t)' = AtBroker(t)
    BY <1>10, <2>1 DEF AtBroker
  <2>10. side = "SELL" => AtBroker(k)' = AtBroker(k)
    BY <1>10, <2>1 DEF AtBroker
  <2> QED BY <2>4, <2>6, <2>7, <2>8, <2>9, <2>10
<1>11. ASSUME NEW q \in Sizes, ~Busy(k), Allowed(b, k, q, p), Place(k, "BUY", q, p),
              IF b.lot[k].qty = 0 THEN row' = [row EXCEPT ![k] = Empty] ELSE row' = row,
              book' = [b EXCEPT !.left[k] = q]
       PROVE  RiskInv'
  <2>1. q \in Nat \ {0} /\ OpenCount(b) < MaxOpen
    BY <1>11 DEF RiskAssumption, Allowed
  <2>2. row[k].qty = book.lot[k].qty
    <3>1. ord[k].seen = 0 /\ book.lot[k].qty \in Nat
      BY <1>11, Ticker DEF Busy
    <3> QED BY <1>8, <3>1
  <2>3. Empty \in Accounts /\ Empty.qty = 0
    BY DEF Empty, Accounts
  <2>4. /\ row' \in [Tickers -> Accounts] /\ row'[k].qty = row[k].qty
        /\ \A t \in Tickers \ {k} : row'[t] = row[t]
    BY <1>6, <1>7, <1>11, <2>2, <2>3
  <2>5. /\ TypesOK' /\ BookedOK' /\ OrdersOK' /\ PeaksOK'
        /\ \A t \in Tickers \ {k} : AtBroker(t)' = AtBroker(t)
    BY <1>10, <1>11, <2>1, <2>4
  <2>6. OpenCapped'
    <3>1. \A t \in Tickers \ {k} : AtBroker(t)' > 0 => AtBroker(t) > 0
      BY <2>5
    <3> QED BY <1>1, <1>6, <1>7, <2>1, <3>1, OneOpens
  <2> QED BY <2>5, <2>6 DEF RiskInv
<1>12. ASSUME ~Busy(k), b.lot[k].qty > 0, Place(k, "SELL", b.lot[k].qty, p),
              book' = [b EXCEPT !.left[k] = b.lot[k].qty], row' = row
       PROVE  RiskInv'
  <2> DEFINE q == b.lot[k].qty
  <2>1. q \in Nat \ {0} /\ q = book.lot[k].qty /\ Place(k, "SELL", q, p) /\ book' = [b EXCEPT !.left[k] = q]
    BY <1>6, <1>12, Ticker
  <2> HIDE DEF q
  <2>2. row' \in [Tickers -> Accounts] /\ row'[k].qty = row[k].qty /\ \A t \in Tickers \ {k} : row'[t] = row[t]
    BY <1>7, <1>12
  <2>3. /\ TypesOK' /\ BookedOK' /\ OrdersOK' /\ PeaksOK'
        /\ \A t \in Tickers \ {k} : AtBroker(t)' = AtBroker(t)
        /\ AtBroker(k)' = AtBroker(k)
    BY <1>10, <1>12, <2>1, <2>2
  <2>4. OpenCapped'
    BY <1>7, <2>3, NoneOpens
  <2> QED BY <2>3, <2>4 DEF RiskInv
<1> QED BY <1>5, <1>9, <1>11, <1>12

-----------------------------------------------------------------------------

\* The account starts without shares or orders.
LEMMA RiskStarts == ASSUME RiskAssumption, RiskInit PROVE RiskInv
<1>1. NoBook \in Books(0) /\ NoOrd \in Ords /\ Empty \in Accounts
  BY DEF NoBook, Books, Accounts, Empty, NoCash, NoOrd, Ords
<1>2. book \in Books(book.realized)
  BY <1>1 DEF RiskInit, Books
<1>3. TypesOK
  BY <1>1, <1>2 DEF RiskInit, RiskAssumption, TypesOK, Runs
<1>4. BookedOK
  BY DEF RiskInit, BookedOK, NoBook, NoOrd, Empty
<1>5. OrdersOK
  BY DEF RiskInit, OrdersOK, Busy, NoOrd
<1>6. PeaksOK
  BY DEF RiskInit, PeaksOK, RiskAssumption, NoBook
<1>7. OpenCapped
  <2>1. \A t \in Tickers : AtBroker(t) = 0
    BY DEF RiskInit, AtBroker, NoOrd, Empty
  <2>2. {t \in Tickers : AtBroker(t) > 0} = {}
    BY <2>1
  <2> QED BY <2>2, FS_EmptySet DEF OpenCapped, RiskAssumption
<1> QED BY <1>3, <1>4, <1>5, <1>6, <1>7 DEF RiskInv

\* No step disturbs the figures.
LEMMA RiskStep == ASSUME RiskAssumption, RiskInv, [RiskNext]_riskVars PROVE RiskInv'
<1>1. CASE UNCHANGED riskVars
  BY <1>1 DEF riskVars, RiskInv, TypesOK, BookedOK, OrdersOK, PeaksOK, OpenCapped, AtBroker, Busy
<1>2. ASSUME NEW t \in Tickers,
             FirstTick(t) \/ Execute(t) \/ Record(t) \/ Booked(t) \/ \E p \in Prices : Bar(t, p)
      PROVE  RiskInv'
  BY <1>2, FirstTickKeeps, ExecuteKeeps, RecordKeeps, BookedKeeps, BarKeeps
<1> QED BY <1>1, <1>2, NightKeeps, DownKeeps, HydrateKeeps DEF RiskNext

\* "max_open_positions" holds of the account: no order of fills, bars, nights and
\* restarts opens one ticker more (limits.py, service.py:1260-1275).
THEOREM PositionsCapped == ASSUME RiskAssumption PROVE RiskSpec => []OpenCapped
<1>1. RiskInit => RiskInv
  BY RiskStarts
<1>2. RiskInv /\ [RiskNext]_riskVars => RiskInv'
  BY RiskStep
<1>3. RiskInv => OpenCapped
  BY DEF RiskInv
<1> QED BY <1>1, <1>2, <1>3, PTL DEF RiskSpec

-----------------------------------------------------------------------------
(* The drawdown.                                                            *)

\* A share of a smaller amount is no larger.
LEMMA TimesMonotone == ASSUME NEW a \in Int, NEW b \in Int, NEW c \in Nat, a <= b PROVE a * c <= b * c
<1>1. (b - a) * c >= 0
  OBVIOUS
<1>2. (b - a) * c = b * c - a * c
  OBVIOUS
<1>3. a * c \in Int /\ b * c \in Int
  OBVIOUS
<1> QED BY <1>1, <1>2, <1>3

\* Only a bar sends a buy: what else changes an order leaves less of it at work.
LEMMA OnlyBarsBuy ==
  ASSUME RiskAssumption, RiskInv, [RiskNext]_riskVars, Buys
  PROVE  \E k \in Tickers, p \in Prices : Bar(k, p)
<1> SUFFICES ASSUME NEW t \in Tickers, ord'[t].side = "BUY", ord'[t].live > ord[t].live,
                    ~\E k \in Tickers, p \in Prices : Bar(k, p)
             PROVE  FALSE
  BY DEF Buys
<1>0. ord \in [Tickers -> Ords] /\ ord[t] \in Ords /\ ord[t].live \in Nat
  BY Ticker DEF RiskInv, TypesOK
<1>1. ASSUME NEW k \in Tickers, Execute(k) PROVE FALSE
  <2> DEFINE r == [ord[k] EXCEPT !.live = @ - 1, !.done = @ + 1]
  <2>1. ord' = [ord EXCEPT ![k] = r]
    BY <1>1 DEF Execute
  <2>2. r.live = ord[k].live - 1 /\ ord[k].live \in Nat
    <3>1. r = With(ord[k], ord[k].live - 1, ord[k].done + 1, ord[k].seen)
      BY Traded, Ticker
    <3> HIDE DEF r
    <3> QED BY <3>1, Ticker DEF With
  <2> HIDE DEF r
  <2>3. ord'[t].live <= ord[t].live
    BY <1>0, <2>1, <2>2
  <2> QED BY <1>0, <2>1, <2>2
<1>2. ASSUME NEW k \in Tickers, Record(k) PROVE FALSE
  <2> DEFINE r == [ord[k] EXCEPT !.done = @ - 1, !.seen = 1]
  <2>1. ord' = [ord EXCEPT ![k] = r]
    BY <1>2 DEF Record
  <2>2. r.live = ord[k].live
    <3>1. r = With(ord[k], ord[k].live, ord[k].done - 1, 1)
      BY Recorded, Ticker
    <3> HIDE DEF r
    <3> QED BY <3>1 DEF With
  <2> HIDE DEF r
  <2> QED BY <1>0, <2>1, <2>2
<1>3. ASSUME NEW k \in Tickers, Booked(k) PROVE FALSE
  <2> DEFINE r == [ord[k] EXCEPT !.seen = 0]
  <2>1. ord' = [ord EXCEPT ![k] = r]
    BY <1>3 DEF Booked
  <2>2. r.live = ord[k].live
    BY Ticker DEF Ords
  <2> HIDE DEF r
  <2> QED BY <1>0, <2>1, <2>2
<1>4. CASE Night
  <2>1. ord'[t] = [ord[t] EXCEPT !.live = 0]
    BY <1>4 DEF Night
  <2>2. ord'[t].live = 0
    BY <1>0, <2>1 DEF Ords
  <2> QED BY <1>0, <2>2
<1>5. CASE Down
  <2>1. ord'[t] = [ord[t] EXCEPT !.seen = 0]
    BY <1>5 DEF Down
  <2>2. ord'[t].live = ord[t].live
    BY <1>0, <2>1 DEF Ords
  <2> QED BY <1>0, <2>2
<1>6. CASE UNCHANGED ord
  BY <1>0, <1>6
<1>7. ASSUME Hydrate \/ (\E k \in Tickers : FirstTick(k)) \/ UNCHANGED riskVars
      PROVE  UNCHANGED ord
  BY <1>7 DEF Hydrate, FirstTick, riskVars
<1> QED BY <1>1, <1>2, <1>3, <1>4, <1>5, <1>6, <1>7 DEF RiskNext

\* The floor a buy's equity was above is not far below the highest peak ever used.
LEMMA BuyIsAboveFloor ==
  ASSUME RiskAssumption, RiskInv, NEW k \in Tickers, NEW p \in Prices, Bar(k, p), Buys
  PROVE  100 * book'.equity > (state.top - PeakStep) * (100 - DrawPct)
<1>1. /\ state.up
      /\ bucket' = [bucket EXCEPT ![k] = today] /\ price' = [price EXCEPT ![k] = p]
  BY DEF Bar
<1>2. PICK cash \in {account, book.cash} :
        LET b == Valued(OnDay(book, bucket[k]), cash, price') IN
        /\ audit' = Persisted(b.peak)
        /\ state' = [state EXCEPT !.top = Bigger(@, b.peak), !.late = @ \/ bucket[k] < today]
        /\ \/ /\ book' = b /\ UNCHANGED <<ord, row, lotNo>>
           \/ \E q \in Sizes :
                /\ ~Busy(k) /\ b.equity > 0 /\ Allowed(b, k, q, p)
                /\ Place(k, "BUY", q, p)
                /\ IF b.lot[k].qty = 0
                   THEN lotNo' = [lotNo EXCEPT ![k] = @ + 1] /\ row' = [row EXCEPT ![k] = Empty]
                   ELSE UNCHANGED <<row, lotNo>>
                /\ book' = [b EXCEPT !.left[k] = q]
           \/ /\ ~Busy(k) /\ b.lot[k].qty > 0
              /\ Place(k, "SELL", b.lot[k].qty, p)
              /\ book' = [b EXCEPT !.left[k] = b.lot[k].qty]
              /\ UNCHANGED <<row, lotNo>>
  BY Zenon DEF Bar
<1> DEFINE b == Valued(OnDay(book, bucket[k]), cash, price')
<1>3. b = FiguresOf(k, cash, p)
  BY <1>1, Zenon DEF FiguresOf
<1>4. /\ audit' = Persisted(b.peak)
      /\ state' = [state EXCEPT !.top = Bigger(@, b.peak), !.late = @ \/ bucket[k] < today]
  BY <1>2, Zenon
<1>5. \/ ord' = ord
      \/ \E q \in Sizes : Allowed(b, k, q, p) /\ book' = [b EXCEPT !.left[k] = q]
      \/ ~Busy(k) /\ b.lot[k].qty > 0 /\ Place(k, "SELL", b.lot[k].qty, p)
  BY <1>2, Zenon
<1> HIDE DEF b
<1>6. /\ state.top - PeakStep <= b.peak /\ b.lot = book.lot /\ b.equity \in Int /\ b \in Books(b.realized)
  BY <1>1, <1>3, <1>4, BarFigures
<1>7. PICK t \in Tickers : ord'[t].side = "BUY" /\ ord'[t].live > ord[t].live
  BY DEF Buys
<1>8. ord' # ord
  <2>1. ord[t].live \in Nat
    BY Ticker
  <2> QED BY <1>7, <2>1
<1>9. ASSUME ~Busy(k), b.lot[k].qty > 0, Place(k, "SELL", b.lot[k].qty, p)
      PROVE  FALSE
  <2>1. b.lot[k].qty \in Nat \ {0}
    BY <1>6, <1>9, Ticker
  <2>2. ord'[k].side = "SELL" /\ \A u \in Tickers \ {k} : ord'[u] = ord[u]
    BY <1>9, <2>1, Placed
  <2>3. ord[t].live \in Nat
    BY Ticker
  <2> QED BY <1>7, <2>2, <2>3
<1>10. PICK q \in Sizes : Allowed(b, k, q, p) /\ book' = [b EXCEPT !.left[k] = q]
  BY <1>5, <1>8, <1>9
<1>11. book'.equity = b.equity
  BY <1>6, <1>10 DEF Books
<1>12. 100 * b.equity > b.peak * (100 - DrawPct)
  BY <1>10 DEF Allowed
<1>13. b.peak \in Nat /\ state.top - PeakStep \in Int /\ 100 - DrawPct \in Nat
  <2>1. state.top \in Nat
    BY DEF RiskInv, TypesOK, Runs
  <2> QED BY <1>6, <2>1 DEF Books, RiskAssumption
<1>14. (state.top - PeakStep) * (100 - DrawPct) <= b.peak * (100 - DrawPct)
  BY <1>6, <1>13, TimesMonotone
<1> DEFINE x == (state.top - PeakStep) * (100 - DrawPct)
           y == b.peak * (100 - DrawPct)
<1>15. x \in Int /\ y \in Int /\ x <= y /\ 100 * b.equity > y
  BY <1>12, <1>13, <1>14
<1> HIDE DEF x, y
<1>16. 100 * b.equity > x
  BY <1>6, <1>15
<1> QED BY <1>11, <1>16 DEF x

\* No buy is sent while equity is below the floor under the highest peak the engine ever
\* used, restarts included (service.py:940-985).
THEOREM DrawdownHolds == ASSUME RiskAssumption PROVE RiskSpec => DrawdownSticks
<1>1. RiskInit => RiskInv
  BY RiskStarts
<1>2. RiskInv /\ [RiskNext]_riskVars => RiskInv'
  BY RiskStep
<1>3. RiskInv /\ [RiskNext]_riskVars
        => [Buys => 100 * book'.equity > (state.top - PeakStep) * (100 - DrawPct)]_riskVars
  <2> SUFFICES ASSUME RiskInv, [RiskNext]_riskVars, Buys
               PROVE  100 * book'.equity > (state.top - PeakStep) * (100 - DrawPct)
    OBVIOUS
  <2> QED BY OnlyBarsBuy, BuyIsAboveFloor
<1> QED BY <1>1, <1>2, <1>3, PTL DEF RiskSpec, DrawdownSticks

-----------------------------------------------------------------------------
(* The replay of the fills.                                                 *)

\* g is the replay of fs up to its fill m.
Follows(g, fs, m, t, n, d) ==
  g = [i \in 0 .. m |-> IF i = 0 THEN Unsold ELSE Replay(g[i - 1], fs[i], t, n, d)]

\* The replay is chosen among the functions that follow the fills.
LEMMA ReplayIsChosen ==
  ASSUME NEW fs, NEW t, NEW n, NEW d
  PROVE  Replayed(fs, t, n, d) = (CHOOSE g : Follows(g, fs, Len(fs), t, n, d))[Len(fs)]
BY DEF Replayed, Follows

\* What a function that follows the fills is at each of them.
LEMMA FollowsAt ==
  ASSUME NEW g, NEW fs, NEW m \in Nat, NEW t, NEW n, NEW d, Follows(g, fs, m, t, n, d)
  PROVE  /\ g[0] = Unsold
         /\ \A i \in 1 .. m : g[i] = Replay(g[i - 1], fs[i], t, n, d)
<1> DEFINE h == [i \in 0 .. m |-> IF i = 0 THEN Unsold ELSE Replay(g[i - 1], fs[i], t, n, d)]
<1>1. h[0] = Unsold /\ \A i \in 1 .. m : h[i] = Replay(g[i - 1], fs[i], t, n, d)
  OBVIOUS
<1>2. g = h
  BY Zenon DEF Follows
<1> HIDE DEF h
<1> QED BY <1>1, <1>2

\* There is one, for any number of fills.
LEMMA FollowsExists ==
  ASSUME NEW fs, NEW t, NEW n, NEW d, NEW m \in Nat
  PROVE  \E g : Follows(g, fs, m, t, n, d)
<1> DEFINE P == {k \in Nat : \E g : Follows(g, fs, k, t, n, d)}
<1>1. 0 \in P
  <2> DEFINE g == [i \in 0 .. 0 |-> Unsold]
  <2>1. g = [i \in 0 .. 0 |-> IF i = 0 THEN Unsold ELSE Replay(g[i - 1], fs[i], t, n, d)]
    OBVIOUS
  <2>2. Follows(g, fs, 0, t, n, d)
    BY <2>1, Zenon DEF Follows
  <2> QED BY <2>2
<1>2. ASSUME NEW k \in Nat, k \in P PROVE k + 1 \in P
  <2>1. PICK g : Follows(g, fs, k, t, n, d)
    BY <1>2
  <2> DEFINE h == [i \in 0 .. k + 1 |-> IF i = 0 THEN Unsold ELSE Replay(g[i - 1], fs[i], t, n, d)]
  <2>2. g[0] = Unsold /\ \A i \in 1 .. k : g[i] = Replay(g[i - 1], fs[i], t, n, d)
    BY SMTT(40), <2>1, FollowsAt
  <2>3. \A i \in 0 .. k : h[i] = g[i]
    BY <2>2
  <2>4. \A i \in 1 .. k + 1 : i - 1 \in 0 .. k
    OBVIOUS
  <2>5. \A i \in 0 .. k + 1 : i # 0 => h[i - 1] = g[i - 1]
    <3> HIDE DEF h
    <3> QED BY <2>3, <2>4
  <2>6. h = [i \in 0 .. k + 1 |-> IF i = 0 THEN Unsold ELSE Replay(h[i - 1], fs[i], t, n, d)]
    <3> DEFINE e == [i \in 0 .. k + 1 |-> h[i - 1]]
    <3> QED BY <2>5, Zenon
  <2>7. Follows(h, fs, k + 1, t, n, d)
    BY <2>6, Zenon DEF Follows
  <2> QED BY <2>7
<1> HIDE DEF P
<1>3. m \in P
  BY <1>1, <1>2, NatSetInduction
<1> QED BY <1>3 DEF P

\* The replays of the same fills are the same.
LEMMA FollowsAgree ==
  ASSUME NEW g, NEW h, NEW fs, NEW gs, NEW m \in Nat, NEW l \in Nat, m <= l, NEW t, NEW n, NEW d,
         Follows(g, fs, m, t, n, d), Follows(h, gs, l, t, n, d), \A i \in 1 .. m : fs[i] = gs[i]
  PROVE  g[m] = h[m]
<1> DEFINE P == {k \in Nat : k <= m => g[k] = h[k]}
<1>1. /\ g[0] = Unsold /\ \A i \in 1 .. m : g[i] = Replay(g[i - 1], fs[i], t, n, d)
      /\ h[0] = Unsold /\ \A i \in 1 .. l : h[i] = Replay(h[i - 1], gs[i], t, n, d)
  BY SMTT(40), FollowsAt
<1>2. 0 \in P
  BY <1>1
<1>3. ASSUME NEW k \in Nat, k \in P PROVE k + 1 \in P
  <2> SUFFICES ASSUME k + 1 <= m PROVE g[k + 1] = h[k + 1]
    OBVIOUS
  <2>1. k + 1 \in 1 .. m /\ k + 1 \in 1 .. l /\ (k + 1) - 1 = k /\ g[k] = h[k]
    BY <1>3
  <2>2. g[k + 1] = Replay(g[k], fs[k + 1], t, n, d) /\ h[k + 1] = Replay(h[k], gs[k + 1], t, n, d)
    BY <1>1, <2>1
  <2> QED BY <2>1, <2>2
<1> HIDE DEF P
<1>4. m \in P
  BY <1>2, <1>3, NatSetInduction
<1> QED BY <1>4 DEF P

\* No fills leave nothing.
LEMMA ReplayOfNone ==
  ASSUME NEW t, NEW n, NEW d
  PROVE  Replayed(<<>>, t, n, d) = Unsold
<1> DEFINE g == CHOOSE x : Follows(x, <<>>, 0, t, n, d)
<1>1. Follows(g, <<>>, 0, t, n, d)
  BY FollowsExists, Zenon
<1> HIDE DEF g
<1>2. g[0] = Unsold
  BY <1>1, FollowsAt
<1>3. Len(<<>>) = 0
  OBVIOUS
<1> QED BY <1>2, <1>3, ReplayIsChosen DEF g

\* One more fill is one more step.
LEMMA ReplayOfOneMore ==
  ASSUME NEW S, NEW fs \in Seq(S), NEW f \in S, NEW t, NEW n, NEW d
  PROVE  Replayed(Append(fs, f), t, n, d) = Replay(Replayed(fs, t, n, d), f, t, n, d)
<1> DEFINE gs == Append(fs, f)
           m  == Len(fs)
           g  == CHOOSE x : Follows(x, fs, m, t, n, d)
           h  == CHOOSE x : Follows(x, gs, m + 1, t, n, d)
<1>1. /\ m \in Nat /\ m + 1 \in Nat /\ m <= m + 1 /\ Len(gs) = m + 1 /\ gs[m + 1] = f
      /\ (m + 1) - 1 = m /\ m + 1 \in 1 .. m + 1
      /\ \A i \in 1 .. m : fs[i] = gs[i]
  OBVIOUS
<1>2. Replayed(fs, t, n, d) = g[m]
  BY ReplayIsChosen
<1>3. Replayed(gs, t, n, d) = (CHOOSE x : Follows(x, gs, Len(gs), t, n, d))[Len(gs)]
  BY ReplayIsChosen
<1> HIDE DEF gs, m
<1>4. Follows(g, fs, m, t, n, d) /\ Follows(h, gs, m + 1, t, n, d)
  <2>1. (\E x : Follows(x, fs, m, t, n, d)) /\ (\E x : Follows(x, gs, m + 1, t, n, d))
    BY <1>1, FollowsExists
  <2> QED BY <2>1, Zenon
<1>5. Replayed(gs, t, n, d) = h[m + 1]
  BY <1>1, <1>3
<1> HIDE DEF g, h
<1>6. g[m] = h[m]
  BY <1>1, <1>4, FollowsAgree
<1>7. h[m + 1] = Replay(h[m], gs[m + 1], t, n, d)
  BY <1>1, <1>4, FollowsAt
<1> QED BY <1>1, <1>2, <1>5, <1>6, <1>7 DEF gs

-----------------------------------------------------------------------------
(* The day's profit.                                                        *)

Trades == [ticker : Tickers, lot : Nat, side : {"none", "BUY", "SELL"}, px : Nat, day : Nat]

\* The average counts where there are shares.
Alike(a, b) == a.qty = b.qty /\ (a.qty > 0 => a.avg = b.avg)

\* The row of a ticker's lot is the replay of the lot's fills; a lot to come has none,
\* and on a day to come nothing was realized.
TableOK ==
  /\ fills \in Seq(Trades) /\ lotNo \in [Tickers -> Nat]
  /\ \A t \in Tickers, n \in Nat, d \in Nat :
       LET r == Replayed(fills, t, n, d) IN
       /\ r.sum \in Int
       /\ n = lotNo[t] => r.lot = row[t]
       /\ n > lotNo[t] => r = Unsold
       /\ d > today => r.sum = 0

\* Shares and orders are of a lot.
LotsOK == \A t \in Tickers : lotNo[t] = 0 => row[t].qty = 0 /\ ~Busy(t)

\* A lot in memory is the row, or is when the recorded share is booked.
MemoryOK ==
  state.up => \A t \in Tickers :
    IF ord[t].seen = 0 THEN Alike(book.lot[t], row[t]) ELSE Applied(book.lot[t], FillOf(t)) = row[t]

\* Nothing is of a day to come.
DaysOK == book.date <= today /\ \A t \in Tickers : ord[t].day <= today /\ bucket[t] <= today

\* What a recorded share, not yet booked, realizes today.
Ahead(t) == IF ord[t].seen = 1 /\ ord[t].day = today THEN Gain(book.lot[t], FillOf(t)) ELSE 0
AllAhead == SumFunctionOnSet([t \in Tickers |-> Ahead(t)], Tickers)

\* The day's profit is behind the table's by the shares not yet booked.  In a book that
\* is still of an earlier day, nothing is of today.
ProfitOK ==
  state.up /\ ~state.late =>
    IF book.date = today THEN book.realized = Restored(today) - AllAhead
    ELSE \A t \in Tickers : /\ \A n \in Nat : Replayed(fills, t, n, today).sum = 0
                            /\ Busy(t) => ord[t].day < today

ProfitInv == TableOK /\ LotsOK /\ MemoryOK /\ DaysOK /\ ProfitOK

-----------------------------------------------------------------------------

\* What a share realizes is a number.
LEMMA GainIsInt ==
  ASSUME NEW l \in Accounts, NEW f, f.px \in Nat
  PROVE  Gain(l, f) \in Int
<1>1. l.avg \in Int
  BY DEF Accounts
<1> QED BY <1>1 DEF Gain

\* Accounts that are alike become the same with a share, and realize the same.
LEMMA AlikeApply ==
  ASSUME NEW a \in Accounts, NEW b \in Accounts, Alike(a, b), NEW f, f.px \in Nat,
         f.side = "BUY" \/ b.qty > 0
  PROVE  Applied(a, f) = Applied(b, f) /\ Gain(a, f) = Gain(b, f)
<1>1. /\ a.qty \in Nat /\ a.avg \in Int /\ a = [qty |-> a.qty, avg |-> a.avg]
      /\ b.qty \in Nat /\ b.avg \in Int /\ b = [qty |-> b.qty, avg |-> b.avg]
      /\ a.qty = b.qty
  BY DEF Accounts, Alike
<1>2. CASE b.qty > 0
  <2>1. a.avg = b.avg
    BY <1>1, <1>2 DEF Alike
  <2>2. a = b
    BY <1>1, <2>1
  <2> QED BY <2>2
<1>3. CASE f.side = "BUY" /\ b.qty = 0
  <2>1. a.avg * a.qty = 0 /\ b.avg * b.qty = 0
    BY <1>1, <1>3
  <2>2. Applied(a, f) = [qty |-> 0 + 1, avg |-> (0 + f.px) \div (0 + 1)]
    BY <1>1, <1>3, <2>1 DEF Applied
  <2>3. Applied(b, f) = [qty |-> 0 + 1, avg |-> (0 + f.px) \div (0 + 1)]
    BY <1>1, <1>3, <2>1 DEF Applied
  <2>4. Gain(a, f) = 0 /\ Gain(b, f) = 0
    BY <1>3 DEF Gain
  <2> QED BY <2>2, <2>3, <2>4
<1> QED BY <1>1, <1>2, <1>3

\* The sum of nothing is nothing.
LEMMA SumOfZeros ==
  ASSUME NEW f, NEW S, IsFiniteSet(S), \A x \in S : f[x] = 0
  PROVE  SumFunctionOnSet(f, S) = 0
<1>1. 0 \in {0} /\ (\A a, b \in {0} : a + b \in {0}) /\ (\A x \in S : f[x] \in {0})
  OBVIOUS
<1>2. SumFunctionOnSet(f, S) \in {0}
  BY <1>1, SumIn
<1> QED BY <1>2

\* What the lots of a ticker realized today.
OnTicker(t) == SumFunctionOnSet([n \in Lots(t) |-> Realized(t, n, today)], Lots(t))

\* The lots are numbered.
LEMMA LotsFinite ==
  ASSUME TableOK, NEW t \in Tickers
  PROVE  IsFiniteSet(Lots(t)) /\ \A n \in Lots(t) : n \in Nat /\ n <= lotNo[t]
<1>1. lotNo[t] \in Nat
  BY DEF TableOK
<1>2. IsFiniteSet(1 .. lotNo[t])
  <2>1. 1 \in Int /\ lotNo[t] \in Int
    BY <1>1
  <2> QED BY <2>1, FS_Interval
<1> QED BY <1>1, <1>2 DEF Lots

\* What was realized today is a number.
LEMMA RealizedIsInt ==
  ASSUME RiskAssumption, TypesOK, TableOK
  PROVE  /\ \A t \in Tickers, n \in Nat : Realized(t, n, today) \in Int
         /\ \A t \in Tickers : OnTicker(t) \in Int
         /\ Restored(today) \in Int
         /\ Restored(today) = SumFunctionOnSet([t \in Tickers |-> OnTicker(t)], Tickers)
<1>1. \A t \in Tickers, n \in Nat : Realized(t, n, today) \in Int
  BY DEF TypesOK, TableOK, Realized
<1>2. ASSUME NEW t \in Tickers PROVE OnTicker(t) \in Int
  <2> DEFINE f == [n \in Lots(t) |-> Realized(t, n, today)]
  <2>1. IsFiniteSet(Lots(t)) /\ \A n \in Lots(t) : f[n] \in Int
    BY <1>1, LotsFinite
  <2> HIDE DEF f
  <2>2. SumFunctionOnSet(f, Lots(t)) \in Int
    BY <2>1, SumIsInt
  <2> QED BY <2>2 DEF OnTicker, f
<1>3. Restored(today) = SumFunctionOnSet([t \in Tickers |-> OnTicker(t)], Tickers)
  BY Zenon DEF Restored, OnTicker
<1>4. SumFunctionOnSet([t \in Tickers |-> OnTicker(t)], Tickers) \in Int
  <2> DEFINE f == [t \in Tickers |-> OnTicker(t)]
  <2>1. IsFiniteSet(Tickers) /\ \A t \in Tickers : f[t] \in Int
    BY <1>2 DEF RiskAssumption
  <2> HIDE DEF f
  <2>2. SumFunctionOnSet(f, Tickers) \in Int
    BY <2>1, SumIsInt
  <2> QED BY <2>2 DEF f
<1> QED BY <1>1, <1>2, <1>3, <1>4

\* A day on which no lot realized anything has no profit.
LEMMA NothingRealized ==
  ASSUME RiskAssumption, TypesOK, TableOK,
         \A t \in Tickers, n \in Nat : Replayed(fills, t, n, today).sum = 0
  PROVE  Restored(today) = 0
<1>1. ASSUME NEW t \in Tickers PROVE OnTicker(t) = 0
  <2> DEFINE f == [n \in Lots(t) |-> Realized(t, n, today)]
  <2>1. IsFiniteSet(Lots(t)) /\ \A n \in Lots(t) : f[n] = 0
    BY LotsFinite DEF Realized
  <2> HIDE DEF f
  <2>2. SumFunctionOnSet(f, Lots(t)) = 0
    BY <2>1, SumOfZeros
  <2> QED BY <2>2 DEF OnTicker, f
<1>2. SumFunctionOnSet([t \in Tickers |-> OnTicker(t)], Tickers) = 0
  <2> DEFINE f == [t \in Tickers |-> OnTicker(t)]
  <2>1. IsFiniteSet(Tickers) /\ \A t \in Tickers : f[t] = 0
    BY <1>1 DEF RiskAssumption
  <2> HIDE DEF f
  <2>2. SumFunctionOnSet(f, Tickers) = 0
    BY <2>1, SumOfZeros
  <2> QED BY <2>2 DEF f
<1> QED BY <1>2, RealizedIsInt

\* What each ticker is ahead by is a number, nothing when no share waits.
LEMMA AheadIsInt ==
  ASSUME RiskAssumption, RiskInv
  PROVE  /\ \A t \in Tickers : Ahead(t) \in Int /\ (ord[t].seen = 0 => Ahead(t) = 0)
         /\ AllAhead \in Int
<1>1. ASSUME NEW t \in Tickers PROVE Ahead(t) \in Int /\ (ord[t].seen = 0 => Ahead(t) = 0)
  <2>1. book.lot[t] \in Accounts /\ FillOf(t).px \in Nat
    BY Ticker DEF FillOf
  <2>2. Gain(book.lot[t], FillOf(t)) \in Int
    BY <2>1, GainIsInt
  <2> QED BY <2>2 DEF Ahead
<1>2. AllAhead \in Int
  <2> DEFINE f == [t \in Tickers |-> Ahead(t)]
  <2>1. IsFiniteSet(Tickers) /\ \A t \in Tickers : f[t] \in Int
    BY <1>1 DEF RiskAssumption
  <2> HIDE DEF f
  <2>2. SumFunctionOnSet(f, Tickers) \in Int
    BY <2>1, SumIsInt
  <2> QED BY <2>2 DEF AllAhead, f
<1> QED BY <1>1, <1>2

\* No share waits: nothing is ahead.
LEMMA NoneAhead ==
  ASSUME RiskAssumption, \A t \in Tickers : Ahead(t) = 0
  PROVE  AllAhead = 0
<1> DEFINE f == [t \in Tickers |-> Ahead(t)]
<1>1. IsFiniteSet(Tickers) /\ \A t \in Tickers : f[t] = 0
  BY DEF RiskAssumption
<1> HIDE DEF f
<1>2. SumFunctionOnSet(f, Tickers) = 0
  BY <1>1, SumOfZeros
<1> QED BY <1>2 DEF AllAhead, f

\* One ticker's share changes what is ahead by as much.
LEMMA OneAhead ==
  ASSUME RiskAssumption, NEW k \in Tickers, \A t \in Tickers : Ahead(t) \in Int /\ Ahead(t)' \in Int,
         \A t \in Tickers \ {k} : Ahead(t)' = Ahead(t)
  PROVE  AllAhead' = AllAhead + (Ahead(k)' - Ahead(k))
<1> DEFINE f == [t \in Tickers |-> Ahead(t)]
           g == [t \in Tickers |-> Ahead(t)']
<1>1. /\ IsFiniteSet(Tickers) /\ (\A t \in Tickers : f[t] \in Int /\ g[t] \in Int)
      /\ \A t \in Tickers \ {k} : f[t] = g[t]
  BY DEF RiskAssumption
<1>2. f[k] = Ahead(k) /\ g[k] = Ahead(k)'
  OBVIOUS
<1>3. AllAhead = SumFunctionOnSet(f, Tickers) /\ AllAhead' = SumFunctionOnSet(g, Tickers)
  BY Zenon DEF AllAhead
<1> HIDE DEF f, g
<1>4. SumFunctionOnSet(g, Tickers) = SumFunctionOnSet(f, Tickers) + (g[k] - f[k])
  BY <1>1, SumChange
<1> QED BY <1>2, <1>3, <1>4

\* The same for every ticker: what is ahead is the same.
LEMMA SameAhead ==
  ASSUME \A t \in Tickers : Ahead(t)' = Ahead(t)
  PROVE  AllAhead' = AllAhead
<1> DEFINE f == [t \in Tickers |-> Ahead(t)]
           g == [t \in Tickers |-> Ahead(t)']
<1>1. f = g
  OBVIOUS
<1>2. AllAhead = SumFunctionOnSet(f, Tickers) /\ AllAhead' = SumFunctionOnSet(g, Tickers)
  BY Zenon DEF AllAhead
<1> HIDE DEF f, g
<1> QED BY <1>1, <1>2

-----------------------------------------------------------------------------
(* The table: one more fill, one more lot.                                  *)

\* A fill adds what it realizes to the profit of its day.
LEMMA FillRealizes ==
  ASSUME RiskAssumption, TypesOK, TableOK, TableOK', NEW k \in Tickers, lotNo[k] # 0, NEW f \in Trades,
         f.ticker = k, f.lot = lotNo[k], fills' = Append(fills, f), lotNo' = lotNo, today' = today
  PROVE  Restored(today)' = Restored(today) + (IF f.day = today THEN Gain(row[k], f) ELSE 0)
<1> DEFINE m == lotNo[k]
           x == IF f.day = today THEN Gain(row[k], f) ELSE 0
<1>1. m \in Lots(k) /\ m \in Nat /\ today \in Nat /\ today' \in Nat /\ fills \in Seq(Trades)
  BY DEF TypesOK, TableOK, Lots
<1>0. x \in Int
  <2>1. row[k] \in Accounts /\ f.px \in Nat
    BY DEF TypesOK, Trades
  <2>2. Gain(row[k], f) \in Int
    BY <2>1, GainIsInt
  <2> QED BY <2>2
<1>2. ASSUME NEW t \in Tickers, NEW n \in Nat
      PROVE  /\ Realized(t, n, today)' = Realized(t, n, today) + (IF t = k /\ n = m THEN x ELSE 0)
             /\ Realized(t, n, today) \in Int /\ Realized(t, n, today)' \in Int
  <2>1. Replayed(fills', t, n, today) = Replay(Replayed(fills, t, n, today), f, t, n, today)
    BY <1>1, ReplayOfOneMore
  <2>2. Realized(t, n, today) \in Int /\ Realized(t, n, today)' \in Int
    BY <1>1 DEF TableOK, Realized
  <2>3. Realized(t, n, today)' = Replayed(fills', t, n, today).sum /\ Realized(t, n, today) = Replayed(fills, t, n, today).sum
    BY DEF Realized
  <2>4. CASE t = k /\ n = m
    <3>1. Replayed(fills, k, m, today).lot = row[k]
      BY <1>1 DEF TableOK
    <3>2. Replayed(fills', k, m, today).sum = Replayed(fills, k, m, today).sum + x
      BY <2>1, <2>4, <3>1 DEF Replay
    <3> QED BY <2>2, <2>3, <2>4, <3>2
  <2>5. CASE ~(t = k /\ n = m)
    <3>1. Replayed(fills', t, n, today) = Replayed(fills, t, n, today)
      BY <2>1, <2>5 DEF Replay
    <3> QED BY <2>2, <2>3, <2>5, <3>1
  <2> QED BY <2>4, <2>5
<1> HIDE DEF m, x
<1>3. ASSUME NEW t \in Tickers
      PROVE  OnTicker(t)' = OnTicker(t) + (IF t = k THEN x ELSE 0)
  <2> DEFINE F == [n \in Lots(t) |-> Realized(t, n, today)]
             G == [n \in Lots(t) |-> Realized(t, n, today)']
  <2>0. Lots(t)' = Lots(t)
    BY DEF Lots
  <2>1. OnTicker(t) = SumFunctionOnSet(F, Lots(t))
    BY DEF OnTicker
  <2>2. OnTicker(t)' = SumFunctionOnSet(G, Lots(t))
    BY <2>0, Zenon DEF OnTicker
  <2>3. IsFiniteSet(Lots(t)) /\ \A n \in Lots(t) : n \in Nat
    BY LotsFinite
  <2>4. \A n \in Lots(t) : F[n] \in Int /\ G[n] \in Int /\ G[n] = F[n] + (IF t = k /\ n = m THEN x ELSE 0)
    BY <1>2, <2>3
  <2> HIDE DEF F, G
  <2>5. CASE t = k
    <3>1. m \in Lots(t) /\ (\A n \in Lots(t) \ {m} : F[n] = G[n]) /\ G[m] = F[m] + x
      BY <1>1, <2>4, <2>5
    <3>2. SumFunctionOnSet(G, Lots(t)) = SumFunctionOnSet(F, Lots(t)) + (G[m] - F[m])
      <4>1. IsFiniteSet(Lots(t)) /\ \A n \in Lots(t) : F[n] \in Int /\ G[n] \in Int
        BY <2>3, <2>4
      <4>2. m \in Lots(t) /\ \A n \in Lots(t) \ {m} : F[n] = G[n]
        BY <3>1
      <4> QED BY <4>1, <4>2, SumChange
    <3>3. F[m] \in Int /\ G[m] \in Int /\ G[m] - F[m] = x
      <4>1. F[m] \in Int /\ G[m] \in Int /\ G[m] = F[m] + x
        BY <2>4, <3>1
      <4> QED BY <1>0, <4>1
    <3> QED BY <2>1, <2>2, <2>5, <3>2, <3>3
  <2>6. CASE t # k
    <3>1. \A n \in Lots(t) : F[n] = G[n]
      BY <2>4, <2>6
    <3>2. SumFunctionOnSet(G, Lots(t)) = SumFunctionOnSet(F, Lots(t))
      BY <2>3, <3>1, SumSame
    <3>3. OnTicker(t) \in Int
      BY RealizedIsInt
    <3> QED BY <2>1, <2>2, <2>6, <3>2, <3>3
  <2> QED BY <2>5, <2>6
<1> DEFINE F == [t \in Tickers |-> OnTicker(t)]
           G == [t \in Tickers |-> OnTicker(t)']
<1>4. \A t \in Tickers : OnTicker(t) \in Int
  BY RealizedIsInt
<1>5. /\ IsFiniteSet(Tickers)
      /\ \A t \in Tickers : F[t] \in Int /\ G[t] \in Int /\ (t # k => F[t] = G[t])
      /\ G[k] - F[k] = x
  BY <1>0, <1>3, <1>4 DEF RiskAssumption
<1>6. Restored(today) = SumFunctionOnSet(F, Tickers) /\ Restored(today)' = SumFunctionOnSet(G, Tickers)
  BY Zenon DEF Restored, OnTicker
<1> HIDE DEF F, G
<1>7. SumFunctionOnSet(G, Tickers) = SumFunctionOnSet(F, Tickers) + (G[k] - F[k])
  <2>1. (\A t \in Tickers : F[t] \in Int /\ G[t] \in Int) /\ \A t \in Tickers \ {k} : F[t] = G[t]
    BY <1>5
  <2> QED BY <1>5, <2>1, SumChange
<1> QED BY <1>5, <1>6, <1>7 DEF x

\* A lot that opens realized nothing yet.
LEMMA NewLotRealizes ==
  ASSUME RiskAssumption, TypesOK, TableOK, NEW k \in Tickers,
         lotNo' = [lotNo EXCEPT ![k] = @ + 1], fills' = fills, today' = today
  PROVE  Restored(today)' = Restored(today)
<1>1. /\ today \in Nat /\ lotNo \in [Tickers -> Nat] /\ lotNo[k] + 1 \in Nat /\ lotNo[k] + 1 > lotNo[k]
      /\ lotNo'[k] = lotNo[k] + 1
  BY DEF TypesOK, TableOK
<1>2. \A t \in Tickers, n \in Nat : Realized(t, n, today)' = Realized(t, n, today) /\ Realized(t, n, today) \in Int
  BY RealizedIsInt DEF Realized
<1>3. ASSUME NEW t \in Tickers PROVE OnTicker(t)' = OnTicker(t)
  <2> DEFINE F == [n \in Lots(t) |-> Realized(t, n, today)]
             G == [n \in Lots(t)' |-> Realized(t, n, today)']
  <2>1. OnTicker(t) = SumFunctionOnSet(F, Lots(t)) /\ OnTicker(t)' = SumFunctionOnSet(G, Lots(t)')
    BY Zenon DEF OnTicker
  <2>2. IsFiniteSet(Lots(t)) /\ \A n \in Lots(t) : n \in Nat /\ n <= lotNo[t]
    BY LotsFinite
  <2>3. CASE t # k
    <3>1. Lots(t)' = Lots(t)
      BY <1>1, <2>3 DEF Lots
    <3>2. F = G
      BY <1>2, <2>2, <3>1
    <3> QED BY <2>1, <3>1, <3>2
  <2>4. CASE t = k
    <3> DEFINE e == lotNo[k] + 1
    <3>1. Lots(k)' = Lots(k) \cup {e} /\ e \notin Lots(k)
      <4>1. 1 .. e = (1 .. lotNo[k]) \cup {e} /\ e \notin 1 .. lotNo[k]
        BY <1>1
      <4> QED BY <1>1, <4>1 DEF Lots
    <3>2. G[e] = 0
      <4>1. Realized(k, e, today) = 0
        BY <1>1 DEF TableOK, Realized, Unsold
      <4> QED BY <1>1, <1>2, <2>4, <3>1, <4>1
    <3>3. (\A n \in Lots(k) \cup {e} : G[n] \in Int) /\ \A n \in Lots(k) : F[n] = G[n] /\ F[n] \in Int
      BY <1>1, <1>2, <2>2, <2>4, <3>1, <3>2
    <3> HIDE DEF e, F, G
    <3>4. SumFunctionOnSet(G, Lots(k) \cup {e}) = G[e] + SumFunctionOnSet(G, Lots(k))
      BY <2>2, <2>4, <3>1, <3>3, SumAdd
    <3>5. SumFunctionOnSet(G, Lots(k)) = SumFunctionOnSet(F, Lots(k))
      BY <2>2, <2>4, <3>3, SumSame
    <3>6. OnTicker(k) \in Int
      BY RealizedIsInt
    <3> QED BY <2>1, <2>4, <3>1, <3>2, <3>4, <3>5, <3>6
  <2> QED BY <2>3, <2>4
<1>4. [t \in Tickers |-> OnTicker(t)'] = [t \in Tickers |-> OnTicker(t)]
  BY <1>3
<1>5. Restored(today)' = SumFunctionOnSet([t \in Tickers |-> OnTicker(t)'], Tickers)
  BY Zenon DEF Restored, OnTicker
<1> QED BY <1>4, <1>5, RealizedIsInt

-----------------------------------------------------------------------------
(* The actions and the profit.                                              *)

\* The table is of the fills, the rows and the day.
LEMMA SameTable ==
  ASSUME TableOK, UNCHANGED <<today, fills, row, lotNo>>
  PROVE  TableOK'
BY ZenonT(60) DEF TableOK

\* Trading at the broker and ticks tell the book and the table nothing.
LEMMA QuietProfits ==
  ASSUME RiskAssumption, ProfitInv, UNCHANGED <<today, fills, row, lotNo, book, state>>,
         \A t \in Tickers : /\ bucket'[t] <= today
                            /\ ord'[t].side = ord[t].side /\ ord'[t].px = ord[t].px
                            /\ ord'[t].day = ord[t].day /\ ord'[t].seen = ord[t].seen
                            /\ Busy(t)' <=> Busy(t)
  PROVE  ProfitInv'
<1>1. \A t \in Tickers : FillOf(t)' = FillOf(t)
  BY DEF FillOf
<1>2. \A t \in Tickers : Ahead(t)' = Ahead(t)
  BY <1>1, Zenon DEF Ahead
<1>3. AllAhead' = AllAhead
  BY <1>2, SameAhead
<1>4. TableOK'
  BY SameTable DEF ProfitInv
<1>5. LotsOK' /\ DaysOK'
  BY DEF ProfitInv, LotsOK, DaysOK
<1>6. MemoryOK'
  BY <1>1, ZenonT(60) DEF ProfitInv, MemoryOK
<1>7. ProfitOK'
  <2>1. Restored(today)' = Restored(today)
    BY Zenon DEF Restored, Realized, Lots
  <2>2. CASE book.date = today
    BY <1>3, <2>1, <2>2 DEF ProfitInv, ProfitOK
  <2>3. CASE book.date # today
    BY <2>3 DEF ProfitInv, ProfitOK
  <2> QED BY <2>2, <2>3
<1> QED BY <1>4, <1>5, <1>6, <1>7 DEF ProfitInv

\* The first tick.
LEMMA FirstTickProfits ==
  ASSUME RiskAssumption, RiskInv, ProfitInv, NEW k \in Tickers, FirstTick(k)
  PROVE  ProfitInv'
<1>1. today \in Nat /\ bucket \in [Tickers -> Nat] /\ \A t \in Tickers : bucket[t] <= today
  BY DEF RiskInv, TypesOK, ProfitInv, DaysOK
<1>2. bucket' = [bucket EXCEPT ![k] = today] /\ UNCHANGED <<today, fills, row, lotNo, book, state, ord>>
  BY DEF FirstTick
<1>3. \A t \in Tickers : bucket'[t] <= today
  BY <1>1, <1>2
<1>4. \A t \in Tickers : Busy(t)' <=> Busy(t)
  BY <1>2 DEF Busy
<1> QED BY <1>2, <1>3, <1>4, QuietProfits

\* A share trades.
LEMMA ExecuteProfits ==
  ASSUME RiskAssumption, RiskInv, ProfitInv, NEW k \in Tickers, Execute(k)
  PROVE  ProfitInv'
<1>1. UNCHANGED <<today, fills, row, lotNo, book, state, bucket>>
  BY DEF Execute
<1>2. ASSUME NEW t \in Tickers
      PROVE  /\ ord'[t].side = ord[t].side /\ ord'[t].px = ord[t].px
             /\ ord'[t].day = ord[t].day /\ ord'[t].seen = ord[t].seen
             /\ Busy(t)' <=> Busy(t)
  <2>1. ord[t].live \in Nat /\ ord[t].done \in Nat /\ ord[t].seen \in {0, 1}
    BY Ticker
  <2>2. CASE t # k
    BY <2>2, OrdTraded DEF Busy
  <2>3. CASE t = k
    BY <2>1, <2>3, OrdTraded DEF Busy
  <2> QED BY <2>2, <2>3
<1>3. \A t \in Tickers : bucket'[t] <= today
  BY <1>1 DEF ProfitInv, DaysOK
<1> QED BY <1>1, <1>2, <1>3, QuietProfits

\* What a share is when it is recorded: of the ticker's lot, not of a day to come, and
\* the same to the book and to the table.
LEMMA ShareIsKnown ==
  ASSUME RiskAssumption, RiskInv, ProfitInv, NEW k \in Tickers, Record(k)
  PROVE  /\ FillOf(k) \in Trades /\ FillOf(k).day <= today /\ lotNo[k] # 0 /\ Busy(k)
         /\ Applied(book.lot[k], FillOf(k)) = Applied(row[k], FillOf(k))
         /\ Gain(book.lot[k], FillOf(k)) = Gain(row[k], FillOf(k))
<1>1. state.up /\ ord[k].done > 0 /\ ord[k].seen = 0
  BY DEF Record
<1>2. /\ row[k] \in Accounts /\ book.lot[k] \in Accounts /\ row[k].qty \in Nat /\ ord[k].px \in Nat
      /\ ord[k].day \in Nat /\ ord[k].side \in {"none", "BUY", "SELL"}
      /\ ord[k].live \in Nat /\ ord[k].done \in Nat
  BY Ticker
<1>3. lotNo[k] \in Nat /\ ord[k].day <= today /\ Alike(book.lot[k], row[k])
  BY <1>1 DEF ProfitInv, TableOK, DaysOK, MemoryOK
<1>4. Busy(k)
  BY <1>1, <1>2 DEF Busy
<1>5. lotNo[k] # 0
  BY <1>4 DEF ProfitInv, LotsOK
<1>6. ord[k].side = "BUY" \/ row[k].qty > 0
  <2>1. ord[k].side # "none"
    BY <1>4 DEF RiskInv, OrdersOK
  <2>2. ord[k].side = "SELL" => ord[k].live + ord[k].done <= row[k].qty
    BY DEF RiskInv, OrdersOK
  <2> QED BY <1>1, <1>2, <2>1, <2>2
<1>7. /\ FillOf(k) \in Trades /\ FillOf(k).day = ord[k].day /\ FillOf(k).side = ord[k].side
      /\ FillOf(k).px \in Nat
  BY <1>2, <1>3 DEF FillOf, Trades
<1>8. /\ Applied(book.lot[k], FillOf(k)) = Applied(row[k], FillOf(k))
      /\ Gain(book.lot[k], FillOf(k)) = Gain(row[k], FillOf(k))
  BY <1>2, <1>3, <1>6, <1>7, AlikeApply
<1> QED BY <1>3, <1>4, <1>5, <1>7, <1>8

\* A share reaches the table: the profit of its day is ahead of the book by what it
\* realizes.
LEMMA RecordProfits ==
  ASSUME RiskAssumption, RiskInv, RiskInv', ProfitInv, NEW k \in Tickers, Record(k)
  PROVE  ProfitInv'
<1> DEFINE f == FillOf(k)
           m == lotNo[k]
           x == IF f.day = today THEN Gain(row[k], f) ELSE 0
<1>0. /\ state.up /\ ord[k].seen = 0
      /\ fills' = Append(fills, f) /\ row' = [row EXCEPT ![k] = Applied(@, f)]
      /\ UNCHANGED <<today, price, bucket, account, lotNo, audit, book, halted, state>>
  BY DEF Record
<1>1. /\ f \in Trades /\ f.day <= today /\ m # 0 /\ Busy(k)
      /\ Applied(book.lot[k], f) = Applied(row[k], f) /\ Gain(book.lot[k], f) = Gain(row[k], f)
  BY ShareIsKnown
<1>2. f.ticker = k /\ f.lot = m /\ f.day = ord[k].day
  BY DEF FillOf
<1>3. /\ \A t \in Tickers \ {k} : ord'[t] = ord[t]
      /\ ord'[k].side = ord[k].side /\ ord'[k].px = ord[k].px /\ ord'[k].day = ord[k].day
      /\ ord'[k].seen = 1
  BY OrdRecorded
<1>4. \A t \in Tickers : FillOf(t)' = FillOf(t)
  BY <1>0, <1>3 DEF FillOf
<1>5. /\ row \in [Tickers -> Accounts] /\ row'[k] = Applied(row[k], f)
      /\ \A t \in Tickers \ {k} : row'[t] = row[t]
  BY <1>0 DEF RiskInv, TypesOK
<1>6. fills \in Seq(Trades) /\ fills' \in Seq(Trades) /\ m \in Nat /\ today \in Nat
  BY <1>0, <1>1 DEF ProfitInv, TableOK, RiskInv, TypesOK
<1>7. \A t, n, d : Replayed(fills', t, n, d) = Replay(Replayed(fills, t, n, d), f, t, n, d)
  BY <1>0, <1>1, <1>6, ReplayOfOneMore
<1>8. row[k] \in Accounts /\ Gain(row[k], f) \in Int /\ f.day \in Nat
  <2>1. f.px \in Nat /\ f.day \in Nat
    BY <1>1 DEF Trades
  <2> QED BY <1>5, <2>1, GainIsInt
<1> HIDE DEF f, m
<1>9. TableOK'
  <2>1. ASSUME NEW t \in Tickers, NEW n \in Nat, NEW d \in Nat
        PROVE  LET r == Replayed(fills', t, n, d) IN
               /\ r.sum \in Int /\ (n = lotNo'[t] => r.lot = row'[t])
               /\ (n > lotNo'[t] => r = Unsold) /\ (d > today' => r.sum = 0)
    <3> DEFINE q == Replayed(fills, t, n, d)
               r == Replayed(fills', t, n, d)
    <3>1. /\ q.sum \in Int /\ (n = lotNo[t] => q.lot = row[t])
          /\ (n > lotNo[t] => q = Unsold) /\ (d > today => q.sum = 0)
      BY DEF ProfitInv, TableOK
    <3>2. r = Replay(q, f, t, n, d)
      BY <1>7
    <3> HIDE DEF q, r
    <3>3. CASE t = k /\ n = m
      <4>1. r = [lot |-> Applied(q.lot, f), sum |-> q.sum + IF f.day = d THEN Gain(q.lot, f) ELSE 0]
        BY <1>2, <3>2, <3>3 DEF Replay
      <4>2. q.lot = row[k]
        BY <3>1, <3>3 DEF m
      <4>3. r.lot = Applied(row[k], f) /\ r.sum = q.sum + IF f.day = d THEN Gain(row[k], f) ELSE 0
        BY <4>1, <4>2
      <4>4. r.sum \in Int
        BY <1>8, <3>1, <4>3
      <4>5. d > today => r.sum = 0
        BY <1>1, <1>6, <1>8, <3>1, <4>3
      <4>6. n = lotNo[t]
        BY <3>3 DEF m
      <4>7. ~(n > lotNo[t])
        BY <4>6
      <4> QED BY <1>0, <1>5, <3>3, <4>3, <4>4, <4>5, <4>7 DEF r
    <3>4. CASE ~(t = k /\ n = m)
      <4>1. r = q
        BY <1>2, <3>2, <3>4 DEF Replay
      <4>2. n = lotNo[t] => row'[t] = row[t]
        BY <1>5, <3>4 DEF m
      <4> QED BY <1>0, <3>1, <4>1, <4>2 DEF r
    <3> QED BY <3>3, <3>4
  <2>2. lotNo' \in [Tickers -> Nat]
    BY <1>0 DEF ProfitInv, TableOK
  <2> QED BY <1>6, <2>1, <2>2 DEF TableOK
<1>10. LotsOK'
  <2> SUFFICES ASSUME NEW t \in Tickers, lotNo'[t] = 0 PROVE row'[t].qty = 0 /\ ~Busy(t)'
    BY DEF LotsOK
  <2>1. t # k /\ lotNo[t] = 0
    BY <1>0, <1>1 DEF m
  <2> QED BY <1>3, <1>5, <2>1 DEF ProfitInv, LotsOK, Busy
<1>11. MemoryOK'
  <2> SUFFICES ASSUME NEW t \in Tickers
               PROVE  IF ord'[t].seen = 0 THEN Alike(book'.lot[t], row'[t])
                      ELSE Applied(book'.lot[t], FillOf(t)') = row'[t]
    BY Zenon DEF MemoryOK
  <2>1. CASE t = k
    BY <1>0, <1>1, <1>3, <1>4, <1>5, <2>1 DEF f
  <2>2. CASE t # k
    BY <1>0, <1>3, <1>4, <1>5, <2>2 DEF ProfitInv, MemoryOK
  <2> QED BY <2>1, <2>2
<1>12. DaysOK'
  BY <1>0, <1>3 DEF ProfitInv, DaysOK
<1>13. ProfitOK'
  <2> SUFFICES ASSUME ~state.late
               PROVE  IF book.date = today THEN book.realized = Restored(today)' - AllAhead'
                      ELSE \A t \in Tickers : /\ \A n \in Nat : Replayed(fills', t, n, today).sum = 0
                                              /\ Busy(t)' => ord'[t].day < today
    BY <1>0 DEF ProfitOK
  <2>1. CASE book.date = today
    <3>1. book.realized = Restored(today) - AllAhead
      BY <1>0, <2>1 DEF ProfitInv, ProfitOK
    <3>2. Restored(today)' = Restored(today) + x
      <4>1. f.ticker = k /\ f.lot = lotNo[k] /\ lotNo[k] # 0 /\ f \in Trades
        BY <1>1, <1>2 DEF m
      <4>2. TypesOK /\ TableOK
        BY DEF RiskInv, ProfitInv
      <4> QED BY <1>0, <1>9, <4>1, <4>2, FillRealizes
    <3>3. Ahead(k) = 0 /\ Ahead(k)' = x
      BY <1>0, <1>1, <1>2, <1>3, <1>4 DEF Ahead, f
    <3>4. \A t \in Tickers \ {k} : Ahead(t)' = Ahead(t)
      BY <1>0, <1>3, <1>4 DEF Ahead
    <3>5. x \in Int
      BY <1>8
    <3>6. AllAhead' = AllAhead + (Ahead(k)' - Ahead(k))
      <4>1. \A t \in Tickers : Ahead(t) \in Int
        BY AheadIsInt
      <4>2. \A t \in Tickers : Ahead(t)' \in Int
        BY <3>3, <3>4, <3>5, <4>1
      <4> QED BY <3>4, <4>1, <4>2, OneAhead
    <3>7. Restored(today) \in Int /\ AllAhead \in Int
      BY RealizedIsInt, AheadIsInt DEF RiskInv, ProfitInv
    <3> HIDE DEF x
    <3> QED BY <2>1, <3>1, <3>2, <3>3, <3>5, <3>6, <3>7
  <2>2. CASE book.date # today
    <3>1. \A t \in Tickers : /\ \A n \in Nat : Replayed(fills, t, n, today).sum = 0
                             /\ Busy(t) => ord[t].day < today
      BY <1>0, <2>2 DEF ProfitInv, ProfitOK
    <3>2. f.day # today
      BY <1>1, <1>2, <1>6, <1>8, <3>1
    <3>3. ASSUME NEW t \in Tickers, NEW n \in Nat PROVE Replayed(fills', t, n, today).sum = 0
      <4> DEFINE q == Replayed(fills, t, n, today)
      <4>1. q.sum = 0
        BY <3>1
      <4>2. Replayed(fills', t, n, today) = Replay(q, f, t, n, today)
        BY <1>7
      <4> HIDE DEF q
      <4>3. Replay(q, f, t, n, today).sum = 0
        BY <3>2, <4>1 DEF Replay
      <4> QED BY <4>2, <4>3
    <3>4. ASSUME NEW t \in Tickers, Busy(t)' PROVE ord'[t].day < today
      <4>1. CASE t = k
        BY <1>1, <1>3, <3>1, <4>1
      <4>2. CASE t # k
        BY <1>3, <3>1, <3>4, <4>2 DEF Busy
      <4> QED BY <4>1, <4>2
    <3> QED BY <2>2, <3>3, <3>4
  <2> QED BY <2>1, <2>2
<1> QED BY <1>9, <1>10, <1>11, <1>12, <1>13 DEF ProfitInv

\* What booking a share does to the book.
LEMMA BookBooked ==
  ASSUME RiskInv, NEW k \in Tickers, Booked(k)
  PROVE  /\ book'.lot[k] = Applied(book.lot[k], FillOf(k))
         /\ \A t \in Tickers \ {k} : book'.lot[t] = book.lot[t]
         /\ book'.date = book.date
         /\ book'.realized = IF book.date = 0 \/ FillOf(k).day >= book.date
                             THEN book.realized + Gain(book.lot[k], FillOf(k)) ELSE book.realized
<1> DEFINE f == FillOf(k)
           l == Applied(book.lot[k], f)
           cash == IF book.cash = NoCash THEN book.cash
                   ELSE book.cash + (IF f.side = "BUY" THEN -f.px ELSE f.px)
           profit == IF book.date = 0 \/ f.day >= book.date THEN book.realized + Gain(book.lot[k], f)
                     ELSE book.realized
           left == book.left[k] - 1
<1>1. book' = [book EXCEPT !.lot[k] = l, !.left[k] = left, !.cash = cash, !.realized = profit]
  BY Zenon DEF Booked
<1>2. book \in Books(book.realized)
  BY DEF RiskInv, TypesOK
<1> HIDE DEF f, l, cash, profit, left
<1>3. book'.lot = [book.lot EXCEPT ![k] = l] /\ book'.date = book.date /\ book'.realized = profit
  BY <1>1, <1>2 DEF Books
<1>4. book.lot \in [Tickers -> Accounts]
  BY Ticker
<1>5. book'.lot[k] = l /\ \A t \in Tickers \ {k} : book'.lot[t] = book.lot[t]
  BY <1>3, <1>4
<1> QED BY <1>3, <1>5 DEF f, l, profit

\* The recorded share reaches the book: it is not ahead any more.
LEMMA BookedProfits ==
  ASSUME RiskAssumption, RiskInv, ProfitInv, NEW k \in Tickers, Booked(k)
  PROVE  ProfitInv'
<1> DEFINE f == FillOf(k)
           x == IF f.day = today THEN Gain(book.lot[k], f) ELSE 0
<1>0. /\ state.up /\ ord[k].seen = 1
      /\ UNCHANGED <<today, price, bucket, account, fills, row, lotNo, audit, halted, state>>
  BY DEF Booked
<1>1. /\ \A t \in Tickers \ {k} : ord'[t] = ord[t]
      /\ ord'[k].side = ord[k].side /\ ord'[k].px = ord[k].px /\ ord'[k].day = ord[k].day
      /\ ord'[k].live = ord[k].live /\ ord'[k].done = ord[k].done /\ ord'[k].seen = 0
  BY OrdBooked
<1>2. /\ book'.lot[k] = Applied(book.lot[k], f) /\ book'.date = book.date
      /\ \A t \in Tickers \ {k} : book'.lot[t] = book.lot[t]
      /\ book'.realized = IF book.date = 0 \/ f.day >= book.date
                          THEN book.realized + Gain(book.lot[k], f) ELSE book.realized
  BY BookBooked
<1>3. \A t \in Tickers : FillOf(t)' = FillOf(t)
  BY <1>0, <1>1 DEF FillOf
<1>4. f.day = ord[k].day /\ f.day \in Nat /\ f.day <= today /\ today \in Nat /\ Gain(book.lot[k], f) \in Int
  <2>1. f.day = ord[k].day /\ f.px \in Nat /\ f.day \in Nat /\ book.lot[k] \in Accounts
    BY Ticker DEF FillOf
  <2>2. Gain(book.lot[k], f) \in Int
    BY <2>1, GainIsInt
  <2> QED BY <2>1, <2>2 DEF RiskInv, TypesOK, ProfitInv, DaysOK
<1>5. \A t \in Tickers : Busy(t)' => Busy(t)
  <2> TAKE t \in Tickers
  <2>1. ord[t].live \in Nat /\ ord[t].done \in Nat /\ ord[t].seen \in {0, 1}
    BY Ticker
  <2>2. CASE t = k
    BY <1>0, <1>1, <2>1, <2>2 DEF Busy
  <2>3. CASE t # k
    BY <1>1, <2>3 DEF Busy
  <2> QED BY <2>2, <2>3
<1> HIDE DEF f
<1>6. TableOK'
  BY <1>0, SameTable DEF ProfitInv
<1>7. LotsOK'
  BY <1>0, <1>5 DEF ProfitInv, LotsOK
<1>8. MemoryOK'
  <2> SUFFICES ASSUME NEW t \in Tickers
               PROVE  IF ord'[t].seen = 0 THEN Alike(book'.lot[t], row'[t])
                      ELSE Applied(book'.lot[t], FillOf(t)') = row'[t]
    BY Zenon DEF MemoryOK
  <2>1. CASE t = k
    <3>1. Applied(book.lot[k], f) = row[k]
      BY <1>0 DEF ProfitInv, MemoryOK, f
    <3> QED BY <1>0, <1>1, <1>2, <2>1, <3>1 DEF Alike
  <2>2. CASE t # k
    BY <1>0, <1>1, <1>2, <1>3, <2>2 DEF ProfitInv, MemoryOK
  <2> QED BY <2>1, <2>2
<1>9. DaysOK'
  BY <1>0, <1>1, <1>2 DEF ProfitInv, DaysOK
<1>10. ProfitOK'
  <2> SUFFICES ASSUME ~state.late
               PROVE  IF book'.date = today THEN book'.realized = Restored(today)' - AllAhead'
                      ELSE \A t \in Tickers : /\ \A n \in Nat : Replayed(fills', t, n, today).sum = 0
                                              /\ Busy(t)' => ord'[t].day < today
    BY <1>0 DEF ProfitOK
  <2>1. CASE book.date = today
    <3>1. book.realized = Restored(today) - AllAhead
      BY <1>0, <2>1 DEF ProfitInv, ProfitOK
    <3>2. Restored(today)' = Restored(today)
      BY <1>0, Zenon DEF Restored, Realized, Lots
    <3>3. Ahead(k) = x /\ Ahead(k)' = 0
      BY <1>0, <1>1, <1>4 DEF Ahead, f
    <3>4. \A t \in Tickers \ {k} : Ahead(t)' = Ahead(t)
      BY <1>0, <1>1, <1>2, <1>3 DEF Ahead
    <3>5. x \in Int
      BY <1>4
    <3>6. AllAhead' = AllAhead + (Ahead(k)' - Ahead(k))
      <4>1. \A t \in Tickers : Ahead(t) \in Int
        BY AheadIsInt
      <4>2. \A t \in Tickers : Ahead(t)' \in Int
        BY <3>3, <3>4, <4>1
      <4> QED BY <3>4, <4>1, <4>2, OneAhead
    <3>7. Restored(today) \in Int /\ AllAhead \in Int
      BY RealizedIsInt, AheadIsInt DEF RiskInv, ProfitInv
    <3>8. book'.realized = book.realized + x
      BY <1>2, <1>4, <2>1, <3>1, <3>7
    <3> HIDE DEF x
    <3> QED BY <1>2, <2>1, <3>1, <3>2, <3>3, <3>5, <3>6, <3>7, <3>8
  <2>2. CASE book.date # today
    <3>1. \A t \in Tickers : /\ \A n \in Nat : Replayed(fills, t, n, today).sum = 0
                             /\ Busy(t) => ord[t].day < today
      BY <1>0, <2>2 DEF ProfitInv, ProfitOK
    <3>2. \A t \in Tickers : ord'[t].day = ord[t].day
      BY <1>1
    <3> QED BY <1>0, <1>2, <1>5, <2>2, <3>1, <3>2
  <2> QED BY <2>1, <2>2
<1> QED BY <1>6, <1>7, <1>8, <1>9, <1>10 DEF ProfitInv

\* A new day has no profit yet.
LEMMA NightProfits ==
  ASSUME RiskAssumption, RiskInv, ProfitInv, Night
  PROVE  ProfitInv'
<1>0. /\ today' = today + 1 /\ today \in Nat
      /\ book' = [book EXCEPT !.left = [t \in Tickers |-> ord[t].done + ord[t].seen]]
      /\ UNCHANGED <<price, bucket, account, fills, row, lotNo, audit, halted, state>>
  BY DEF Night, RiskInv, TypesOK
<1>1. ASSUME NEW t \in Tickers
      PROVE  /\ ord'[t].side = ord[t].side /\ ord'[t].px = ord[t].px /\ ord'[t].day = ord[t].day
             /\ ord'[t].seen = ord[t].seen /\ (Busy(t)' => Busy(t))
  <2>1. ord[t].live \in Nat /\ ord[t].done \in Nat /\ ord[t].seen \in {0, 1}
    BY Ticker
  <2> QED BY <2>1, OrdEnded DEF Busy
<1>2. book'.lot = book.lot /\ book'.date = book.date /\ book.date \in Nat
  BY <1>0 DEF RiskInv, TypesOK, Books
<1>3. \A t \in Tickers : FillOf(t)' = FillOf(t)
  BY <1>0, <1>1 DEF FillOf
<1>4. TableOK'
  <2>1. \A d \in Nat : d > today + 1 => d > today
    BY <1>0
  <2> QED BY <1>0, <2>1 DEF ProfitInv, TableOK
<1>5. LotsOK'
  BY <1>0, <1>1 DEF ProfitInv, LotsOK
<1>6. MemoryOK'
  BY <1>0, <1>1, <1>2, <1>3, ZenonT(60) DEF ProfitInv, MemoryOK
<1>7. /\ book.date < today + 1
      /\ \A t \in Tickers : ord[t].day < today + 1 /\ bucket[t] <= today + 1 /\ ord[t].day <= today + 1
  <2>1. book.date <= today
    BY DEF ProfitInv, DaysOK
  <2>2. ASSUME NEW t \in Tickers PROVE ord[t].day <= today /\ bucket[t] <= today /\ ord[t].day \in Nat /\ bucket[t] \in Nat
    BY Ticker DEF RiskInv, TypesOK, ProfitInv, DaysOK
  <2>3. ASSUME NEW t \in Tickers PROVE ord[t].day < today + 1 /\ bucket[t] <= today + 1 /\ ord[t].day <= today + 1
    BY <1>0, <2>2
  <2> QED BY <1>0, <1>2, <2>1, <2>3
<1>8. DaysOK'
  BY <1>0, <1>1, <1>2, <1>7 DEF DaysOK
<1>9. ProfitOK'
  <2>1. book'.date # today'
    BY <1>0, <1>2, <1>7
  <2>2. \A t \in Tickers, n \in Nat : Replayed(fills', t, n, today').sum = 0
    <3>1. today + 1 \in Nat /\ today + 1 > today
      BY <1>0
    <3> QED BY <1>0, <3>1 DEF ProfitInv, TableOK
  <2>3. \A t \in Tickers : ord'[t].day < today'
    BY <1>0, <1>1, <1>7
  <2> QED BY <2>1, <2>2, <2>3 DEF ProfitOK
<1> QED BY <1>4, <1>5, <1>6, <1>8, <1>9 DEF ProfitInv

\* The process goes down: the table is there.
LEMMA DownProfits ==
  ASSUME RiskAssumption, RiskInv, ProfitInv, Down
  PROVE  ProfitInv'
<1>0. /\ book' = NoBook /\ bucket' = [t \in Tickers |-> 0] /\ ~state'.up
      /\ ord' = [t \in Tickers |-> [ord[t] EXCEPT !.seen = 0]]
      /\ UNCHANGED <<today, account, fills, row, lotNo, audit, halted>>
  BY DEF Down, RiskInv, TypesOK, Runs
<1>1. ASSUME NEW t \in Tickers
      PROVE  ord'[t].day = ord[t].day /\ (Busy(t)' => Busy(t))
  <2>1. ord[t] \in Ords /\ ord[t].live \in Nat /\ ord[t].done \in Nat /\ ord[t].seen \in {0, 1}
    BY Ticker
  <2>2. ord'[t] = With(ord[t], ord[t].live, ord[t].done, 0)
    BY <1>0, <2>1, IsBooked
  <2>3. ord'[t].live = ord[t].live /\ ord'[t].done = ord[t].done /\ ord'[t].seen = 0 /\ ord'[t].day = ord[t].day
    BY <2>1, <2>2, WithTyped
  <2> QED BY <2>1, <2>3 DEF Busy
<1>2. TableOK'
  BY <1>0, SameTable DEF ProfitInv
<1>3. LotsOK'
  BY <1>0, <1>1 DEF ProfitInv, LotsOK
<1>4. DaysOK'
  <2>1. book'.date = 0 /\ today \in Nat
    BY <1>0 DEF NoBook, RiskInv, TypesOK
  <2>2. \A t \in Tickers : bucket'[t] = 0 /\ ord'[t].day <= today
    BY <1>0, <1>1 DEF ProfitInv, DaysOK
  <2> QED BY <1>0, <2>1, <2>2 DEF DaysOK
<1>5. MemoryOK' /\ ProfitOK'
  BY <1>0 DEF MemoryOK, ProfitOK
<1> QED BY <1>2, <1>3, <1>4, <1>5 DEF ProfitInv

\* A restart takes the lots and the day's profit from the tables.
LEMMA HydrateProfits ==
  ASSUME RiskAssumption, RiskInv, RiskInv', ProfitInv, Hydrate
  PROVE  ProfitInv'
<1>0. /\ ~state.up /\ UNCHANGED <<today, bucket, ord, account, fills, row, lotNo, audit, halted>>
      /\ book' = [NoBook EXCEPT !.lot = row, !.left = [t \in Tickers |-> Owed(t)],
                                !.date = today, !.realized = Restored(today), !.peak = audit]
  BY DEF Hydrate
<1>1. book'.lot = row /\ book'.date = today /\ book'.realized = Restored(today)
  BY <1>0 DEF NoBook
<1>2. \A t \in Tickers : ord'[t].seen = 0
  BY <1>0 DEF RiskInv, BookedOK
<1>3. TableOK' /\ LotsOK'
  BY <1>0, SameTable DEF ProfitInv, LotsOK, Busy
<1>4. MemoryOK'
  BY <1>0, <1>1, <1>2 DEF MemoryOK, Alike
<1>5. DaysOK'
  BY <1>0, <1>1 DEF ProfitInv, DaysOK, RiskInv, TypesOK
<1>6. ProfitOK'
  <2>1. AllAhead' = 0
    <3> DEFINE g == [t \in Tickers |-> Ahead(t)']
    <3>1. IsFiniteSet(Tickers) /\ \A t \in Tickers : g[t] = 0
      BY <1>2 DEF Ahead, RiskAssumption
    <3>2. AllAhead' = SumFunctionOnSet(g, Tickers)
      BY Zenon DEF AllAhead
    <3> HIDE DEF g
    <3> QED BY <3>1, <3>2, SumOfZeros
  <2>2. Restored(today)' = Restored(today)
    BY <1>0, Zenon DEF Restored, Realized, Lots
  <2>3. Restored(today) \in Int
    BY RealizedIsInt DEF RiskInv, ProfitInv
  <2> QED BY <1>0, <1>1, <2>1, <2>2, <2>3 DEF ProfitOK
<1> QED BY <1>3, <1>4, <1>5, <1>6 DEF ProfitInv

\* What a bar of ticker k leaves of what the profit is about: the day of the book, and
\* an order of today or none, in the lot there is or in a new one.
LEMMA BarLeaves ==
  ASSUME RiskAssumption, RiskInv, NEW k \in Tickers, NEW p \in Prices, Bar(k, p)
  PROVE  /\ state.up /\ UNCHANGED <<today, fills>> /\ bucket' = [bucket EXCEPT ![k] = today]
         /\ state'.late = (state.late \/ bucket[k] < today)
         /\ book'.lot = book.lot /\ book'.date = bucket[k]
         /\ book'.realized = IF book.date = bucket[k] THEN book.realized ELSE 0
         /\ \A t \in Tickers \ {k} : ord'[t] = ord[t]
         /\ \/ ord'[k] = ord[k] /\ UNCHANGED <<row, lotNo>>
            \/ /\ ~Busy(k) /\ ord'[k].seen = 0 /\ ord'[k].day = today
               /\ \/ book.lot[k].qty > 0 /\ UNCHANGED <<row, lotNo>>
                  \/ /\ book.lot[k].qty = 0
                     /\ lotNo' = [lotNo EXCEPT ![k] = @ + 1] /\ row' = [row EXCEPT ![k] = Empty]
<1>1. state.up /\ UNCHANGED <<today, fills>> /\ bucket' = [bucket EXCEPT ![k] = today]
  BY DEF Bar
<1>2. PICK cash \in {account, book.cash} :
        LET b == Valued(OnDay(book, bucket[k]), cash, price') IN
        /\ audit' = Persisted(b.peak)
        /\ state' = [state EXCEPT !.top = Bigger(@, b.peak), !.late = @ \/ bucket[k] < today]
        /\ \/ /\ book' = b /\ UNCHANGED <<ord, row, lotNo>>
           \/ \E q \in Sizes :
                /\ ~Busy(k) /\ b.equity > 0 /\ Allowed(b, k, q, p)
                /\ Place(k, "BUY", q, p)
                /\ IF b.lot[k].qty = 0
                   THEN lotNo' = [lotNo EXCEPT ![k] = @ + 1] /\ row' = [row EXCEPT ![k] = Empty]
                   ELSE UNCHANGED <<row, lotNo>>
                /\ book' = [b EXCEPT !.left[k] = q]
           \/ /\ ~Busy(k) /\ b.lot[k].qty > 0
              /\ Place(k, "SELL", b.lot[k].qty, p)
              /\ book' = [b EXCEPT !.left[k] = b.lot[k].qty]
              /\ UNCHANGED <<row, lotNo>>
  BY Zenon DEF Bar
<1> DEFINE c == OnDay(book, bucket[k])
           b == Valued(c, cash, price')
           e == IF cash = NoCash THEN 0 ELSE cash + Worth([t \in Tickers |-> c.lot[t].qty], price')
           h == Bigger(c.peak, e)
<1>3. state'.late = (state.late \/ bucket[k] < today)
  <2> DEFINE n == Bigger(state.top, b.peak)
             w == state.late \/ bucket[k] < today
  <2>1. state' = [state EXCEPT !.top = n, !.late = w] /\ state \in Runs
    BY <1>2, Zenon DEF RiskInv, TypesOK
  <2> HIDE DEF n, w
  <2>2. state'.late = w
    BY <2>1 DEF Runs
  <2> QED BY <2>2 DEF w
<1>4. /\ book' = b /\ UNCHANGED <<ord, row, lotNo>>
      \/ /\ ~Busy(k)
         /\ \/ \E q \in Sizes :
                 /\ Place(k, "BUY", q, p) /\ book' = [b EXCEPT !.left[k] = q]
                 /\ IF b.lot[k].qty = 0
                    THEN lotNo' = [lotNo EXCEPT ![k] = @ + 1] /\ row' = [row EXCEPT ![k] = Empty]
                    ELSE UNCHANGED <<row, lotNo>>
            \/ /\ b.lot[k].qty > 0 /\ Place(k, "SELL", b.lot[k].qty, p)
               /\ book' = [b EXCEPT !.left[k] = b.lot[k].qty] /\ UNCHANGED <<row, lotNo>>
  BY <1>2, Zenon
<1>5. /\ c.lot = book.lot /\ c.date = bucket[k] /\ c \in Books(c.realized)
      /\ c.realized = IF book.date = bucket[k] THEN book.realized ELSE 0
  BY DEF OnDay, RiskInv, TypesOK, Books
<1>6. b = [c EXCEPT !.cash = cash, !.equity = e, !.peak = h]
  BY DEF Valued
<1> HIDE DEF b, c, e, h
<1>7. /\ b.lot = book.lot /\ b.date = bucket[k]
      /\ b.realized = IF book.date = bucket[k] THEN book.realized ELSE 0
      /\ \A q : LET a == [b EXCEPT !.left[k] = q] IN
                a.lot = b.lot /\ a.date = b.date /\ a.realized = b.realized
  <2>1. /\ b.lot = c.lot /\ b.date = c.date /\ b.realized = c.realized
        /\ b = [lot |-> c.lot, left |-> c.left, date |-> c.date, realized |-> c.realized,
                cash |-> cash, equity |-> e, peak |-> h]
    BY <1>5, <1>6 DEF Books
  <2>2. ASSUME NEW q
        PROVE  LET a == [b EXCEPT !.left[k] = q] IN
               a.lot = b.lot /\ a.date = b.date /\ a.realized = b.realized
    <3> DEFINE lefts == [b.left EXCEPT ![k] = q]
    <3>1. [b EXCEPT !.left[k] = q] = [b EXCEPT !.left = lefts]
      BY <2>1
    <3> HIDE DEF lefts
    <3> QED BY <2>1, <3>1
  <2> QED BY <1>5, <2>1, <2>2
<1>8. /\ book'.lot = book.lot /\ book'.date = bucket[k]
      /\ book'.realized = IF book.date = bucket[k] THEN book.realized ELSE 0
  BY <1>4, <1>7
<1>9. book.lot[k].qty \in Nat /\ ord \in [Tickers -> Ords]
  BY Ticker DEF RiskInv, TypesOK
<1>10. CASE book' = b /\ UNCHANGED <<ord, row, lotNo>>
  BY <1>1, <1>3, <1>8, <1>10
<1>11. ASSUME NEW side \in {"BUY", "SELL"}, NEW q \in Nat \ {0}, ~Busy(k), Place(k, side, q, p)
       PROVE  /\ \A t \in Tickers \ {k} : ord'[t] = ord[t]
              /\ ord'[k].seen = 0 /\ ord'[k].day = today
  BY <1>11, Placed
<1>12. ASSUME NEW q \in Sizes, ~Busy(k), Place(k, "BUY", q, p),
              IF b.lot[k].qty = 0
              THEN lotNo' = [lotNo EXCEPT ![k] = @ + 1] /\ row' = [row EXCEPT ![k] = Empty]
              ELSE UNCHANGED <<row, lotNo>>
       PROVE  /\ \A t \in Tickers \ {k} : ord'[t] = ord[t]
              /\ ord'[k].seen = 0 /\ ord'[k].day = today
              /\ \/ book.lot[k].qty > 0 /\ UNCHANGED <<row, lotNo>>
                 \/ /\ book.lot[k].qty = 0
                    /\ lotNo' = [lotNo EXCEPT ![k] = @ + 1] /\ row' = [row EXCEPT ![k] = Empty]
  <2>1. q \in Nat \ {0}
    BY DEF RiskAssumption
  <2>2. (\A t \in Tickers \ {k} : ord'[t] = ord[t]) /\ ord'[k].seen = 0 /\ ord'[k].day = today
    BY <1>11, <1>12, <2>1
  <2>3. CASE b.lot[k].qty = 0
    BY <1>7, <1>12, <2>2, <2>3
  <2>4. CASE b.lot[k].qty # 0
    <3>1. book.lot[k].qty > 0
      BY <1>7, <1>9, <2>4
    <3> QED BY <1>12, <2>2, <2>4, <3>1
  <2> QED BY <2>3, <2>4
<1>13. ASSUME ~Busy(k), b.lot[k].qty > 0, Place(k, "SELL", b.lot[k].qty, p)
       PROVE  /\ \A t \in Tickers \ {k} : ord'[t] = ord[t]
              /\ ord'[k].seen = 0 /\ ord'[k].day = today /\ book.lot[k].qty > 0
  <2> DEFINE q == b.lot[k].qty
  <2>1. q \in Nat \ {0} /\ book.lot[k].qty > 0 /\ Place(k, "SELL", q, p)
    BY <1>7, <1>9, <1>13
  <2> HIDE DEF q
  <2> QED BY <1>11, <1>13, <2>1
<1> QED BY <1>1, <1>3, <1>4, <1>8, <1>10, <1>12, <1>13

\* A bar starts the day's profit when it is the first of its day, and places orders of
\* today.
LEMMA BarProfits ==
  ASSUME RiskAssumption, RiskInv, ProfitInv, RiskInv', NEW k \in Tickers, NEW p \in Prices, Bar(k, p)
  PROVE  ProfitInv'
<1> DEFINE Stays == ord'[k] = ord[k] /\ UNCHANGED <<row, lotNo>>
           Adds1 == /\ ~Busy(k) /\ ord'[k].seen = 0 /\ ord'[k].day = today
                    /\ book.lot[k].qty > 0 /\ UNCHANGED <<row, lotNo>>
           Opens == /\ ~Busy(k) /\ ord'[k].seen = 0 /\ ord'[k].day = today /\ book.lot[k].qty = 0
                    /\ lotNo' = [lotNo EXCEPT ![k] = @ + 1] /\ row' = [row EXCEPT ![k] = Empty]
<1>1. /\ state.up /\ UNCHANGED <<today, fills>> /\ bucket' = [bucket EXCEPT ![k] = today]
      /\ state'.late = (state.late \/ bucket[k] < today)
      /\ book'.lot = book.lot /\ book'.date = bucket[k]
      /\ book'.realized = IF book.date = bucket[k] THEN book.realized ELSE 0
      /\ \A t \in Tickers \ {k} : ord'[t] = ord[t]
      /\ Stays \/ Adds1 \/ Opens
  BY BarLeaves
<1>2. /\ lotNo \in [Tickers -> Nat] /\ row \in [Tickers -> Accounts] /\ bucket \in [Tickers -> Nat]
      /\ today \in Nat /\ bucket[k] \in Nat /\ bucket[k] <= today
  BY DEF ProfitInv, TableOK, DaysOK, RiskInv, TypesOK
<1>3. ~Busy(k) => ord[k].seen = 0
  <2>1. ord[k].live \in Nat /\ ord[k].done \in Nat /\ ord[k].seen \in {0, 1}
    BY Ticker
  <2> QED BY <2>1 DEF Busy
<1>4. \A t \in Tickers \ {k} : lotNo'[t] = lotNo[t] /\ row'[t] = row[t]
  BY <1>1, <1>2
<1>5. Opens => lotNo'[k] = lotNo[k] + 1 /\ row'[k] = Empty /\ lotNo' \in [Tickers -> Nat]
  BY <1>2
<1>6. \A t \in Tickers : ord[t].seen = 1 => FillOf(t)' = FillOf(t) /\ ord'[t] = ord[t]
  <2> TAKE t \in Tickers
  <2>1. CASE t # k
    BY <1>1, <1>4, <2>1 DEF FillOf
  <2>2. CASE t = k
    <3>1. ord[k].seen = 1 => Stays
      BY <1>1, <1>3
    <3> QED BY <2>2, <3>1 DEF FillOf
  <2> QED BY <2>1, <2>2
<1>7. TableOK'
  <2>1. CASE Stays \/ Adds1
    BY <1>1, <2>1, SameTable DEF ProfitInv
  <2>2. CASE Opens
    <3>1. ASSUME NEW t \in Tickers, NEW n \in Nat, NEW d \in Nat
          PROVE  LET r == Replayed(fills', t, n, d) IN
                 /\ r.sum \in Int /\ (n = lotNo'[t] => r.lot = row'[t])
                 /\ (n > lotNo'[t] => r = Unsold) /\ (d > today' => r.sum = 0)
      <4> DEFINE r == Replayed(fills, t, n, d)
      <4>1. /\ r.sum \in Int /\ (n = lotNo[t] => r.lot = row[t])
            /\ (n > lotNo[t] => r = Unsold) /\ (d > today => r.sum = 0)
        BY DEF ProfitInv, TableOK
      <4>2. Replayed(fills', t, n, d) = r
        BY <1>1
      <4> HIDE DEF r
      <4>3. CASE t = k
        <5>1. n = lotNo'[k] => n > lotNo[k] /\ row'[k] = Empty
          BY <1>2, <1>5, <2>2
        <5>2. n > lotNo'[k] => n > lotNo[k]
          BY <1>2, <1>5, <2>2
        <5> QED BY <1>1, <4>1, <4>2, <4>3, <5>1, <5>2 DEF Unsold
      <4>4. CASE t # k
        BY <1>1, <1>4, <4>1, <4>2, <4>4
      <4> QED BY <4>3, <4>4
    <3> QED BY <1>1, <1>5, <2>2, <3>1 DEF ProfitInv, TableOK
  <2> QED BY <1>1, <2>1, <2>2
<1>8. LotsOK'
  <2> SUFFICES ASSUME NEW t \in Tickers, lotNo'[t] = 0 PROVE row'[t].qty = 0 /\ ~Busy(t)'
    BY DEF LotsOK
  <2>1. CASE t # k
    BY <1>1, <1>4, <2>1 DEF ProfitInv, LotsOK, Busy
  <2>2. CASE t = k
    <3>1. ~Opens
      BY <1>2, <1>5, <2>2
    <3>2. ~Adds1
      <4> SUFFICES ASSUME Adds1 PROVE FALSE
        OBVIOUS
      <4>1. row[k].qty = book.lot[k].qty + 0
        BY <1>1, <1>3 DEF RiskInv, BookedOK
      <4>2. row[k].qty = 0
        BY <2>2 DEF ProfitInv, LotsOK
      <4>3. book.lot[k].qty \in Nat
        BY Ticker
      <4> QED BY <4>1, <4>2, <4>3
    <3> QED BY <1>1, <2>2, <3>1, <3>2 DEF ProfitInv, LotsOK, Busy
  <2> QED BY <2>1, <2>2
<1>9. MemoryOK'
  <2> SUFFICES ASSUME NEW t \in Tickers
               PROVE  IF ord'[t].seen = 0 THEN Alike(book'.lot[t], row'[t])
                      ELSE Applied(book'.lot[t], FillOf(t)') = row'[t]
    BY Zenon DEF MemoryOK
  <2>1. IF ord[t].seen = 0 THEN Alike(book.lot[t], row[t]) ELSE Applied(book.lot[t], FillOf(t)) = row[t]
    BY <1>1 DEF ProfitInv, MemoryOK
  <2>2. CASE t # k
    <3>1. ord[t].seen \in {0, 1}
      BY Ticker
    <3> QED BY <1>1, <1>4, <1>6, <2>1, <2>2, <3>1
  <2>3. CASE t = k /\ Opens
    BY <1>1, <1>5, <2>3 DEF Alike, Empty
  <2>4. CASE t = k /\ ~Opens
    <3>1. ord'[k].seen = ord[k].seen /\ row'[k] = row[k]
      BY <1>1, <1>3, <2>4
    <3>2. ord[k].seen \in {0, 1}
      BY Ticker
    <3> QED BY <1>1, <1>6, <2>1, <2>4, <3>1, <3>2
  <2> QED BY <2>2, <2>3, <2>4
<1>10. DaysOK'
  <2>1. book'.date <= today
    BY <1>1, <1>2
  <2>2. ASSUME NEW t \in Tickers PROVE ord'[t].day <= today /\ bucket'[t] <= today
    <3>1. ord[t].day <= today /\ bucket[t] <= today
      BY DEF ProfitInv, DaysOK
    <3> QED BY <1>1, <1>2, <3>1
  <2> QED BY <1>1, <2>1, <2>2 DEF DaysOK
<1>11. ProfitOK'
  <2> SUFFICES ASSUME ~state'.late
               PROVE  book'.date = today /\ book'.realized = Restored(today)' - AllAhead'
    BY <1>1 DEF ProfitOK
  <2>1. ~state.late /\ bucket[k] = today
    <3>1. state.late \in BOOLEAN
      BY DEF RiskInv, TypesOK, Runs
    <3>2. ~state.late /\ ~(bucket[k] < today)
      BY <1>1, <3>1, Zenon
    <3> QED BY <1>2, <3>2
  <2>2. Restored(today)' = Restored(today)
    <3>1. CASE Stays \/ Adds1
      BY <1>1, <3>1, Zenon DEF Restored, Realized, Lots
    <3>2. CASE Opens
      BY <1>1, <3>2, NewLotRealizes DEF RiskInv, ProfitInv
    <3> QED BY <1>1, <3>1, <3>2
  <2>3. \A t \in Tickers : Ahead(t)' = Ahead(t)
    <3> TAKE t \in Tickers
    <3>1. ord[t].seen \in {0, 1}
      BY Ticker
    <3>2. ord[t].seen = 0 => ord'[t].seen = 0
      BY <1>1, <1>3
    <3> QED BY <1>1, <1>6, <3>1, <3>2 DEF Ahead
  <2>4. AllAhead' = AllAhead
    BY <2>3, SameAhead
  <2>5. CASE book.date = today
    BY <1>1, <2>1, <2>2, <2>4, <2>5 DEF ProfitInv, ProfitOK
  <2>6. CASE book.date # today
    <3>1. \A t \in Tickers : /\ \A n \in Nat : Replayed(fills, t, n, today).sum = 0
                             /\ Busy(t) => ord[t].day < today
      BY <1>1, <2>1, <2>6 DEF ProfitInv, ProfitOK
    <3>2. Restored(today) = 0
      BY <3>1, NothingRealized DEF RiskInv, ProfitInv
    <3>3. ASSUME NEW t \in Tickers PROVE Ahead(t) = 0
      <4>1. /\ ord[t].live \in Nat /\ ord[t].done \in Nat /\ ord[t].seen \in {0, 1} /\ ord[t].day \in Nat
        BY Ticker
      <4>2. ASSUME ord[t].seen = 1 PROVE ord[t].day # today
        <5>1. Busy(t)
          BY <4>1, <4>2 DEF Busy
        <5>2. ord[t].day < today
          BY <3>1, <5>1, Zenon
        <5>3. today \in Nat
          BY <1>2
        <5> QED BY <4>1, <5>2, <5>3
      <4> QED BY <4>2 DEF Ahead
    <3>4. AllAhead = 0
      BY <3>3, NoneAhead
    <3> QED BY <1>1, <2>1, <2>2, <2>4, <2>6, <3>2, <3>4
  <2> QED BY <1>1, <2>1, <2>5, <2>6
<1> QED BY <1>7, <1>8, <1>9, <1>10, <1>11 DEF ProfitInv

\* Nothing was realized, and nothing is ahead, at the start.
LEMMA ProfitStarts == ASSUME RiskAssumption, RiskInit PROVE ProfitInv
<1>0. /\ today = 1 /\ fills = <<>> /\ lotNo = [t \in Tickers |-> 0] /\ row = [t \in Tickers |-> Empty]
      /\ ord = [t \in Tickers |-> NoOrd] /\ bucket = [t \in Tickers |-> 0]
      /\ book.date = 0 /\ book.lot = [t \in Tickers |-> Empty]
  BY DEF RiskInit, NoBook
<1>1. \A t, n, d : Replayed(fills, t, n, d) = Unsold
  BY <1>0, ReplayOfNone
<1>2. Unsold.sum = 0 /\ Unsold.lot = Empty /\ Empty.qty = 0
  BY DEF Unsold, Empty
<1>3. \A t \in Tickers : ~Busy(t) /\ ord[t].seen = 0 /\ ord[t].day = 0
  BY <1>0 DEF Busy, NoOrd
<1>4. TableOK
  <2>1. fills \in Seq(Trades) /\ lotNo \in [Tickers -> Nat]
    BY <1>0
  <2>2. \A t \in Tickers : row[t] = Empty
    BY <1>0
  <2> QED BY <1>1, <1>2, <2>1, <2>2 DEF TableOK
<1>5. LotsOK /\ MemoryOK /\ DaysOK
  BY <1>0, <1>2, <1>3 DEF LotsOK, MemoryOK, DaysOK, Alike
<1>6. ProfitOK
  BY <1>0, <1>1, <1>2, <1>3 DEF ProfitOK
<1> QED BY <1>4, <1>5, <1>6 DEF ProfitInv

\* No step takes the day's profit from what the table says.
LEMMA ProfitStep ==
  ASSUME RiskAssumption, RiskInv, RiskInv', ProfitInv, [RiskNext]_riskVars
  PROVE  ProfitInv'
<1>1. CASE UNCHANGED riskVars
  <2>1. /\ UNCHANGED <<today, fills, row, lotNo, book, state, ord, bucket>>
        /\ \A t \in Tickers : bucket[t] <= today
    BY <1>1 DEF riskVars, ProfitInv, DaysOK
  <2>2. \A t \in Tickers : Busy(t)' <=> Busy(t)
    BY <2>1 DEF Busy
  <2> QED BY <2>1, <2>2, QuietProfits
<1>2. ASSUME NEW t \in Tickers,
             FirstTick(t) \/ Execute(t) \/ Record(t) \/ Booked(t) \/ \E p \in Prices : Bar(t, p)
      PROVE  ProfitInv'
  BY <1>2, FirstTickProfits, ExecuteProfits, RecordProfits, BookedProfits, BarProfits
<1> QED BY <1>1, <1>2, NightProfits, DownProfits, HydrateProfits DEF RiskNext

\* The day's profit the loss limit is checked against is that of the fills table, kept
\* fill by fill or rebuilt by a restart, once no recorded share is still to be booked and
\* unless a bar of an earlier day came late (service.py:302-345, 985-991).
THEOREM DayProfitIsKnown == ASSUME RiskAssumption PROVE RiskSpec => []LossKnown
<1>1. RiskInit => RiskInv /\ ProfitInv
  BY RiskStarts, ProfitStarts
<1>2. RiskInv /\ ProfitInv /\ [RiskNext]_riskVars => RiskInv' /\ ProfitInv'
  <2>1. RiskInv /\ [RiskNext]_riskVars => RiskInv'
    BY RiskStep
  <2> QED BY <2>1, ProfitStep
<1>3. RiskInv /\ ProfitInv => LossKnown
  <2> SUFFICES ASSUME RiskInv, ProfitInv, state.up, ~state.late, book.date = today,
                      \A t \in Tickers : ord[t].seen = 0
               PROVE  book.realized = Restored(today)
    BY DEF LossKnown
  <2>1. book.realized = Restored(today) - AllAhead
    BY DEF ProfitInv, ProfitOK
  <2>2. AllAhead = 0
    <3>1. \A t \in Tickers : Ahead(t) = 0
      BY AheadIsInt
    <3> QED BY <3>1, NoneAhead
  <2>3. Restored(today) \in Int
    BY RealizedIsInt DEF RiskInv, ProfitInv
  <2> QED BY <2>1, <2>2, <2>3
<1> QED BY <1>1, <1>2, <1>3, PTL DEF RiskSpec
=============================================================================
