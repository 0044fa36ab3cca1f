----------------------------- MODULE CarmenBase -----------------------------
(***************************************************************************)
(* CARMEN's base (src/src/base/base_main.c): it passes the velocities the   *)
(* robot server publishes on to the hardware, stops the hardware when they  *)
(* cease, and reports the odometry.                                         *)
(*                                                                          *)
(* The base is one thread.  A velocity message, or a round of its main      *)
(* loop, is a series of calls of the driver; a call that fails is preceded  *)
(* by a new initialization of the hardware and repeated until it succeeds,  *)
(* and meanwhile the base does nothing else.  at is the call it is in.      *)
(***************************************************************************)
EXTENDS Integers, Sequences, CarmenRobot

CONSTANT MotionTimeout   \* base_motion_timeout, in rounds of the main loops

ASSUME BaseAssumption == MotionTimeout \in Nat

VARIABLES
  at,          \* the call the base is in, or "idle", "down", "hung"
  taken,       \* the velocity being passed on
  moving,
  motionAge,   \* time since last_motion_command, up to MotionTimeout + 1
  resetDue,    \* reset_time > reset.timestamp: a reset to be announced
  commanded,   \* history: a velocity was set since the base was started
  motors       \* hardware: the velocity the motors were set to

baseVars == <<at, taken, moving, motionAge, resetDue, commanded, motors>>

Calls == {"decelerate", "accelerate", "setVelocity",
          "timeoutDecelerate", "timeoutStop", "status", "direct"}

BaseTypeOK ==
  /\ at \in Calls \cup {"idle", "down", "hung"}
  /\ taken \in Velocity
  /\ moving \in BOOLEAN /\ resetDue \in BOOLEAN /\ commanded \in BOOLEAN
  /\ motionAge \in 0 .. MotionTimeout + 1
  /\ motors \in Velocity

BaseInit ==
  /\ at = "idle"
  /\ taken = Zero
  /\ moving = FALSE
  /\ motionAge = MotionTimeout + 1
  /\ resetDue = TRUE
  /\ commanded = FALSE
  /\ motors = Zero

TimedOut == motionAge > MotionTimeout

-----------------------------------------------------------------------------
(* The handlers of messages. *)

\* velocity_handler, up to its first call of the driver.
TakeVelocity(v) ==
  /\ at = "idle"
  /\ taken' = v
  /\ at' = CASE v = Zero /\ moving  -> "decelerate"
             [] v # Zero /\ ~moving -> "accelerate"
             [] OTHER               -> "setVelocity"
  /\ moving' = (moving \/ v # Zero)
  /\ UNCHANGED <<motionAge, resetDue, commanded, motors>>

\* reset_handler and binary_command_handler: one call of the driver each.
TakeDirect ==
  /\ at = "idle"
  /\ at' = "direct"
  /\ UNCHANGED <<taken, moving, motionAge, resetDue, commanded, motors>>

-----------------------------------------------------------------------------
(* The main loop, carmen_base_run. *)

\* A reset that happened is announced, and nothing else is done in this round.
AnnounceReset ==
  /\ at = "idle" /\ resetDue
  /\ resetDue' = FALSE
  /\ UNCHANGED <<at, taken, moving, motionAge, commanded, motors>>

StartRound ==
  /\ at = "idle" /\ ~resetDue
  /\ at' = IF moving /\ TimedOut THEN "timeoutDecelerate" ELSE "status"
  /\ moving' = (moving /\ ~TimedOut)
  /\ UNCHANGED <<taken, motionAge, resetDue, commanded, motors>>

-----------------------------------------------------------------------------
(* The calls of the driver. *)

AfterCall_RunsOn ==
  [call \in Calls |->
     CASE call \in {"decelerate", "accelerate"} -> "setVelocity"
       [] call = "timeoutDecelerate"            -> "status"
       [] OTHER                                 -> "idle"]
AfterCall ==
  [call \in Calls |->
     CASE call \in {"decelerate", "accelerate"} -> "setVelocity"
       [] call = "timeoutDecelerate"            -> "timeoutStop"
       [] call = "timeoutStop"                  -> "status"
       [] OTHER                                 -> "idle"]

\* The status call is the last of a round; what follows it is published.
CallSucceeds_Renews ==
  /\ at \in Calls
  /\ at' = AfterCall[at]
  /\ moving' = (moving /\ at # "decelerate")
  /\ motors' = CASE at = "setVelocity" -> taken
                 [] at = "timeoutStop" -> Zero
                 [] OTHER              -> motors
  /\ motionAge' = 0
  /\ commanded' = (commanded \/ at \in {"setVelocity", "timeoutStop"})
  /\ taken' = IF at = "setVelocity" THEN Zero ELSE taken
  /\ UNCHANGED resetDue
CallSucceeds ==
  /\ at \in Calls
  /\ at' = AfterCall[at]
  /\ moving' = (moving /\ at # "decelerate")
  /\ motors' = CASE at = "setVelocity" -> taken
                 [] at = "timeoutStop" -> Zero
                 [] OTHER              -> motors
  /\ motionAge' = IF at = "setVelocity" THEN 0 ELSE motionAge
  /\ commanded' = (commanded \/ at \in {"setVelocity", "timeoutStop"})
  /\ taken' = IF at = "setVelocity" THEN Zero ELSE taken
  /\ UNCHANGED resetDue

\* What the initialization of the hardware does to the motors depends on the
\* driver: they run on, or they are stopped.  One that fails itself is not
\* announced as a reset.
Initialized == {motors, Zero}

CallFails ==
  /\ at \in Calls
  /\ motors' \in Initialized
  /\ motionAge' = IF at = "setVelocity" THEN 0 ELSE motionAge
  /\ resetDue' \in {resetDue, TRUE}
  /\ UNCHANGED <<at, taken, moving, commanded>>

-----------------------------------------------------------------------------
(* The end of the process, and a new one. *)

\* What a new process starts with; a dead one has it already.
Forgotten ==
  /\ taken' = Zero
  /\ moving' = FALSE
  /\ motionAge' = MotionTimeout + 1
  /\ resetDue' = TRUE
  /\ commanded' = FALSE

\* Killed, or shut down by SIGINT, which leaves the motors to the driver.
BaseDies ==
  /\ at # "down"
  /\ at' = "down"
  /\ motors' \in Initialized
  /\ Forgotten

\* The handler of SIGSEGV stops the motors and returns to the instruction that
\* failed: the process neither ends nor goes on.
BaseFaults ==
  /\ at \notin {"down", "hung"}
  /\ at' = "hung"
  /\ motors' = Zero
  /\ Forgotten

BaseStarts ==
  /\ at = "down"
  /\ at' = "idle"
  /\ motors' \in Initialized
  /\ UNCHANGED <<taken, moving, motionAge, resetDue, commanded>>

BaseAges ==
  /\ motionAge' = IF TimedOut THEN motionAge ELSE motionAge + 1
  /\ UNCHANGED <<at, taken, moving, resetDue, commanded, motors>>
=============================================================================
