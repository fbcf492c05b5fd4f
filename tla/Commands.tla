------------------------------ MODULE Commands ------------------------------
(***************************************************************************)
(* What the commands of CommandService (src/commands.cpp),                 *)
(* DiagnosticsService and MaintenanceService (src/maintenance.cpp) submit  *)
(* to the dispatcher, and what they tell of the answer.                    *)
(*                                                                         *)
(* A definition marked "Fault" is what the one below it would be with a    *)
(* plausible mistake in the code; it is not part of the model.             *)
(***************************************************************************)
EXTENDS Integers

CONSTANTS
    TurnOnStep,     \* kTurnOnStep, in seconds
    StepsBits       \* the width of duration_steps

ASSUME CommandsAssumption == TurnOnStep \in Nat \ {0} /\ StepsBits \in Nat \ {0}

\* OperationPriority: all of them, those of the named commands, and that of
\* the poller
Priorities == 0..5
SafetyControl == 0
InteractiveControl == 1
Polling == 4

NoSteps == -1
Refused == [submitted |-> FALSE]

\* async_raw(), raw(): nothing is submitted without a command; the priority
\* is the caller's.
Raw(command, steps, priority) ==
    IF command = "" THEN Refused
    ELSE [submitted |-> TRUE, command |-> command, steps |-> steps, priority |-> priority]

\* "An Off is a safety operation"
StatePriority(state) == IF state = "Off" THEN SafetyControl ELSE InteractiveControl

\* async_set_state()
SetState(state) == Raw("set_state", NoSteps, StatePriority(state))

\* Fault: rounded down.
WholeSteps(duration) == duration \div TurnOnStep

\* Rounded up to whole steps, cast to 32 bits.
StepsFor(duration) == ((duration + TurnOnStep - 1) \div TurnOnStep) % (2 ^ StepsBits)

\* if (duration <= 0) ...
Positive(duration) == duration > 0

\* async_turn_on_for()
TurnOnFor(duration) ==
    IF ~Positive(duration) THEN Refused
    ELSE Raw("turn_on_duration", StepsFor(duration), InteractiveControl)

\* async_restart_pump(), async_reboot()
RestartPump == Raw("restart", NoSteps, InteractiveControl)
RebootDevice == Raw("reboot", NoSteps, InteractiveControl)

\* guarded(): test commands, which take seconds, only where they are enabled.
Guarded(command, duration, enabled) ==
    IF ~enabled \/ ~Positive(duration) THEN Refused
    ELSE Raw(command, duration % (2 ^ StepsBits), InteractiveControl)

\* What a caller of any of them may ask for: the operation and its argument,
\* whether test commands are enabled, and the priority, which raw() takes.
Submit(op, argument, enabled, priority) ==
    CASE op = "raw" -> Raw(argument, NoSteps, priority)
      [] op = "set_state" -> SetState(argument)
      [] op = "turn_on_for" -> TurnOnFor(argument)
      [] op = "restart_pump" -> RestartPump
      [] op = "reboot" -> RebootDevice
      [] op = "inject_watchdog_fault" -> Guarded("wd_fault", argument, enabled)
      [] op = "force_poor_link" -> Guarded("link_fault", argument, enabled)
=============================================================================
