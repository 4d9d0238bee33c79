---------------------------- MODULE MCHarnessRun ----------------------------
(***************************************************************************)
(* Small instances of HarnessRun.  Between them the programs have every    *)
(* kind of phase, a checkpoint before a command and before a verify phase, *)
(* a checkpoint at which feedback may be replaced, a command that stops on *)
(* failure, repairs, and the older solver/verifier pair with the largest   *)
(* number of retries.                                                      *)
(***************************************************************************)
EXTENDS HarnessRun

Phase(kind, stopOnFailure, maxRepairs) ==
  [kind |-> kind, stopOnFailure |-> stopOnFailure, maxRepairs |-> maxRepairs]

Work == Phase("work", FALSE, 0)
Checkpoint == Phase("checkpoint", FALSE, 0)
Command(stopOnFailure) == Phase("command", stopOnFailure, 0)
Verify(maxRepairs) == Phase("verify", FALSE, maxRepairs)

MCPrograms ==
  { << Work, Checkpoint, Command(TRUE), Checkpoint, Work >>,
    << Work, Checkpoint, Verify(1) >>,
    << Work, Command(FALSE) >>,
    << Phase("solver", FALSE, 0), Phase("verifier", FALSE, 2) >> }
=============================================================================
