------------------------------ MODULE MCFitLoader ------------------------------
(***************************************************************************)
(* FitLoader on small instances, and its refinement of BootAttempts.       *)
(***************************************************************************)
EXTENDS FitLoader

\* The trial that the durable records have paid for and that is still to come.
Paid ==
  IF job = "trial" /\ (pc = "load" \/ (pc = "readback" /\ view[WriteTarget] = Pending))
  THEN {records[selected].id} ELSE {}

Abstract == INSTANCE BootAttempts WITH entries <- Current(durable), trying <- Paid

\* The two copies behave as one register that changes atomically, and every
\* trial of the loader is paid for in it first: the loader implements
\* BootAttempts whatever power cut, torn write or failed operation happens.
ImplementsBootAttempts == Abstract!ASpec

=============================================================================
