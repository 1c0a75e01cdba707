------------------------------ MODULE MCA2AJobs ------------------------------
(***************************************************************************)
(* A small instance of A2AJobs: two jobs, and starts after crashes and     *)
(* inside the process.                                                     *)
(***************************************************************************)
EXTENDS A2AJobs

CONSTANTS j1, j2

TwoJobs == {j1, j2}
OneJob == {j1}

===============================================================================
