------------------------------ MODULE Database ------------------------------
(***************************************************************************)
(* What the modules about requests to the server share.  Requests run side *)
(* by side, each in one transaction of the database.                       *)
(***************************************************************************)

CONSTANTS None,     \* NULL
          Requests  \* the requests that may be under way at one time

=============================================================================
