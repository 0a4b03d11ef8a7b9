------------------------- MODULE MCAppServerSession -------------------------
(***************************************************************************)
(* Two instances: SessionLines lets the server write every kind of line    *)
(* once its process lives and dies simply; SessionProcesses keeps to the   *)
(* lines of a good exchange and lets descendants come and go.              *)
(***************************************************************************)
EXTENDS AppServerSession
=============================================================================
