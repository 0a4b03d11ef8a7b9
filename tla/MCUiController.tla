--------------------------- MODULE MCUiController ---------------------------
(***************************************************************************)
(* Two instances: UiSettings drives the menu and the window's settings     *)
(* against each other, UiRefresh drives presentation, paging and fetching. *)
(***************************************************************************)
EXTENDS UiController
=============================================================================
