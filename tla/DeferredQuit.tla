---------------------------- MODULE DeferredQuit ----------------------------
(***************************************************************************)
(* What gis_driver_inhibit_quit, gis_driver_uninhibit_quit and             *)
(* gis_driver_quit of gis-driver.c promise together: work that must not be *)
(* cut short puts off the end of the program, and the program ends as soon *)
(* as it has been asked to and no such work is left.                       *)
(***************************************************************************)
EXTENDS Naturals

VARIABLES
  pending,  (* pieces of work that put off the end: driver->inhibit_count  *)
  asked,    (* the end has been asked for: driver->quit_requested          *)
  quit      (* g_application_quit has been called                          *)

vars == <<pending, asked, quit>>

Init ==
  /\ pending = 0
  /\ asked = FALSE
  /\ quit = FALSE

(* gis_driver_inhibit_quit                                                 *)
Begin ==
  /\ pending' = pending + 1
  /\ UNCHANGED <<asked, quit>>

(* gis_driver_uninhibit_quit                                               *)
End ==
  /\ pending > 0
  /\ pending' = pending - 1
  /\ quit' = (quit \/ (pending = 1 /\ asked))
  /\ UNCHANGED asked

(* gis_driver_quit                                                         *)
Ask ==
  /\ quit' = (quit \/ pending = 0)
  /\ asked' = (asked \/ pending > 0)
  /\ UNCHANGED pending

Next == Begin \/ End \/ Ask

Spec == Init /\ [][Next]_vars

=============================================================================
