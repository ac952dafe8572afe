--------------------------- MODULE MCGisAssistant ---------------------------
(***************************************************************************)
(* A page list for TLC.                                                    *)
(*                                                                         *)
(* Gnome: page_table in new-user mode, with the pages the vendor file may  *)
(* skip left out: 1 language, 2 goa, 4 account, 5 password, 6 parental     *)
(* controls, 7 summary.  rebuild_pages_cb resumes in ubuntu_page_table:    *)
(* from the account page it finds password and 8 apps there; the language  *)
(* page is not in that table, and what follows the table in memory is      *)
(* either nothing usable or unity_page_table (2, 3 livepatch, 4, 5, 8).    *)
(* PageList has the other outcomes and the other tables.                   *)
(***************************************************************************)
EXTENDS GisAssistant

GnomeFirst == {1, 2, 4, 5, 6, 7}

GnomeSkip == {{}, {6, 7}}

GnomeFollow ==
  [p \in Page |-> CASE p = 1 -> {{}, {2, 3, 4, 5, 8}}
                    [] p = 4 -> {{5, 8}}
                    [] OTHER -> {}]

=============================================================================
