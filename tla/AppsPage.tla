------------------------------ MODULE AppsPage ------------------------------
(***************************************************************************)
(* The last page of Ubuntu's set-up: it asks snapd what is installed and   *)
(* what is featured, asks again for as long as snapd is not ready, and     *)
(* lays the snaps out in boxes.  (pages/apps/gis-apps-page.c)              *)
(***************************************************************************)
EXTENDS Sequences, Functions, Naturals

CONSTANTS
  Featured,   (* lists that snapd may answer the search with               *)
  Installed,  (* sets it may answer the question for the installed with    *)
  PerBox,     (* tiles of a flow box, 15 in the program                    *)
  Icons       (* the icons each snap has: "snap", "desktop", "store"       *)

VARIABLES
  call,            (* "installed", "featured" or None: asked of snapd      *)
  featured_snaps_timeout,
  installed_snaps, (* what was answered, {} as long as nothing was         *)
  featured_snaps,
  main_stack,      (* "page_spinner" or "page_snaps"                       *)
  featured_stack,  (* its boxes, sequences of tiles                        *)
  child,           (* the box that is seen                                 *)
  prev_featured, next_featured,  (* the buttons: visible and sensitive     *)
  downloads,       (* the tiles waiting for an icon of the store           *)
  disposed

asked == <<call, featured_snaps_timeout, installed_snaps>>
seen == <<featured_snaps, main_stack, featured_stack, child, prev_featured, next_featured>>
vars == <<asked, seen, downloads, disposed>>

None == "none"
Spacer == [snap |-> None, icon |-> None]

-----------------------------------------------------------------------------
(* load_icon: snapd's own icon, the desktop file's, else a placeholder     *)
(* until the store has answered.                                           *)
Icon(snap) ==
  IF Icons[snap] \cap {"snap", "desktop"} = {} THEN "placeholder"
  ELSE IF "snap" \in Icons[snap] THEN "snap" ELSE "desktop"

Tile(snap) == [snap |-> snap, icon |-> Icon(snap)]

(* add_tile: into the last box, or a new one when that is full.            *)
add_tile(boxes, tile) ==
  IF boxes = <<>> \/ Len(boxes[Len(boxes)]) >= PerBox THEN Append(boxes, <<tile>>)
  ELSE [boxes EXCEPT ![Len(boxes)] = Append(@, tile)]

(* The loop of gis_app_page_populate_featured_snaps over the snaps.        *)
Wanted(snaps, installed) ==
  LET first[i \in 0..Len(snaps)] ==
        IF i = 0 THEN <<>>
        ELSE IF snaps[i] \in installed \/ snaps[i] = "firefox" THEN first[i - 1]
        ELSE Append(first[i - 1], snaps[i])
  IN first[Len(snaps)]

(* Mistake: one row too many when the tiles fill their boxes.              *)
SpacersAlways(n) == PerBox - (n % PerBox)

Spacers(n) == IF n % PerBox # 0 THEN PerBox - (n % PerBox) ELSE 0

Tiles(wanted) ==
  [i \in 1..Len(wanted) + Spacers(Len(wanted)) |->
     IF i <= Len(wanted) THEN Tile(wanted[i]) ELSE Spacer]

(* gis_app_page_populate_featured_snaps: one tile after the other          *)
Populated(wanted) ==
  LET tiles == Tiles(wanted)
      laid[i \in 0..Len(tiles)] ==
        IF i = 0 THEN <<>> ELSE add_tile(laid[i - 1], tiles[i])
  IN laid[Len(tiles)]

-----------------------------------------------------------------------------
(* gis_apps_page_init                                                      *)
Init ==
  /\ call = "installed" /\ featured_snaps_timeout = FALSE
  /\ installed_snaps = {} /\ featured_snaps = <<>>
  /\ main_stack = "page_spinner" /\ featured_stack = <<>> /\ child = 0
  /\ prev_featured = [visible |-> FALSE, sensitive |-> FALSE]
  /\ next_featured = [visible |-> FALSE, sensitive |-> TRUE]
  /\ downloads = {} /\ disposed = FALSE

(* gis_app_page_on_installed_snaps_ready: an error is taken for an empty   *)
(* list.  A cancelled call returns, here and below, before it touches the  *)
(* page, which is gone.                                                    *)
InstalledReady(reply) ==
  /\ call = "installed" /\ call' = None
  /\ IF disposed THEN UNCHANGED <<featured_snaps_timeout, installed_snaps>>
     ELSE installed_snaps' = reply /\ featured_snaps_timeout' = TRUE
  /\ UNCHANGED <<seen, downloads, disposed>>

(* gis_app_page_get_featured_snaps_timeout                                 *)
Timeout ==
  /\ featured_snaps_timeout /\ featured_snaps_timeout' = FALSE
  /\ call' = "featured"
  /\ UNCHANGED <<installed_snaps, seen, downloads, disposed>>

(* Mistake: a cancelled call is tried again like a failed one.             *)
FeaturedFailedRetries ==
  /\ call = "featured" /\ call' = None
  /\ featured_snaps_timeout' = TRUE
  /\ UNCHANGED <<installed_snaps, seen, downloads, disposed>>

(* Mistake: an error is the end.                                           *)
FeaturedFailedGivesUp ==
  /\ call = "featured" /\ call' = None
  /\ UNCHANGED <<featured_snaps_timeout, installed_snaps, seen, downloads, disposed>>

(* gis_app_page_on_featured_snaps_ready: an error is tried again, in a     *)
(* second, for ever.                                                       *)
FeaturedFailed ==
  /\ call = "featured" /\ call' = None
  /\ featured_snaps_timeout' = ~disposed
  /\ UNCHANGED <<installed_snaps, seen, downloads, disposed>>

FeaturedReady(reply) ==
  /\ call = "featured" /\ ~disposed /\ call' = None
  /\ featured_snaps' = reply /\ main_stack' = "page_snaps"
  /\ LET wanted == Wanted(reply, installed_snaps)
         boxes == Populated(wanted)
     IN
     /\ featured_stack' = boxes
     /\ child' = IF boxes = <<>> THEN 0 ELSE 1
     /\ prev_featured' = [prev_featured EXCEPT !.visible = Len(boxes) > 1]
     /\ next_featured' = [next_featured EXCEPT !.visible = Len(boxes) > 1]
     /\ downloads' = {s \in Range(wanted) : Icon(s) = "placeholder" /\ "store" \in Icons[s]}
  /\ UNCHANGED <<featured_snaps_timeout, installed_snaps, disposed>>

(* icon_cb; the call has no cancellable, and its tile may be gone.         *)
IconReady(snap, ok) ==
  /\ snap \in downloads /\ downloads' = downloads \ {snap}
  /\ featured_stack' = IF ~ok \/ disposed THEN featured_stack
       ELSE [b \in DOMAIN featured_stack |-> [t \in DOMAIN featured_stack[b] |->
               IF featured_stack[b][t].snap = snap THEN [snap |-> snap, icon |-> "store"]
               ELSE featured_stack[b][t]]]
  /\ UNCHANGED <<asked, featured_snaps, main_stack, child, prev_featured, next_featured, disposed>>

(* next_page: the box behind the one that is seen.                         *)
NextBox ==
  /\ ~disposed /\ next_featured.visible /\ next_featured.sensitive
  /\ child < Len(featured_stack)
  /\ child' = child + 1
  /\ prev_featured' = [prev_featured EXCEPT !.sensitive = TRUE]
  /\ next_featured' = [next_featured EXCEPT !.sensitive = child + 1 < Len(featured_stack)]
  /\ UNCHANGED <<asked, featured_snaps, main_stack, featured_stack, downloads, disposed>>

(* Mistake: prev_page forgets the other button.                            *)
PrevBoxOnly ==
  /\ ~disposed /\ prev_featured.visible /\ prev_featured.sensitive
  /\ child > 1
  /\ child' = child - 1
  /\ prev_featured' = [prev_featured EXCEPT !.sensitive = child - 1 > 1]
  /\ UNCHANGED next_featured
  /\ UNCHANGED <<asked, featured_snaps, main_stack, featured_stack, downloads, disposed>>

PrevBox ==
  /\ ~disposed /\ prev_featured.visible /\ prev_featured.sensitive
  /\ child > 1
  /\ child' = child - 1
  /\ prev_featured' = [prev_featured EXCEPT !.sensitive = child - 1 > 1]
  /\ next_featured' = [next_featured EXCEPT !.sensitive = TRUE]
  /\ UNCHANGED <<asked, featured_snaps, main_stack, featured_stack, downloads, disposed>>

(* gis_apps_page_dispose, of a page behind the one that caused a rebuild.  *)
Dispose ==
  /\ ~disposed /\ disposed' = TRUE
  /\ featured_snaps_timeout' = FALSE
  /\ UNCHANGED <<call, installed_snaps, seen, downloads>>

Next ==
  \/ Timeout \/ FeaturedFailed \/ NextBox \/ PrevBox \/ Dispose
  \/ \E reply \in Installed \cup {{}} : InstalledReady(reply)
  \/ \E reply \in Featured : FeaturedReady(reply)
  \/ \E snap \in DOMAIN Icons, ok \in BOOLEAN : IconReady(snap, ok)

Answered == FeaturedFailed \/ (\E reply \in Installed \cup {{}} : InstalledReady(reply))
            \/ (\E reply \in Featured : FeaturedReady(reply))
Found == \E reply \in Featured : FeaturedReady(reply)

-----------------------------------------------------------------------------
TypeOK ==
  /\ call \in {"installed", "featured", None}
  /\ main_stack \in {"page_spinner", "page_snaps"}
  /\ child \in 0..Len(featured_stack)
  /\ downloads \subseteq DOMAIN Icons
  /\ {featured_snaps_timeout, disposed} \subseteq BOOLEAN

(* Every featured snap that is to be offered has its tile, in snapd's      *)
(* order, nothing else has one, every box is full, and no box is empty but *)
(* for its spacers.                                                        *)
TilesMatchSnaps ==
  LET wanted == Wanted(featured_snaps, installed_snaps)
      n == Len(wanted)
  IN /\ Len(featured_stack) * PerBox >= n /\ Len(featured_stack) * PerBox < n + PerBox
     /\ \A b \in DOMAIN featured_stack :
          /\ Len(featured_stack[b]) = PerBox
          /\ \A i \in 1..PerBox :
               LET tile == featured_stack[b][i]
                   k == (b - 1) * PerBox + i
               IN IF k <= n THEN tile.snap = wanted[k] ELSE tile = Spacer

(* The buttons lead to every box and never past the first or the last.     *)
ButtonsMatchBox ==
  next_featured.visible => /\ prev_featured.sensitive = (child > 1)
                           /\ next_featured.sensitive = (child < Len(featured_stack))

(* No timer is left that would use a destroyed page, whatever was asked,   *)
(* failed or was cancelled when it went.                                   *)
NoTimerOutlivesPage == disposed => ~featured_snaps_timeout
=============================================================================
