------------------------------ MODULE PageList -------------------------------
(***************************************************************************)
(* The list of pages: three tables, the vendor's file and the mode, and    *)
(* the rebuild that a changed language or choice of parental controls      *)
(* starts from the page the user is on.  (gnome-initial-setup.c)           *)
(*                                                                         *)
(* GisAssistant shows what the title bar does with any list; here a page is*)
(* its page_id and the list is the one rebuild_pages_cb builds.            *)
(***************************************************************************)
EXTENDS Sequences, SequencesExt, FiniteSets, Naturals

CONSTANTS
  Desktops,    (* tokens of XDG_CURRENT_DESKTOP: "ubuntu", "unity", "gnome"*)
  VendorPages, (* pages the vendor's file may name                         *)
  MaxOverruns  (* bound on the rebuilds that run past the table            *)

ASSUME DesktopsAssumption == Desktops \subseteq {"ubuntu", "unity", "gnome"}
ASSUME BoundAssumption == MaxOverruns \in Nat

VARIABLES
  desktop,   (* is_desktop                                                 *)
  new_user,  (* the driver is in NEW_USER mode                             *)
  vendor,    (* [pages] of the vendor's file                               *)
  livepatch, (* livepatch is supported and not enabled                     *)
  software,  (* should_show_software_page                                  *)
  pages,     (* assistant->pages                                           *)
  at,        (* the index of the current page, 0 before the first          *)
  parental,  (* gis_driver_get_parental_controls_enabled                   *)
  saved,     (* the account page was there to be saved                     *)
  phase,     (* "running", "ended", or "stopped" by what it read           *)
  overruns   (* rebuilds that ran past ubuntu_page_table                   *)

system == <<desktop, new_user, vendor, livepatch, software>>

vars == <<system, pages, at, parental, saved, phase, overruns>>

page_table ==
  <<"welcome", "language", "keyboard", "network", "privacy", "timezone",
    "software", "goa", "account", "password", "parental_controls",
    "parent_password", "summary">>

ubuntu_page_table ==
  <<"goa", "livepatch", "ubuntu_report", "privacy", "account", "password", "apps">>

unity_page_table ==
  <<"goa", "livepatch", "ubuntu_report", "account", "password", "apps">>

PageId == ToSet(page_table) \cup ToSet(ubuntu_page_table)

NewUserOnly == {"timezone", "software", "account", "password",
                "parental_controls", "parent_password"}

Table(d) ==
  CASE d = "ubuntu" -> ubuntu_page_table
    [] d = "unity"  -> unity_page_table
    [] d = "gnome"  -> page_table

-----------------------------------------------------------------------------
(* What a build offers.                                                    *)

(* Mistake: the keys of the two modes are swapped.                         *)
SkipPagesSwapped(v, new) == v.skip \cup (IF new THEN v.new_user_only ELSE v.existing_user_only)

(* pages_to_skip_from_file                                                 *)
SkipPages(v, new) == v.skip \cup (IF new THEN v.existing_user_only ELSE v.new_user_only)

(* should_skip_page                                                        *)
ShouldSkip(id, skip) == IF id = "welcome" THEN "language" \notin skip ELSE id \in skip

(* The pages whose gis_prepare function may return NULL.                   *)
Prepared(id, guarded) ==
  CASE id \in {"parental_controls", "parent_password"} -> guarded
    [] id = "livepatch" -> livepatch
    [] id = "software" -> software
    [] OTHER -> TRUE

(* The body of the second loop of rebuild_pages_cb                         *)
Passes(id, guarded) ==
  /\ id \in NewUserOnly => new_user
  /\ ~ShouldSkip(id, SkipPages(vendor, new_user))
  /\ Prepared(id, guarded)

(* That loop: the pages that pass, one behind the other.                   *)
Offered(ids, guarded) ==
  LET built[i \in 0..Len(ids)] ==
        IF i = 0 THEN <<>>
        ELSE IF Passes(ids[i], guarded) THEN Append(built[i - 1], ids[i])
        ELSE built[i - 1]
  IN built[Len(ids)]

(* Mistake: the current page is built again.                               *)
RestFromCurrent(id) ==
  LET i == CHOOSE j \in DOMAIN ubuntu_page_table : ubuntu_page_table[j] = id
  IN SubSeq(ubuntu_page_table, i, Len(ubuntu_page_table))

(* The entries behind that of the current page, sought in ubuntu_page_table*)
(* whatever the desktop.                                                   *)
Rest(id) ==
  LET i == CHOOSE j \in DOMAIN ubuntu_page_table : ubuntu_page_table[j] = id
  IN SubSeq(ubuntu_page_table, i + 1, Len(ubuntu_page_table))

(* Mistake: the current page is destroyed too.                             *)
KeptBefore == SubSeq(pages, 1, at - 1)

(* destroy_pages_after                                                     *)
Kept == SubSeq(pages, 1, at)

(* A page that is not in ubuntu_page_table is not found, and the walk goes *)
(* on behind the table's end: to an entry of one of the tables beside it   *)
(* and from there to that table's end, to an end at once, or into something*)
(* that is no table.                                                       *)
Overrun(guarded) ==
  /\ ~Contains(ubuntu_page_table, pages[at])
  /\ overruns < MaxOverruns /\ overruns' = overruns + 1
  /\ \/ \E t \in {page_table, unity_page_table} : \E i \in 1 .. Len(t) + 1 :
          pages' = Kept \o Offered(SubSeq(t, i, Len(t)), guarded) /\ UNCHANGED phase
     \/ phase' = "stopped" /\ UNCHANGED pages

(* rebuild_pages_cb with a current page                                    *)
Rebuild(guarded) ==
  \/ /\ Contains(ubuntu_page_table, pages[at])
     /\ pages' = Kept \o Offered(Rest(pages[at]), guarded)
     /\ UNCHANGED <<phase, overruns>>
  \/ Overrun(guarded)

-----------------------------------------------------------------------------
Vendors ==
  [skip : SUBSET VendorPages, new_user_only : SUBSET VendorPages,
   existing_user_only : SUBSET VendorPages]

(* main, and gis_driver_startup's first rebuild                            *)
Init ==
  /\ desktop \in Desktops /\ new_user \in BOOLEAN /\ vendor \in Vendors
  /\ livepatch \in BOOLEAN /\ software \in BOOLEAN
  /\ pages = Offered(Table(desktop), FALSE)
  /\ at = IF pages = <<>> THEN 0 ELSE 1
  /\ parental = FALSE /\ saved = FALSE /\ phase = "running" /\ overruns = 0

Running == phase = "running" /\ at > 0

(* Saving takes place when the summary is shown.                           *)
Show(i, list) ==
  /\ at' = i
  /\ saved' = (saved \/ (list[i] = "summary" /\ Contains(list, "account")))

(* gis_assistant_next_page from a page that changes nothing here           *)
NextPage ==
  /\ Running /\ at < Len(pages) /\ pages[at] # "account"
  /\ Show(at + 1, pages)
  /\ UNCHANGED <<system, pages, parental, phase, overruns>>

(* gis_account_page_apply, then the next page                              *)
ApplyAccount(guarded) ==
  /\ Running /\ pages[at] = "account"
  /\ parental' = guarded
  /\ IF guarded = parental THEN UNCHANGED <<pages, phase, overruns>> ELSE Rebuild(guarded)
  /\ IF phase' = "running" /\ at < Len(pages')
     THEN Show(at + 1, pages')
     ELSE UNCHANGED <<at, saved>>
  /\ UNCHANGED system

(* gis_assistant_previous_page; the summary has no way back                *)
PreviousPage ==
  /\ Running /\ at > 1 /\ pages[at] # "summary"
  /\ at' = at - 1
  /\ UNCHANGED <<system, pages, parental, saved, phase, overruns>>

(* language_changed, gis_driver_locale_changed                             *)
ChangeLanguage ==
  /\ Running /\ pages[at] = "language"
  /\ Rebuild(parental)
  /\ UNCHANGED <<system, at, parental, saved>>

(* done_cb of the summary, or the apply of the apps page, which quits      *)
Finish ==
  /\ Running /\ pages[at] \in {"summary", "apps"}
  /\ phase' = "ended"
  /\ UNCHANGED <<system, pages, at, parental, saved, overruns>>

Next ==
  \/ NextPage
  \/ \E guarded \in BOOLEAN : ApplyAccount(guarded)
  \/ PreviousPage
  \/ ChangeLanguage
  \/ Finish

Spec == Init /\ [][Next]_vars

-----------------------------------------------------------------------------
(* Properties.                                                             *)

(* Every variable has its type, and the current page is in the list.       *)
TypeOK ==
  /\ desktop \in Desktops /\ vendor \in Vendors
  /\ {new_user, livepatch, software, parental, saved} \subseteq BOOLEAN
  /\ pages \in Seq(PageId) /\ at \in 0..Len(pages)
  /\ phase \in {"running", "ended", "stopped"}
  /\ overruns \in 0..MaxOverruns

(* On the desktops whose tables the rebuild agrees with, the list is at any*)
(* time the one a start with the choices made so far would build; and      *)
(* whatever table is walked, it holds no page the vendor's file or the mode*)
(* leaves out.                                                             *)
ListIsFresh ==
  LET excluded == vendor.skip \cup (IF new_user THEN vendor.existing_user_only
                                                ELSE vendor.new_user_only)
  IN /\ desktop # "gnome" => pages = Offered(Table(desktop), parental)
     /\ \A id \in ToSet(pages) \ {"welcome"} :
          id \notin excluded /\ (id \in NewUserOnly => new_user)

(* The pages the user has been through, and the one he is on, stay.        *)
SeenStay == [][SubSeq(pages', 1, at) = SubSeq(pages, 1, at)]_vars

(* When the wizard has ended with parental controls enabled, the accounts  *)
(* were saved.                                                             *)
BothAccounts == phase = "ended" /\ parental => saved

=============================================================================
