---------------------------- MODULE GisAssistant ----------------------------
(***************************************************************************)
(* The page stack of GNOME Initial Setup: gis-assistant.c together with    *)
(* the apply protocol of gis-page.c and the page rebuilding that           *)
(* gnome-initial-setup.c performs under it.                                *)
(*                                                                         *)
(* Pages are numbered in the order in which they stand in the page list,   *)
(* so that "the next page" is the next larger number.  The list itself is  *)
(* the set of the numbers present: every append the program makes is at    *)
(* the end.  Number 0 is the NULL page.                                    *)
(*                                                                         *)
(* All handlers run on the GLib main loop, one at a time.  What            *)
(* interleaves is the user (buttons), the pages (validation, visibility)   *)
(* and the end of the one asynchronous apply the program has, the          *)
(* enterprise join of the account page.                                    *)
(***************************************************************************)
EXTENDS Integers

CONSTANTS
  N,             (* number of page positions                               *)
  FirstPages,    (* pages the first rebuild offers                         *)
  SkipLists,     (* the sets of pages the vendor file and the mode may skip*)
  Follow,        (* Follow[p]: the page sets a rebuild may offer when the  *)
                 (* current page is p (several: the walk overran its table)*)
  Overrun,       (* pages from which that walk runs past its table         *)
  Account,       (* the account page, or 0 when the list has none          *)
  UsernamePages, (* pages shown exactly when the driver has a user name    *)
  Hideable,      (* pages that follow the network: goa, network            *)
  ParentalOnly,  (* pages prepared only with parental controls enabled     *)
  Relocale,      (* pages that change the locale: language                 *)
  Confirming,    (* pages that call gis_assistant_next_page themselves     *)
  Dynamic,       (* pages whose validation changes "complete"              *)
  StartComplete, (* pages complete from construction                       *)
  Skippable,     (* pages with the "skippable" property                    *)
  NeedsAccept,   (* pages with the "needs-accept" property                 *)
  HasForward,    (* pages with the "has-forward" property: welcome         *)
  HideNavigation (* pages with the "hide-navigation" property: summary     *)

Page == 1..N

None == 0

ASSUME PageAssumption ==
  /\ N \in Nat
  /\ FirstPages \subseteq Page
  /\ SkipLists \subseteq SUBSET Page
  /\ Follow \in [Page -> SUBSET SUBSET Page]
  /\ \A p \in Page : \A tail \in Follow[p] : \A q \in tail : p < q
  /\ Overrun \subseteq Page

ASSUME KindAssumption ==
  /\ Account \in 0..N
  /\ UsernamePages \subseteq Page
  /\ \A q \in UsernamePages : Account < q
  /\ Hideable \subseteq Page \ (UsernamePages \cup {Account})
  /\ StartComplete \subseteq Page
  /\ Confirming \subseteq Page
  /\ Dynamic \subseteq Page
  /\ Relocale \subseteq Page

(* The page that hides navigation ends every list it stands in, and none   *)
(* of the pages that rebuild the list is such a page.                      *)
ASSUME HideNavigationAssumption ==
  /\ HideNavigation \cap (Relocale \cup {Account}) = {}
  /\ \A h \in HideNavigation :
       \A list \in {FirstPages} \cup UNION {Follow[p] : p \in Page} :
         h \in list => \A q \in list : q <= h

VARIABLES
  pages,     (* assistant->pages                                           *)
  current,   (* assistant->current_page, always the stack's visible child  *)
  shown,     (* the pages whose GtkWidget is visible                       *)
  complete,  (* the pages with priv->complete set                          *)
  apply,     (* priv->applying and the state of priv->apply_cancel         *)
  skip,      (* pages should_skip_page or new_user_only leave out          *)
  parental,  (* driver->parental_controls_enabled                          *)
  ui,        (* the visible and the sensitive widgets of the title bar     *)
  fault,     (* what stopped the process, if anything did                  *)
  critical   (* the g_return_if_fail checks that have fired                *)

vars == <<pages, current, shown, complete, apply, skip, parental, ui, fault, critical>>

-----------------------------------------------------------------------------
(* Title bar widgets.                                                      *)

NextWidget == {"forward", "done", "accept"}

Navigation == NextWidget \cup {"skip"}

Widget == Navigation \cup {"back", "cancel", "spinner"}

IsFirst(p, list) == \A q \in list : p <= q

IsLast(p, list) == \A q \in list : q <= p

NextWidgetOf(p, list) ==
  IF p \in NeedsAccept THEN "accept"
  ELSE IF IsLast(p, list) THEN "done" ELSE "forward"

(* Mistake: one of the buttons of the previous page is left visible.       *)
HideAllButForward(u) ==
  [visible   |-> u.visible \ {"back", "skip", "cancel", "accept"},
   sensitive |-> u.sensitive]

(* update_navigation_buttons on a page that hides navigation.              *)
HideButtons(u) ==
  [visible   |-> u.visible \ {"back", "forward", "skip", "cancel", "accept"},
   sensitive |-> u.sensitive]

(* update_navigation_buttons on page p # NULL.                             *)
NavigationButtons(u, p, list, done) ==
  LET next   == NextWidgetOf(p, list)
      chosen == IF p \notin done /\ p \in Skippable THEN "skip" ELSE next
      hidden == IF p \in HasForward THEN {next} ELSE {}
      back   == IF IsFirst(p, list) THEN {} ELSE {"back"}
  IN  IF p \in HideNavigation
      THEN HideButtons(u)
      ELSE [visible   |-> (u.visible \cap {"cancel", "spinner"})
                            \cup back \cup ({chosen} \ hidden),
            sensitive |-> IF p \in done THEN u.sensitive \cup {next}
                          ELSE IF p \in Skippable THEN u.sensitive
                          ELSE u.sensitive \ {next}]

(* update_applying_state on page p # NULL.                                 *)
ApplyingState(u, p, list, applying) ==
  LET back == IF applying \/ IsFirst(p, list) THEN {} ELSE {"back"}
      busy == IF applying THEN {"cancel", "spinner"} ELSE {}
      able == IF applying THEN {} ELSE {"forward", "done"}
  IN  [visible   |-> (u.visible \ {"back", "cancel", "spinner"}) \cup back \cup busy,
       sensitive |-> (u.sensitive \ {"forward", "done"}) \cup able]

(* Mistake: the apply state of the new page is not looked at.              *)
CurrentPageUiStale(u, p, list, done, applying) ==
  NavigationButtons(u, p, list, done)

(* update_current_page.                                                    *)
CurrentPageUi(u, p, list, done, applying) ==
  NavigationButtons(ApplyingState(u, p, list, applying), p, list, done)

-----------------------------------------------------------------------------
Applying(p) == apply[p] # "idle"

(* The pages the walk of a table adds, of those it offers: the ones that   *)
(* are not skipped and whose prepare function returns a page.              *)
Added(offered, skipped, enabled) ==
  {p \in offered \ skipped : p \in ParentalOnly => enabled}

(* The shown pages after p, and before p, in the list.                     *)
ShownAfter(p, list, vis) == {q \in list \cap vis : p < q}

ShownBefore(p, list, vis) == {q \in list \cap vis : q < p}

Nearest(q, p, set) ==
  /\ q \in set
  /\ \A r \in set : (p < q /\ q <= r) \/ (r <= q /\ q < p)

-----------------------------------------------------------------------------
(* Initial state: gis_driver_startup has shown the assistant its first     *)
(* pages.  GtkStack makes the first shown child it is given its visible    *)
(* child, at a time when no later page is in the list; the page that       *)
(* follows it then updates the buttons again.                              *)

Template == [visible |-> {"back"}, sensitive |-> NextWidget]

FirstUi(p, list, done) ==
  LET alone == CurrentPageUi(Template, p, {q \in list : q <= p}, done, FALSE)
  IN  IF IsLast(p, list) THEN alone ELSE NavigationButtons(alone, p, list, done)

Init ==
  /\ skip \in SkipLists
  /\ pages = Added(FirstPages, skip, FALSE)
  /\ \E hidden \in SUBSET Hideable : shown = Page \ hidden
  /\ complete = StartComplete
  /\ LET visible == ShownAfter(None, pages, shown)
     IN  \/ /\ visible = {}
            /\ current = None
            /\ ui = Template
         \/ /\ visible # {}
            /\ current \in {p \in visible : Nearest(p, None, visible)}
            /\ ui = FirstUi(current, pages, complete)
  /\ apply = [p \in Page |-> "idle"]
  /\ parental = FALSE
  /\ fault = "none"
  /\ critical = {}

(* Mistake: the pages before the current one are destroyed as well.        *)
RebuiltAround(p, enabled) ==
  \E tail \in Follow[p], hidden \in SUBSET {q \in Hideable : p < q} :
    /\ pages' = {q \in pages : q = p} \cup Added(tail, skip, enabled)
    /\ shown' = {q \in Page : q \in shown \/ p < q} \ hidden
    /\ complete' = {q \in complete : q <= p} \cup {q \in StartComplete : p < q}

(* What a rebuild leaves when the current page is p: destroy_pages_after   *)
(* and the walk of the page table.                                         *)
Rebuilt(p, enabled) ==
  \E tail \in Follow[p], hidden \in SUBSET {q \in Hideable : p < q} :
    /\ pages' = {q \in pages : q <= p} \cup Added(tail, skip, enabled)
    /\ shown' = {q \in Page : q \in shown \/ p < q} \ hidden
    /\ complete' = {q \in complete : q <= p} \cup {q \in StartComplete : p < q}

(* Mistake: gis_assistant_add_page does not update the buttons.            *)
RebuiltUiStale(p, list, done) == ui

(* The first page added after p updates the buttons, those further on do   *)
(* not, and a rebuild that adds none leaves them as they are.              *)
RebuiltUi(p, list, done) ==
  IF IsLast(p, list) THEN ui ELSE NavigationButtons(ui, p, list, done)

-----------------------------------------------------------------------------
(* Moving forward.                                                         *)

(* switch_to_next_page and the update_current_page it causes, in the state *)
(* list, vis, done, applying and with the title bar u.                     *)
SwitchToNext(list, vis, done, applying, u) ==
  LET after == ShownAfter(current, list, vis)
  IN  \/ /\ after = {}
         /\ current' = current
         /\ ui' = u
      \/ \E q \in after :
           /\ Nearest(q, current, after)
           /\ current' = q
           /\ ui' = CurrentPageUi(u, q, list, done, applying[q] # "idle")

(* Mistake: the apply in progress is taken for a finished one.             *)
ApplyAgainMovesOn ==
  /\ Applying(current)
  /\ SwitchToNext(pages, shown, complete, apply, ui)
  /\ UNCHANGED <<pages, shown, complete, apply, parental, fault, critical>>

(* gis_page_apply_begin while priv->applying: g_return_if_fail.            *)
ApplyAgain ==
  /\ Applying(current)
  /\ critical' = critical \cup {"applying"}
  /\ UNCHANGED <<pages, current, shown, complete, apply, parental, ui, fault>>

(* gis_page_apply_begin on a page whose apply returns FALSE: applying is   *)
(* raised and dropped in the same call, the callback switches page.        *)
ApplyAtOnce ==
  /\ current # Account
  /\ ~Applying(current)
  /\ SwitchToNext(pages, shown, complete, apply,
                  ApplyingState(ui, current, pages, FALSE))
  /\ UNCHANGED <<pages, shown, complete, apply, parental, fault, critical>>

(* gis_account_page_local_apply: the user name shows the password page,    *)
(* which validates again; a changed parental control choice rebuilds the   *)
(* pages that follow; the apply completes at once.                         *)
ApplyLocal(enabled) ==
  /\ current = Account
  /\ ~Applying(current)
  /\ parental' = enabled
  /\ \/ /\ enabled # parental
        /\ Rebuilt(current, enabled)
     \/ /\ enabled = parental
        /\ shown' = shown \cup UsernamePages
        /\ \E ok \in SUBSET UsernamePages :
             complete' = (complete \ UsernamePages) \cup ok
        /\ UNCHANGED pages
  /\ LET u == IF enabled = parental THEN ui ELSE RebuiltUi(current, pages', complete')
     IN  SwitchToNext(pages', shown', complete', apply,
                      ApplyingState(u, current, pages', FALSE))
  /\ UNCHANGED <<apply, fault, critical>>

(* gis_account_page_enterprise_apply: parental controls are switched off,  *)
(* which may rebuild the pages, and the join goes on after the return.     *)
ApplyEnterprise ==
  /\ current = Account
  /\ ~Applying(current)
  /\ parental' = FALSE
  /\ IF parental THEN Rebuilt(current, FALSE)
                 ELSE UNCHANGED <<pages, shown, complete>>
  /\ LET u == IF parental THEN RebuiltUi(current, pages', complete') ELSE ui
     IN  ui' = ApplyingState(u, current, pages', TRUE)
  /\ apply' = [apply EXCEPT ![current] = "applying"]
  /\ UNCHANGED <<current, fault, critical>>

(* gis_assistant_next_page.                                                *)
NextPage ==
  \/ ApplyAgain
  \/ ApplyAtOnce
  \/ \E enabled \in BOOLEAN : ApplyLocal(enabled)
  \/ ApplyEnterprise

(* A click on one of the buttons connected to go_forward.                  *)
ClickForward ==
  /\ \E w \in Navigation \cap ui.visible : w \in ui.sensitive \cup {"skip"}
  /\ current # None
  /\ NextPage

(* A page that confirms itself: Enter in an entry, a row activated, the    *)
(* button of the welcome page; the account page does so for a local user.  *)
Confirm(p) ==
  /\ p = current
  /\ p \in complete
  /\ ~Applying(p)
  /\ ApplyAtOnce \/ \E enabled \in BOOLEAN : ApplyLocal(enabled)

(* enterprise_apply_complete and, through gis_page_apply_complete,         *)
(* on_apply_done: the page that is current then is left, which need not be *)
(* the page that was applied.                                              *)
EnterpriseDone(valid) ==
  /\ Account # None
  /\ Applying(Account)
  /\ apply' = [apply EXCEPT ![Account] = "idle"]
  /\ shown' = shown \ UsernamePages
  /\ \E ok \in SUBSET UsernamePages :
       complete' = (complete \ UsernamePages) \cup ok
  /\ LET u == IF current = Account
              THEN ApplyingState(ui, current, pages, FALSE) ELSE ui
     IN  IF valid THEN SwitchToNext(pages, shown', complete', apply', u)
                  ELSE ui' = u /\ UNCHANGED current
  /\ UNCHANGED <<pages, parental, fault, critical>>

-----------------------------------------------------------------------------
(* The other buttons.                                                      *)

(* gis_assistant_previous_page.                                            *)
ClickBack ==
  /\ "back" \in ui.visible
  /\ LET before == ShownBefore(current, pages, shown)
     IN  \/ /\ current = None
            /\ critical' = critical \cup {"no current page"}
            /\ UNCHANGED <<current, ui>>
         \/ /\ current # None
            /\ before = {}
            /\ critical' = critical \cup {"no previous page"}
            /\ UNCHANGED <<current, ui>>
         \/ \E q \in before :
              /\ Nearest(q, current, before)
              /\ current' = q
              /\ ui' = CurrentPageUi(ui, q, pages, complete, Applying(q))
              /\ UNCHANGED critical
  /\ UNCHANGED <<pages, shown, complete, apply, parental, fault>>

(* do_cancel: gis_page_apply_cancel on the current page.                   *)
ClickCancel ==
  /\ "cancel" \in ui.visible
  /\ current # None
  /\ apply' = [apply EXCEPT ![current] = IF @ = "idle" THEN @ ELSE "cancelling"]
  /\ UNCHANGED <<pages, current, shown, complete, parental, ui, fault, critical>>

-----------------------------------------------------------------------------
(* Events that reach a page.                                               *)

(* A page's validation: gis_page_set_complete notifies, changed or not.    *)
Validate(p, ok) ==
  /\ p \in pages \cap Dynamic
  /\ complete' = IF ok THEN complete \cup {p} ELSE complete \ {p}
  /\ ui' = IF p = current THEN NavigationButtons(ui, p, pages, complete') ELSE ui
  /\ UNCHANGED <<pages, current, shown, apply, parental, fault, critical>>

(* Mistake: a page hides although it is the current one.                   *)
MayHideAnyway(p) == TRUE

(* A page that follows the network hides only when it is not current.      *)
MayHide(p) == p # current

(* sync_accounts and sync_visibility of the goa page, sync_complete of the *)
(* network page: visibility and "complete" change, and the current page    *)
(* stays visible.  The stack takes a shown page when it has none.          *)
Refresh(p, visible, ok) ==
  /\ p \in pages \cap Hideable
  /\ visible \/ MayHide(p)
  /\ shown' = IF visible THEN shown \cup {p} ELSE shown \ {p}
  /\ complete' = IF ok THEN complete \cup {p} ELSE complete \ {p}
  /\ \/ /\ current = None /\ visible
        /\ current' = p
        /\ ui' = CurrentPageUi(ui, p, pages, complete', FALSE)
     \/ /\ current # None \/ ~visible
        /\ ui' = IF p = current THEN NavigationButtons(ui, p, pages, complete') ELSE ui
        /\ UNCHANGED current
  /\ UNCHANGED <<pages, apply, parental, fault, critical>>

(* small_screen_changed: the driver's notification reaches every page, and *)
(* the assistant acts on the current one's.                                *)
ScreenChange ==
  /\ current # None
  /\ ui' = NavigationButtons(ui, current, pages, complete)
  /\ UNCHANGED <<pages, current, shown, complete, apply, parental, fault, critical>>

(* language_changed, gis_driver_locale_changed, rebuild_pages_cb.  A       *)
(* destroyed page is finalized, and gis_page_finalize asserts that it is   *)
(* not applying.  Where the walk overruns its table, the process may also  *)
(* be stopped by what it reads there.                                      *)
ChangeLocale(p) ==
  /\ p = current
  /\ p \in Relocale
  /\ IF \E q \in pages : p < q /\ Applying(q)
     THEN /\ fault' = "finalized while applying"
          /\ UNCHANGED <<pages, shown, complete, ui>>
     ELSE \/ /\ p \in Overrun
             /\ fault' = "table overrun"
             /\ UNCHANGED <<pages, shown, complete, ui>>
          \/ /\ Rebuilt(p, parental)
             /\ ui' = RebuiltUi(p, pages', complete')
             /\ UNCHANGED fault
  /\ UNCHANGED <<current, apply, parental, critical>>

(* Whatever runs, the vendor file and the mode stay as they were read.     *)
Running ==
  \/ ClickForward
  \/ \E p \in Confirming : Confirm(p)
  \/ \E valid \in BOOLEAN : EnterpriseDone(valid)
  \/ ClickBack
  \/ ClickCancel
  \/ \E p \in Dynamic, ok \in BOOLEAN : Validate(p, ok)
  \/ \E p \in Hideable, visible, ok \in BOOLEAN : Refresh(p, visible, ok)
  \/ ScreenChange
  \/ \E p \in Relocale : ChangeLocale(p)

Next ==
  /\ fault = "none"
  /\ Running
  /\ UNCHANGED skip

Spec == Init /\ [][Next]_vars

-----------------------------------------------------------------------------
(* Properties.                                                             *)

(* Every variable has its type: in particular the pages whose flags are    *)
(* kept are pages, and the title bar holds only its own widgets.           *)
TypeOK ==
  /\ pages \in SUBSET Page
  /\ current \in 0..N
  /\ shown \in SUBSET Page
  /\ complete \in SUBSET Page
  /\ apply \in [Page -> {"idle", "applying", "cancelling"}]
  /\ skip \in SUBSET Page
  /\ parental \in BOOLEAN
  /\ ui \in [visible : SUBSET Widget, sensitive : SUBSET NextWidget]
  /\ fault \in {"none", "finalized while applying", "table overrun"}
  /\ critical \in SUBSET {"applying", "no current page", "no previous page"}

(* The current page stands in the list and can be seen, and there is one   *)
(* as soon as the list holds a page that can be seen: pages that hide      *)
(* themselves when the network or the user name goes never hide under the  *)
(* user, and a rebuild never takes the page it was started from.           *)
CurrentIsShown ==
  IF current = None THEN pages \cap shown = {} ELSE current \in pages \cap shown

(* The spinner turns exactly while the page in front of the user is being  *)
(* applied, whichever way the user came to it, and Cancel is offered with  *)
(* it: what the title bar says of an apply is never left over from another *)
(* page.                                                                   *)
BusyMatchesCurrentPage ==
  LET busy == current # None /\ Applying(current)
  IN  /\ "spinner" \in ui.visible <=> busy
      /\ "cancel" \in ui.visible => busy
      /\ busy /\ current \notin HideNavigation => "cancel" \in ui.visible

(* There is one way forward from a page, never two: one of Next, Done,     *)
(* Accept and Skip is visible, and none on a page that hides navigation.   *)
OneWayForward ==
  LET offered == Navigation \cap ui.visible
  IN  /\ \A v, w \in offered : v = w
      /\ current # None /\ current \notin HideNavigation \cup HasForward
            => offered # {}
      /\ current \in HideNavigation => offered = {}

(* "Done" is offered only when the list ends with the current page, and    *)
(* "Previous" only when it does not begin with it, however often the list  *)
(* is rebuilt around that page.                                            *)
ButtonsMatchPosition ==
  current # None =>
    /\ "done" \in ui.visible => IsLast(current, pages)
    /\ "back" \in ui.visible => ~IsFirst(current, pages)

(* The title bar agrees with the page under it, in all of these.           *)
TitleBarAgrees == BusyMatchesCurrentPage /\ OneWayForward /\ ButtonsMatchPosition

(* The user can go back from a page that is being applied but is never     *)
(* past it: the account exists before any later page is seen.              *)
NeverPastApplyingPage ==
  \A p \in Page : Applying(p) => p = Account /\ p \in pages /\ current <= p

(* A move between pages, forward or back, leaves out no page that could be *)
(* seen, whatever shows, hides or is rebuilt in the same step.             *)
Between(q, p, r) == (p < q /\ q < r) \/ (r < q /\ q < p)

NoShownPageJumped ==
  [][current # None => \A q \in pages' \cap shown' : ~Between(q, current, current')]_vars

(* gis-page.c asserts in gis_page_finalize that no page is finalized while *)
(* it is applying.                                                         *)
NotFinalizedWhileApplying == fault # "finalized while applying"

(* The page stack is the wizard that its user is promised.                 *)
Stack == INSTANCE Wizard WITH
  OwnWill <- Hideable,
  Slow    <- Account,
  front   <- current,
  list    <- pages \cap shown,
  busy    <- IF Account # None /\ Applying(Account) THEN Account ELSE None

(* The user moves one page at a time along a list that changes behind the  *)
(* page in front of him only, whatever rebuilds it or shows and hides its  *)
(* pages, and leaves a page that is being applied backwards only: every    *)
(* step of the assistant is one of the wizard's, or shows nothing.         *)
WizardSpec == Stack!Spec

=============================================================================
