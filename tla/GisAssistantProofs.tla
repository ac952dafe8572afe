------------------------- MODULE GisAssistantProofs -------------------------
(***************************************************************************)
(* Proofs about the page stack, for every page list, every set of page     *)
(* kinds and every table walk the assumptions of GisAssistant allow.       *)
(***************************************************************************)
EXTENDS GisAssistant, TLAPS

USE DEF None

(* Positions are positive numbers, and the current page is one of them or  *)
(* NULL.                                                                   *)
LEMMA Positions ==
  /\ \A p \in Page : p \in Int /\ 0 < p
  /\ \A p : p \in 0..N <=> p \in Page \/ p = 0
  BY PageAssumption DEF PageAssumption, Page

-----------------------------------------------------------------------------
(* The title bar.                                                          *)

Ui == [visible : SUBSET Widget, sensitive : SUBSET NextWidget]

(* What the title bar shows, when page p stands in list and is applying or *)
(* not as busy says: the three properties of the title bar in one.         *)
Fits(u, p, list, busy) ==
  /\ "spinner" \in u.visible <=> busy
  /\ "cancel" \in u.visible => busy
  /\ busy /\ p \notin HideNavigation => "cancel" \in u.visible
  /\ \A v, w \in Navigation \cap u.visible : v = w
  /\ p \notin HideNavigation \cup HasForward => Navigation \cap u.visible # {}
  /\ p \in HideNavigation => Navigation \cap u.visible = {}
  /\ "done" \in u.visible => IsLast(p, list)
  /\ "back" \in u.visible => ~IsFirst(p, list)

(* update_navigation_buttons and update_applying_state only ever show and  *)
(* enable widgets the title bar has.                                       *)
LEMMA NavigationButtonsType ==
  ASSUME NEW u \in Ui, NEW p, NEW list, NEW done
  PROVE  NavigationButtons(u, p, list, done) \in Ui
  BY DEF NavigationButtons, HideButtons, NextWidgetOf, Ui, Widget, Navigation, NextWidget

(* update_applying_state, too, leaves a title bar of its own widgets.      *)
LEMMA ApplyingStateType ==
  ASSUME NEW u \in Ui, NEW p, NEW list, NEW applying
  PROVE  ApplyingState(u, p, list, applying) \in Ui
  BY DEF ApplyingState, Ui, Widget, Navigation, NextWidget

(* update_navigation_buttons makes the title bar fit a new list, whatever  *)
(* list it fitted before: this is why add_page calls it.                   *)
LEMMA NavigationButtonsFit ==
  ASSUME NEW u \in Ui, NEW p, NEW list, NEW done, NEW busy \in BOOLEAN,
         "spinner" \in u.visible <=> busy,
         "cancel" \in u.visible => busy,
         busy /\ p \notin HideNavigation => "cancel" \in u.visible,
         p \in HideNavigation => "done" \notin u.visible
  PROVE  Fits(NavigationButtons(u, p, list, done), p, list, busy)
<1>1. CASE p \in HideNavigation
  BY <1>1 DEF Fits, NavigationButtons, HideButtons, Ui, Widget, Navigation, NextWidget
<1>2. CASE p \notin HideNavigation
  <2> DEFINE next == NextWidgetOf(p, list)
             chosen == IF p \notin done /\ p \in Skippable THEN "skip" ELSE next
             hidden == IF p \in HasForward THEN {next} ELSE {}
             back == IF IsFirst(p, list) THEN {} ELSE {"back"}
             v == NavigationButtons(u, p, list, done)
  <2>1. v.visible = (u.visible \cap {"cancel", "spinner"}) \cup back \cup ({chosen} \ hidden)
    BY <1>2 DEF NavigationButtons
  <2>2. next \in NextWidget /\ (next = "done" => IsLast(p, list))
    BY DEF NextWidgetOf, NextWidget
  <2>3. chosen \in Navigation /\ (chosen = "done" => IsLast(p, list))
    BY <2>2 DEF Navigation, NextWidget
  <2> HIDE DEF next
  <2>4. Navigation \cap v.visible = {chosen} \ hidden
    BY <2>1, <2>3 DEF Navigation, NextWidget
  <2> HIDE DEF chosen
  <2>5. "back" \in v.visible => ~IsFirst(p, list)
    BY <2>1, <2>3 DEF Navigation, NextWidget
  <2>6. /\ "spinner" \in v.visible <=> busy
        /\ "cancel" \in v.visible => busy
        /\ busy /\ p \notin HideNavigation => "cancel" \in v.visible
    BY <2>1, <2>3 DEF Navigation, NextWidget
  <2>7. p \notin HasForward => {chosen} \ hidden # {}
    OBVIOUS
  <2>8. "done" \in v.visible => IsLast(p, list)
    BY <2>3, <2>4 DEF Navigation, NextWidget
  <2> QED
    BY <1>2, <2>4, <2>5, <2>6, <2>7, <2>8 DEF Fits
<1> QED
  BY <1>1, <1>2

(* update_applying_state keeps the title bar fitting.                      *)
LEMMA ApplyingStateFits ==
  ASSUME NEW u \in Ui, NEW p, NEW list, NEW b0, NEW busy \in BOOLEAN,
         Fits(u, p, list, b0)
  PROVE  Fits(ApplyingState(u, p, list, busy), p, list, busy)
  BY DEF Fits, ApplyingState, Ui, Widget, Navigation, NextWidget

(* update_current_page makes the title bar fit the new page, if "Done" was *)
(* not left visible for a page that hides navigation.                      *)
LEMMA CurrentPageUiFits ==
  ASSUME NEW u \in Ui, NEW p, NEW list, NEW done, NEW busy \in BOOLEAN,
         p \in HideNavigation => "done" \notin u.visible
  PROVE  /\ Fits(CurrentPageUi(u, p, list, done, busy), p, list, busy)
         /\ CurrentPageUi(u, p, list, done, busy) \in Ui
<1> DEFINE v == ApplyingState(u, p, list, busy)
<1>1. v \in Ui
  BY ApplyingStateType
<1>2. /\ "spinner" \in v.visible <=> busy
      /\ "cancel" \in v.visible <=> busy
      /\ "done" \in v.visible => "done" \in u.visible
  BY DEF ApplyingState
<1> HIDE DEF v
<1>3. Fits(NavigationButtons(v, p, list, done), p, list, busy)
  BY <1>1, <1>2, NavigationButtonsFit
<1> QED
  BY <1>1, <1>3, NavigationButtonsType DEF CurrentPageUi, v

-----------------------------------------------------------------------------
(* The inductive invariant.  The properties are not inductive by           *)
(* themselves: that the buttons match the position needs the pages that    *)
(* hide navigation to end the list, and that a hidden password page is not *)
(* the current one needs the current page never to be past the account     *)
(* page while that is applying.                                            *)

TitleBarFits ==
  IF current = None
  THEN ui.visible = {"back"}
  ELSE Fits(ui, current, pages, Applying(current))

AccountShown == Account # None => Account \in shown

HideNavigationLast == \A h \in HideNavigation \cap pages : \A q \in pages : q <= h

IInv ==
  /\ TypeOK
  /\ CurrentIsShown
  /\ TitleBarFits
  /\ NeverPastApplyingPage
  /\ AccountShown
  /\ HideNavigationLast

(* The title bar of a well-typed state is one.                             *)
LEMMA TypeOKUi == TypeOK => ui \in Ui
  BY DEF TypeOK, Ui

(* The walk of a page table offers pages, and a list that holds a page     *)
(* which hides navigation ends with it.                                    *)
LEMMA AddedIsLast ==
  ASSUME NEW offered \in {FirstPages} \cup UNION {Follow[p] : p \in Page},
         NEW skipped, NEW enabled
  PROVE  /\ Added(offered, skipped, enabled) \subseteq Page
         /\ \A h \in HideNavigation \cap Added(offered, skipped, enabled) :
              \A q \in Added(offered, skipped, enabled) : q <= h
<1>1. offered \in SUBSET Page
  BY PageAssumption
<1> QED
  BY <1>1, HideNavigationAssumption DEF Added

(* gis_driver_startup leaves the first shown page of the first list in     *)
(* front of the user, and a title bar that fits it.                        *)
LEMMA InitInv == Init => IInv
<1> SUFFICES ASSUME Init PROVE IInv
  OBVIOUS
<1> USE PageAssumption, KindAssumption, Positions DEF PageAssumption, KindAssumption
<1> DEFINE visible == ShownAfter(None, pages, shown)
<1>1. /\ pages \in SUBSET Page
      /\ HideNavigationLast
  BY AddedIsLast DEF Init, HideNavigationLast
<1>2. shown \in SUBSET Page /\ AccountShown
  BY DEF Init, AccountShown
<1>3. visible = pages \cap shown
  BY <1>1 DEF ShownAfter
<1>4. Template \in Ui /\ "done" \notin Template.visible
  BY DEF Template, Ui, Widget, Navigation, NextWidget
<1>5. CASE visible = {}
  <2>1. current = None /\ ui = Template
    BY <1>5 DEF Init
  <2>2. TypeOK
    BY <2>1, <1>1, <1>2, <1>4 DEF Init, TypeOK, Ui
  <2> QED
    BY <1>1, <1>2, <1>3, <1>5, <2>1, <2>2
    DEF Init, IInv, CurrentIsShown, TitleBarFits, NeverPastApplyingPage, Applying, Template
<1>6. CASE visible # {}
  <2>1. current \in visible /\ ui = FirstUi(current, pages, complete)
    BY <1>6 DEF Init
  <2>2. current \in Page /\ current # None
    BY <2>1, <1>1, <1>3
  <2> DEFINE alone == {q \in pages : q <= current}
             u == CurrentPageUi(Template, current, alone, complete, FALSE)
  <2>3. Fits(u, current, alone, FALSE) /\ u \in Ui
    BY <1>4, CurrentPageUiFits
  <2> HIDE DEF u
  <2>6. Fits(ui, current, pages, FALSE) /\ ui \in Ui
    <3>1. CASE IsLast(current, pages)
      <4>1. alone = pages
        BY <3>1 DEF IsLast
      <4> QED
        BY <2>1, <2>3, <3>1, <4>1 DEF FirstUi, u
    <3>2. CASE ~IsLast(current, pages)
      <4>1. current \notin HideNavigation
        BY <2>1, <3>2, <1>1, <1>3 DEF HideNavigationLast, IsLast
      <4>2. Fits(NavigationButtons(u, current, pages, complete), current, pages, FALSE)
        BY <2>3, <4>1, NavigationButtonsFit DEF Fits
      <4> QED
        BY <2>1, <2>3, <3>2, <4>2, NavigationButtonsType DEF FirstUi, u
    <3> QED
      BY <3>1, <3>2
  <2>7. TypeOK
    BY <2>2, <2>6, <1>1, <1>2 DEF Init, TypeOK, Ui
  <2> QED
    BY <1>1, <1>2, <1>3, <2>1, <2>2, <2>6, <2>7
    DEF Init, IInv, CurrentIsShown, TitleBarFits, NeverPastApplyingPage, Applying
<1> QED
  BY <1>5, <1>6

-----------------------------------------------------------------------------
(* What the shared parts of the handlers preserve.                         *)

(* A rebuild keeps the current page in front of the user, leaves a list    *)
(* that ends with its page that hides navigation, and a fitting title bar. *)
LEMMA RebuiltInv ==
  ASSUME IInv, current \in Page \ HideNavigation, NEW enabled \in BOOLEAN,
         Rebuilt(current, enabled)
  PROVE  /\ pages' \in SUBSET Page
         /\ shown' \in SUBSET Page
         /\ complete' \in SUBSET Page
         /\ current \in pages' \cap shown'
         /\ \A q \in pages : q <= current => q \in pages'
         /\ (\A h \in HideNavigation \cap pages' : \A q \in pages' : q <= h)
         /\ Account # None => Account \in shown'
         /\ Fits(RebuiltUi(current, pages', complete'), current, pages', Applying(current))
         /\ RebuiltUi(current, pages', complete') \in Ui
<1> USE PageAssumption, KindAssumption, Positions DEF PageAssumption, KindAssumption
<1>1. PICK tail \in Follow[current], hidden \in SUBSET {q \in Hideable : current < q} :
        /\ pages' = {q \in pages : q <= current} \cup Added(tail, skip, enabled)
        /\ shown' = {q \in Page : q \in shown \/ current < q} \ hidden
        /\ complete' = {q \in complete : q <= current}
                          \cup {q \in StartComplete : current < q}
  BY DEF Rebuilt
<1>2. /\ pages \in SUBSET Page /\ complete \in SUBSET Page
      /\ current \in pages \cap shown
      /\ Fits(ui, current, pages, Applying(current)) /\ ui \in Ui
  <2>1. current # None
    OBVIOUS
  <2>2. ui \in Ui /\ pages \in SUBSET Page /\ complete \in SUBSET Page
    BY TypeOKUi DEF IInv, TypeOK
  <2>3. current \in pages \cap shown
    BY <2>1 DEF IInv, CurrentIsShown
  <2>4. Fits(ui, current, pages, Applying(current))
    BY <2>1 DEF IInv, TitleBarFits
  <2> QED
    BY <2>2, <2>3, <2>4
<1>3. tail \in {FirstPages} \cup UNION {Follow[q] : q \in Page}
  BY <1>1
<1>4. /\ Added(tail, skip, enabled) \subseteq Page
      /\ \A h \in HideNavigation \cap Added(tail, skip, enabled) :
           \A q \in Added(tail, skip, enabled) : q <= h
  BY <1>3, AddedIsLast
<1>5. \A q \in Added(tail, skip, enabled) : current < q
  BY <1>1 DEF Added
<1>6. /\ pages' \in SUBSET Page
      /\ shown' \in SUBSET Page
      /\ complete' \in SUBSET Page
      /\ \A q \in pages : q <= current => q \in pages'
  BY <1>1, <1>2, <1>4
<1>7. current \in pages' \cap shown'
  BY <1>1, <1>2
<1>8. \A h \in HideNavigation \cap pages' : \A q \in pages' : q <= h
  <2> TAKE h \in HideNavigation \cap pages'
  <2>1. h \notin pages \/ ~(h <= current)
    <3> SUFFICES ASSUME h \in pages, h <= current PROVE FALSE
      OBVIOUS
    <3>1. current <= h
      BY <1>2 DEF IInv, HideNavigationLast
    <3> QED
      BY <3>1, <1>6
  <2>2. h \in Added(tail, skip, enabled)
    BY <2>1, <1>1
  <2> TAKE q \in pages'
  <2> QED
    BY <2>2, <1>1, <1>2, <1>4, <1>5
<1>9. Account # None => Account \in shown'
  BY <1>1, <1>2 DEF IInv, AccountShown
<1>10. CASE IsLast(current, pages')
  <2>1. IsFirst(current, pages') => IsFirst(current, pages)
    BY <1>2, <1>6 DEF IsFirst
  <2> QED
    BY <1>2, <1>6, <1>7, <1>8, <1>9, <1>10, <2>1 DEF RebuiltUi, Fits
<1>11. CASE ~IsLast(current, pages')
  <2>1. Applying(current) \in BOOLEAN
    BY DEF Applying
  <2>2. Fits(NavigationButtons(ui, current, pages', complete'), current, pages', Applying(current))
    BY <1>2, <2>1, NavigationButtonsFit DEF Fits
  <2> QED
    BY <1>2, <1>6, <1>7, <1>8, <1>9, <1>11, <2>2, NavigationButtonsType DEF RebuiltUi
<1> QED
  BY <1>10, <1>11

(* switch_to_next_page lands on a page that can be seen, never past one    *)
(* that is applying, and the title bar fits that page.                     *)
LEMMA SwitchToNextInv ==
  ASSUME NEW list \in SUBSET Page, NEW vis \in SUBSET Page, NEW done,
         NEW state, NEW u \in Ui,
         current \in list \cap vis,
         state[current] = "idle",
         \A p \in Page : state[p] # "idle" => p \in list \cap vis /\ current <= p,
         \A h \in HideNavigation \cap list : \A q \in list : q <= h,
         Fits(u, current, list, FALSE),
         SwitchToNext(list, vis, done, state, u)
  PROVE  /\ current' \in list \cap vis
         /\ \A p \in Page : state[p] # "idle" => current' <= p
         /\ Fits(ui', current', list, state[current'] # "idle")
         /\ ui' \in Ui
<1> USE Positions
<1> DEFINE after == ShownAfter(current, list, vis)
<1>1. CASE current' = current /\ ui' = u
  BY <1>1
<1>2. ASSUME NEW q \in after, Nearest(q, current, after), current' = q,
             ui' = CurrentPageUi(u, q, list, done, state[q] # "idle")
      PROVE  /\ current' \in list \cap vis
             /\ \A p \in Page : state[p] # "idle" => current' <= p
             /\ Fits(ui', current', list, state[current'] # "idle")
             /\ ui' \in Ui
  <2>1. q \in list \cap vis /\ current < q
    BY DEF ShownAfter
  <2>2. ASSUME NEW p \in Page, state[p] # "idle" PROVE q <= p
    <3>1. p \in list \cap vis /\ current < p
      BY <2>2
    <3> QED
      BY <3>1, <2>1, <1>2 DEF Nearest, ShownAfter
  <2>3. "done" \notin u.visible
    BY <2>1 DEF Fits, IsLast
  <2>4. Fits(ui', q, list, state[q] # "idle") /\ ui' \in Ui
    BY <1>2, <2>3, CurrentPageUiFits
  <2> QED
    BY <1>2, <2>1, <2>2, <2>4
<1> QED
  BY <1>1, <1>2 DEF SwitchToNext

-----------------------------------------------------------------------------
(* The invariant is preserved, handler by handler.                         *)

(* What the invariant says while a page is in front of the user.           *)
LEMMA OnAPage ==
  ASSUME IInv, current # None
  PROVE  /\ current \in pages \cap shown
         /\ current \in Page
         /\ Fits(ui, current, pages, Applying(current))
         /\ ui \in Ui
<1>1. current \in pages \cap shown
  BY DEF IInv, CurrentIsShown
<1>2. Fits(ui, current, pages, Applying(current))
  BY DEF IInv, TitleBarFits
<1> QED
  BY <1>1, <1>2, TypeOKUi DEF IInv, TypeOK

(* Only the account page applies over several steps, and it stays shown.   *)
LEMMA ApplyingIsAccount ==
  ASSUME IInv, NEW p \in Page, apply[p] # "idle"
  PROVE  p = Account /\ p \in pages \cap shown /\ current <= p
<1>1. p = Account /\ p \in pages /\ current <= p
  BY DEF IInv, NeverPastApplyingPage, Applying
<1>2. Account # None
  BY <1>1, Positions
<1> QED
  BY <1>1, <1>2 DEF IInv, AccountShown

(* Conversely, what must be shown of a step that ends on a page.           *)
LEMMA EndsOnAPage ==
  ASSUME TypeOK', current' # None,
         current' \in pages' \cap shown',
         Fits(ui', current', pages', apply'[current'] # "idle"),
         NeverPastApplyingPage', AccountShown', HideNavigationLast'
  PROVE  IInv'
  BY DEF IInv, CurrentIsShown, TitleBarFits, Applying

(* gis_page_apply_begin on a page that is applied in the same call.        *)
LEMMA ApplyAtOnceInv ==
  ASSUME IInv, current # None, ApplyAtOnce, UNCHANGED skip
  PROVE  IInv'
<1> USE Positions
<1>1. /\ current \in pages \cap shown
      /\ current \in Page
      /\ Fits(ui, current, pages, Applying(current))
      /\ ui \in Ui
  BY OnAPage
<1> DEFINE u == ApplyingState(ui, current, pages, FALSE)
<1>2. Fits(u, current, pages, FALSE) /\ u \in Ui
  BY <1>1, ApplyingStateFits, ApplyingStateType
<1>3. /\ current # Account /\ apply[current] = "idle"
      /\ SwitchToNext(pages, shown, complete, apply, u)
      /\ UNCHANGED <<pages, shown, complete, apply, parental, fault, critical>>
  BY DEF ApplyAtOnce, Applying
<1> HIDE DEF u
<1>4. /\ pages \in SUBSET Page /\ shown \in SUBSET Page
      /\ \A p \in Page : apply[p] # "idle" => p = Account /\ p \in pages \cap shown /\ current <= p
      /\ \A h \in HideNavigation \cap pages : \A q \in pages : q <= h
  BY ApplyingIsAccount DEF IInv, TypeOK, HideNavigationLast
<1>5. /\ current' \in pages \cap shown
      /\ \A p \in Page : apply[p] # "idle" => current' <= p
      /\ Fits(ui', current', pages, apply[current'] # "idle")
      /\ ui' \in Ui
  BY <1>1, <1>2, <1>3, <1>4, SwitchToNextInv, ZenonT(60)
<1>6. current' \in Page /\ current' # None
  BY <1>4, <1>5
<1>7. TypeOK'
  BY <1>3, <1>5, <1>6 DEF IInv, TypeOK, Ui
<1>8. NeverPastApplyingPage'
  BY <1>3, <1>4, <1>5 DEF NeverPastApplyingPage, Applying
<1>9. AccountShown' /\ HideNavigationLast'
  BY <1>3 DEF IInv, AccountShown, HideNavigationLast
<1> QED
  BY <1>3, <1>5, <1>6, <1>7, <1>8, <1>9, EndsOnAPage

(* gis_account_page_local_apply: the password page appears, the pages that *)
(* follow may be rebuilt, and the page found then is in front of the user. *)
LEMMA ApplyLocalInv ==
  ASSUME IInv, current # None, NEW enabled \in BOOLEAN, ApplyLocal(enabled), UNCHANGED skip
  PROVE  IInv'
<1> USE Positions, PageAssumption, KindAssumption, HideNavigationAssumption
    DEF PageAssumption, KindAssumption, HideNavigationAssumption
<1>1. /\ current \in pages \cap shown
      /\ current \in Page
      /\ Fits(ui, current, pages, Applying(current))
      /\ ui \in Ui
  BY OnAPage
<1> DEFINE u0 == IF enabled = parental THEN ui ELSE RebuiltUi(current, pages', complete')
           u == ApplyingState(u0, current, pages', FALSE)
<1>2. /\ current = Account /\ apply[current] = "idle" /\ parental' = enabled
      /\ SwitchToNext(pages', shown', complete', apply, u)
      /\ UNCHANGED <<apply, fault, critical>>
  BY DEF ApplyLocal, Applying
<1>3. \A p \in Page : apply[p] = "idle"
  BY <1>2, ApplyingIsAccount
<1>4. /\ pages' \in SUBSET Page /\ shown' \in SUBSET Page /\ complete' \in SUBSET Page
      /\ current \in pages' \cap shown'
      /\ \A h \in HideNavigation \cap pages' : \A q \in pages' : q <= h
      /\ Account # None => Account \in shown'
      /\ Fits(u0, current, pages', FALSE) /\ u0 \in Ui
  <2>1. CASE enabled # parental
    <3>1. Rebuilt(current, enabled)
      BY <2>1 DEF ApplyLocal
    <3>2. current \in Page \ HideNavigation
      BY <1>1, <1>2
    <3>3. Applying(current) = FALSE
      BY <1>2 DEF Applying
    <3> QED
      BY <2>1, <3>1, <3>2, <3>3, RebuiltInv
  <2>2. CASE enabled = parental
    <3>1. /\ shown' = shown \cup UsernamePages
          /\ \E ok \in SUBSET UsernamePages : complete' = (complete \ UsernamePages) \cup ok
          /\ pages' = pages
      BY <2>2 DEF ApplyLocal
    <3>2. Fits(u0, current, pages', FALSE) /\ u0 \in Ui
      BY <2>2, <3>1, <1>1, <1>2 DEF Applying
    <3>3. /\ pages' \in SUBSET Page /\ shown' \in SUBSET Page /\ complete' \in SUBSET Page
      BY <3>1 DEF IInv, TypeOK
    <3> QED
      BY <3>1, <3>2, <3>3, <1>1 DEF IInv, AccountShown, HideNavigationLast
  <2> QED
    BY <2>1, <2>2
<1>5. Fits(u, current, pages', FALSE) /\ u \in Ui
  <2> HIDE DEF u0
  <2> QED
    BY <1>4, ApplyingStateFits, ApplyingStateType
<1> HIDE DEF u0, u
<1>6. /\ current' \in pages' \cap shown'
      /\ Fits(ui', current', pages', apply[current'] # "idle")
      /\ ui' \in Ui
  BY <1>2, <1>3, <1>4, <1>5, SwitchToNextInv, ZenonT(60)
<1>7. current' \in Page /\ current' # None
  BY <1>4, <1>6
<1>8. TypeOK'
  BY <1>2, <1>4, <1>6, <1>7 DEF IInv, TypeOK, Ui
<1>9. NeverPastApplyingPage'
  BY <1>2, <1>3 DEF NeverPastApplyingPage, Applying
<1>10. AccountShown' /\ HideNavigationLast'
  BY <1>4 DEF AccountShown, HideNavigationLast
<1> QED
  BY <1>2, <1>6, <1>7, <1>8, <1>9, <1>10, EndsOnAPage

(* gis_account_page_enterprise_apply: the account page starts applying.    *)
LEMMA ApplyEnterpriseInv ==
  ASSUME IInv, current # None, ApplyEnterprise, UNCHANGED skip
  PROVE  IInv'
<1> USE Positions, HideNavigationAssumption DEF HideNavigationAssumption
<1>1. /\ current \in pages \cap shown
      /\ current \in Page
      /\ Fits(ui, current, pages, Applying(current))
      /\ ui \in Ui
  BY OnAPage
<1> DEFINE u == IF parental THEN RebuiltUi(current, pages', complete') ELSE ui
<1>2. /\ current = Account /\ apply[current] = "idle" /\ parental' = FALSE
      /\ ui' = ApplyingState(u, current, pages', TRUE)
      /\ apply' = [apply EXCEPT ![current] = "applying"]
      /\ UNCHANGED <<current, fault, critical>>
  BY DEF ApplyEnterprise, Applying
<1>3. \A p \in Page : apply[p] = "idle"
  BY <1>2, ApplyingIsAccount
<1>4. /\ pages' \in SUBSET Page /\ shown' \in SUBSET Page /\ complete' \in SUBSET Page
      /\ current \in pages' \cap shown'
      /\ \A h \in HideNavigation \cap pages' : \A q \in pages' : q <= h
      /\ Account # None => Account \in shown'
      /\ Fits(u, current, pages', FALSE) /\ u \in Ui
  <2>1. Applying(current) = FALSE
    BY <1>2 DEF Applying
  <2>2. CASE parental
    <3>1. Rebuilt(current, FALSE)
      BY <2>2 DEF ApplyEnterprise
    <3>2. current \in Page \ HideNavigation
      BY <1>1, <1>2
    <3> QED
      BY <2>1, <2>2, <3>1, <3>2, RebuiltInv
  <2>3. CASE ~parental
    <3>1. UNCHANGED <<pages, shown, complete>>
      BY <2>3 DEF ApplyEnterprise
    <3> QED
      BY <2>1, <2>3, <3>1, <1>1 DEF IInv, TypeOK, AccountShown, HideNavigationLast
  <2> QED
    BY <2>2, <2>3
<1> HIDE DEF u
<1>5. Fits(ui', current, pages', TRUE) /\ ui' \in Ui
  BY <1>2, <1>4, ApplyingStateFits, ApplyingStateType
<1>6. apply \in [Page -> {"idle", "applying", "cancelling"}]
  BY DEF IInv, TypeOK
<1>7. TypeOK'
  BY <1>1, <1>2, <1>4, <1>5, <1>6 DEF IInv, TypeOK, Ui
<1>8. apply'[current] # "idle" /\ \A p \in Page : apply'[p] # "idle" => p = current
  BY <1>1, <1>2, <1>3, <1>6
<1>9. NeverPastApplyingPage'
  BY <1>1, <1>2, <1>4, <1>8 DEF NeverPastApplyingPage, Applying
<1>10. AccountShown' /\ HideNavigationLast'
  BY <1>4 DEF AccountShown, HideNavigationLast
<1>11. Fits(ui', current', pages', apply'[current'] # "idle")
  BY <1>2, <1>5, <1>8
<1> QED
  BY <1>1, <1>2, <1>4, <1>7, <1>9, <1>10, <1>11, EndsOnAPage

(* The end of the join: whatever page is current then is at or before the  *)
(* account page, so that hiding the password page does not hide it.        *)
LEMMA EnterpriseDoneInv ==
  ASSUME IInv, NEW valid \in BOOLEAN, EnterpriseDone(valid), UNCHANGED skip
  PROVE  IInv'
<1> USE Positions, PageAssumption, KindAssumption DEF PageAssumption, KindAssumption
<1> DEFINE u == IF current = Account
                THEN ApplyingState(ui, current, pages, FALSE) ELSE ui
<1>1. /\ Account \in Page /\ apply[Account] # "idle"
      /\ apply' = [apply EXCEPT ![Account] = "idle"]
      /\ shown' = shown \ UsernamePages
      /\ \E ok \in SUBSET UsernamePages : complete' = (complete \ UsernamePages) \cup ok
      /\ UNCHANGED <<pages, parental, fault, critical>>
  BY DEF EnterpriseDone, Applying
<1>2. IF valid THEN SwitchToNext(pages, shown', complete', apply', u)
               ELSE ui' = u /\ current' = current
  BY DEF EnterpriseDone
<1>3. /\ apply \in [Page -> {"idle", "applying", "cancelling"}]
      /\ pages \in SUBSET Page /\ shown' \in SUBSET Page /\ complete' \in SUBSET Page
  BY <1>1 DEF IInv, TypeOK
<1>4. \A p \in Page : apply'[p] = "idle"
  BY <1>1, <1>3, ApplyingIsAccount
<1>5. /\ Account \in pages \cap shown'
      /\ current <= Account
  BY <1>1, ApplyingIsAccount
<1>6. current # None
  BY <1>1, <1>5 DEF IInv, CurrentIsShown
<1>7. /\ current \in pages \cap shown
      /\ current \in Page
      /\ Fits(ui, current, pages, Applying(current))
      /\ ui \in Ui
  BY <1>6, OnAPage
<1>8. current \in shown'
  <2>1. \A q \in UsernamePages : q \in Int /\ current < q
    BY <1>5, <1>7
  <2> QED
    BY <1>1, <1>7, <2>1
<1>9. Fits(u, current, pages, FALSE) /\ u \in Ui
  <2>1. CASE current = Account
    BY <2>1, <1>7, ApplyingStateFits, ApplyingStateType
  <2>2. CASE current # Account
    <3>1. Applying(current) = FALSE
      BY <2>2, <1>7, ApplyingIsAccount DEF Applying
    <3> QED
      BY <2>2, <3>1, <1>7
  <2> QED
    BY <2>1, <2>2
<1>10. \A h \in HideNavigation \cap pages : \A q \in pages : q <= h
  BY DEF IInv, HideNavigationLast
<1> HIDE DEF u
<1>11. /\ current' \in pages \cap shown'
       /\ Fits(ui', current', pages, apply'[current'] # "idle")
       /\ ui' \in Ui
  <2>1. CASE valid
    <3>1. SwitchToNext(pages, shown', complete', apply', u)
      BY <2>1, <1>2
    <3> QED
      BY <3>1, <1>3, <1>4, <1>7, <1>8, <1>9, <1>10, SwitchToNextInv, ZenonT(60)
  <2>2. CASE ~valid
    BY <2>2, <1>2, <1>4, <1>7, <1>8, <1>9
  <2> QED
    BY <2>1, <2>2
<1>12. current' \in Page /\ current' # None
  BY <1>3, <1>11
<1>13. TypeOK'
  BY <1>1, <1>3, <1>11, <1>12 DEF IInv, TypeOK, Ui
<1>14. NeverPastApplyingPage'
  BY <1>4 DEF NeverPastApplyingPage, Applying
<1>15. AccountShown' /\ HideNavigationLast'
  BY <1>1, <1>5, <1>10 DEF AccountShown, HideNavigationLast
<1> QED
  BY <1>1, <1>11, <1>12, <1>13, <1>14, <1>15, EndsOnAPage

(* Going back lands on a shown page that neither ends the list nor lies    *)
(* past a page that is applying.                                           *)
LEMMA ClickBackInv ==
  ASSUME IInv, ClickBack, UNCHANGED skip
  PROVE  IInv'
<1> USE Positions
<1>1. UNCHANGED <<pages, shown, complete, apply, parental, fault>>
  BY DEF ClickBack
<1>2. CASE UNCHANGED <<current, ui>>
  <2>1. critical' \in SUBSET {"applying", "no current page", "no previous page"}
    BY DEF ClickBack, IInv, TypeOK
  <2> QED
    BY <1>1, <1>2, <2>1 DEF IInv, TypeOK, CurrentIsShown, TitleBarFits,
         NeverPastApplyingPage, AccountShown, HideNavigationLast, Applying
<1>3. ASSUME NEW q \in ShownBefore(current, pages, shown),
             current' = q, UNCHANGED critical,
             ui' = CurrentPageUi(ui, q, pages, complete, Applying(q))
      PROVE  IInv'
  <2>1. q \in pages \cap shown /\ q \in Page /\ q < current
    BY DEF ShownBefore, IInv, TypeOK
  <2>2. current \in Int /\ current # None
    <3>1. current \in Page \/ current = 0
      BY DEF IInv, TypeOK
    <3> QED
      BY <2>1, <3>1
  <2>3. current \in pages /\ ui \in Ui
    BY <2>2, OnAPage
  <2>4. q \notin HideNavigation
    BY <2>1, <2>2, <2>3 DEF IInv, HideNavigationLast
  <2>5. Applying(q) \in BOOLEAN
    BY DEF Applying
  <2>6. Fits(ui', q, pages, Applying(q)) /\ ui' \in Ui
    BY <1>3, <2>3, <2>4, <2>5, CurrentPageUiFits
  <2>7. Fits(ui', current', pages', apply'[current'] # "idle")
    BY <1>1, <1>3, <2>6 DEF Applying
  <2>8. TypeOK'
    BY <1>1, <1>3, <2>1, <2>6 DEF IInv, TypeOK, Ui
  <2>9. NeverPastApplyingPage'
    BY <1>1, <1>3, <2>1, <2>2 DEF IInv, NeverPastApplyingPage, Applying
  <2>10. AccountShown' /\ HideNavigationLast'
    BY <1>1 DEF IInv, AccountShown, HideNavigationLast
  <2> QED
    BY <1>1, <1>3, <2>1, <2>7, <2>8, <2>9, <2>10, EndsOnAPage
<1> QED
  BY <1>2, <1>3 DEF ClickBack

(* Handlers that only set "complete" or have the buttons updated keep the  *)
(* page and its place in the list.                                         *)
LEMMA ButtonsUpdatedInv ==
  ASSUME IInv, current # None, NEW done \in SUBSET Page,
         complete' = done,
         ui' = NavigationButtons(ui, current, pages, done) \/ ui' = ui,
         UNCHANGED <<pages, current, apply, skip, parental, fault, critical>>,
         shown' \in SUBSET Page, current \in shown', AccountShown'
  PROVE  IInv'
<1> USE Positions
<1>1. /\ current \in pages \cap shown
      /\ Fits(ui, current, pages, Applying(current))
      /\ ui \in Ui
  BY OnAPage
<1>2. Applying(current) \in BOOLEAN
  BY DEF Applying
<1>3. Fits(NavigationButtons(ui, current, pages, done), current, pages, Applying(current))
  <2>1. current \in HideNavigation => "done" \notin ui.visible
    BY <1>1 DEF Fits, Navigation, NextWidget
  <2>2. /\ "spinner" \in ui.visible <=> Applying(current)
        /\ "cancel" \in ui.visible => Applying(current)
        /\ Applying(current) /\ current \notin HideNavigation => "cancel" \in ui.visible
    BY <1>1 DEF Fits
  <2> QED
    BY <1>1, <1>2, <2>1, <2>2, NavigationButtonsFit
<1>4. Fits(ui', current, pages, Applying(current)) /\ ui' \in Ui
  BY <1>1, <1>3, NavigationButtonsType
<1>5. Fits(ui', current', pages', apply'[current'] # "idle")
  BY <1>4 DEF Applying
<1>6. TypeOK'
  BY <1>4 DEF IInv, TypeOK, Ui
<1>7. NeverPastApplyingPage' /\ HideNavigationLast'
  BY DEF IInv, NeverPastApplyingPage, HideNavigationLast, Applying
<1> QED
  BY <1>1, <1>5, <1>6, <1>7, EndsOnAPage

(* A page that follows the network shows or hides, never under the user.   *)
LEMMA RefreshInv ==
  ASSUME IInv, NEW p \in Page, NEW visible \in BOOLEAN, NEW ok \in BOOLEAN,
         Refresh(p, visible, ok), UNCHANGED skip
  PROVE  IInv'
<1> USE Positions, KindAssumption DEF KindAssumption
<1>1. /\ p \in pages \cap Hideable
      /\ visible \/ p # current
      /\ shown' = IF visible THEN shown \cup {p} ELSE shown \ {p}
      /\ complete' = IF ok THEN complete \cup {p} ELSE complete \ {p}
      /\ UNCHANGED <<pages, apply, parental, fault, critical>>
  BY DEF Refresh, MayHide
<1>2. /\ pages \in SUBSET Page /\ shown' \in SUBSET Page /\ complete' \in SUBSET Page
      /\ AccountShown'
  BY <1>1 DEF IInv, TypeOK, AccountShown
<1>3. HideNavigationLast'
  BY <1>1 DEF IInv, HideNavigationLast
<1>4. CASE current # None
  <2>1. /\ ui' = IF p = current THEN NavigationButtons(ui, p, pages, complete') ELSE ui
        /\ UNCHANGED current
    BY <1>4 DEF Refresh
  <2>2. current \in shown'
    BY <1>1, <1>4, OnAPage
  <2> QED
    BY <1>1, <1>2, <1>4, <2>1, <2>2, ButtonsUpdatedInv
<1>5. CASE current = None /\ ~visible
  <2>1. ui' = ui /\ current' = None
    BY <1>1, <1>5 DEF Refresh
  <2>2. pages' \cap shown' = {}
    BY <1>1, <1>5 DEF IInv, CurrentIsShown
  <2>3. TypeOK'
    BY <1>1, <1>2, <2>1 DEF IInv, TypeOK
  <2>4. NeverPastApplyingPage'
    BY <1>1, <1>5, <2>1 DEF IInv, NeverPastApplyingPage, Applying
  <2> QED
    BY <1>2, <1>3, <1>5, <2>1, <2>2, <2>3, <2>4 DEF IInv, CurrentIsShown, TitleBarFits
<1>6. CASE current = None /\ visible
  <2>1. /\ current' = p
        /\ ui' = CurrentPageUi(ui, p, pages, complete', FALSE)
    BY <1>6 DEF Refresh
  <2>2. \A q \in Page : apply[q] = "idle"
    BY <1>6, ApplyingIsAccount DEF IInv, CurrentIsShown
  <2>3. ui \in Ui /\ "done" \notin ui.visible
    BY <1>6, TypeOKUi DEF IInv, TitleBarFits
  <2>4. Fits(ui', p, pages, FALSE) /\ ui' \in Ui
    BY <2>1, <2>3, CurrentPageUiFits
  <2>5. TypeOK'
    BY <1>1, <1>2, <2>1, <2>4 DEF IInv, TypeOK, Ui
  <2>6. NeverPastApplyingPage'
    BY <1>1, <2>2 DEF NeverPastApplyingPage, Applying
  <2>7. Fits(ui', current', pages', apply'[current'] # "idle")
    BY <1>1, <2>1, <2>2, <2>4
  <2> QED
    BY <1>1, <1>2, <1>3, <1>6, <2>1, <2>5, <2>6, <2>7, EndsOnAPage
<1> QED
  BY <1>4, <1>5, <1>6

(* A new locale rebuilds what follows the page that chose it.              *)
LEMMA ChangeLocaleInv ==
  ASSUME IInv, NEW p \in Relocale, ChangeLocale(p), UNCHANGED skip
  PROVE  IInv'
<1> USE Positions, KindAssumption, HideNavigationAssumption
    DEF KindAssumption, HideNavigationAssumption
<1>1. /\ p = current /\ current \in Page \ HideNavigation
      /\ UNCHANGED <<current, apply, parental, critical>>
  BY DEF ChangeLocale
<1>2. CASE UNCHANGED <<pages, shown, complete, ui>>
  <2>1. fault' \in {"none", "finalized while applying", "table overrun"}
    BY DEF ChangeLocale, IInv, TypeOK
  <2> QED
    BY <1>1, <1>2, <2>1 DEF IInv, TypeOK, CurrentIsShown, TitleBarFits,
         NeverPastApplyingPage, AccountShown, HideNavigationLast, Applying
<1>3. ASSUME ~ \E q \in pages : p < q /\ Applying(q),
             Rebuilt(p, parental), ui' = RebuiltUi(p, pages', complete'), UNCHANGED fault
      PROVE  IInv'
  <2>1. parental \in BOOLEAN
    BY DEF IInv, TypeOK
  <2>2. /\ pages' \in SUBSET Page
        /\ shown' \in SUBSET Page
        /\ complete' \in SUBSET Page
        /\ current \in pages' \cap shown'
        /\ \A q \in pages : q <= current => q \in pages'
        /\ (\A h \in HideNavigation \cap pages' : \A q \in pages' : q <= h)
        /\ Account # None => Account \in shown'
        /\ Fits(ui', current, pages', Applying(current))
        /\ ui' \in Ui
    BY <1>1, <1>3, <2>1, RebuiltInv
  <2>3. TypeOK'
    BY <1>1, <1>3, <2>2 DEF IInv, TypeOK, Ui
  <2>4. \A q \in Page : apply[q] # "idle" => q = Account /\ q \in pages' /\ current <= q
    <3> SUFFICES ASSUME NEW q \in Page, apply[q] # "idle"
                 PROVE  q = Account /\ q \in pages' /\ current <= q
      OBVIOUS
    <3>1. q = Account /\ q \in pages /\ current <= q
      BY ApplyingIsAccount
    <3>2. ~(current < q)
      BY <1>1, <1>3, <3>1 DEF Applying
    <3>3. q <= current
      BY <1>1, <3>2
    <3> QED
      BY <2>2, <3>1, <3>3
  <2>5. NeverPastApplyingPage' /\ AccountShown' /\ HideNavigationLast'
    BY <1>1, <2>2, <2>4 DEF NeverPastApplyingPage, Applying, AccountShown, HideNavigationLast
  <2>6. Fits(ui', current', pages', apply'[current'] # "idle")
    BY <1>1, <2>2 DEF Applying
  <2> QED
    BY <1>1, <2>2, <2>3, <2>5, <2>6, EndsOnAPage
<1> QED
  BY <1>2, <1>3 DEF ChangeLocale

(* Every handler preserves the invariant.                                  *)
LEMMA NextInv == IInv /\ [Next]_vars => IInv'
<1> SUFFICES ASSUME IInv, [Next]_vars PROVE IInv'
  OBVIOUS
<1> USE Positions, KindAssumption DEF KindAssumption
<1>1. ASSUME current # None, UNCHANGED skip,
             ApplyAtOnce \/ \E enabled \in BOOLEAN : ApplyLocal(enabled)
      PROVE  IInv'
  BY <1>1, ApplyAtOnceInv, ApplyLocalInv
<1>2. CASE ClickForward /\ UNCHANGED skip
  <2>1. CASE ApplyAgain
    <3>1. critical' \in SUBSET {"applying", "no current page", "no previous page"}
      BY <2>1 DEF ApplyAgain, IInv, TypeOK
    <3> QED
      BY <1>2, <2>1, <3>1 DEF ApplyAgain, IInv, TypeOK, CurrentIsShown, TitleBarFits,
           NeverPastApplyingPage, AccountShown, HideNavigationLast, Applying
  <2> QED
    BY <1>1, <1>2, <2>1, ApplyEnterpriseInv DEF ClickForward, NextPage
<1>3. ASSUME NEW p \in Confirming, Confirm(p), UNCHANGED skip PROVE IInv'
  <2>1. current # None
    BY <1>3 DEF Confirm
  <2> QED
    BY <1>1, <1>3, <2>1 DEF Confirm
<1>4. CASE (\E valid \in BOOLEAN : EnterpriseDone(valid)) /\ UNCHANGED skip
  BY <1>4, EnterpriseDoneInv
<1>5. CASE ClickBack /\ UNCHANGED skip
  BY <1>5, ClickBackInv
<1>6. CASE ClickCancel /\ UNCHANGED skip
  <2>1. /\ current \in pages \cap shown /\ current \in Page /\ current # None
        /\ Fits(ui, current, pages, Applying(current)) /\ ui \in Ui
    BY <1>6, OnAPage DEF ClickCancel
  <2>2. apply' \in [Page -> {"idle", "applying", "cancelling"}]
    BY <1>6 DEF ClickCancel, IInv, TypeOK
  <2>3. \A q \in Page : apply'[q] # "idle" <=> apply[q] # "idle"
    BY <1>6, <2>1 DEF ClickCancel, IInv, TypeOK
  <2>4. UNCHANGED <<pages, current, shown, complete, skip, parental, ui, fault, critical>>
    BY <1>6 DEF ClickCancel
  <2>5. TypeOK'
    BY <2>2, <2>4 DEF IInv, TypeOK
  <2>6. NeverPastApplyingPage' /\ AccountShown' /\ HideNavigationLast'
    BY <2>3, <2>4 DEF IInv, NeverPastApplyingPage, AccountShown, HideNavigationLast, Applying
  <2>7. (apply'[current'] # "idle") = Applying(current)
    BY <2>1, <2>3, <2>4 DEF Applying
  <2> QED
    BY <2>1, <2>4, <2>5, <2>6, <2>7, EndsOnAPage
<1>7. ASSUME NEW p \in Dynamic, NEW ok \in BOOLEAN, Validate(p, ok), UNCHANGED skip
      PROVE  IInv'
  <2>1. complete' \in SUBSET Page
    BY <1>7 DEF Validate, IInv, TypeOK
  <2>2. UNCHANGED <<pages, current, shown, apply, parental, fault, critical>>
    BY <1>7 DEF Validate
  <2>3. AccountShown' /\ shown' \in SUBSET Page
    BY <2>2 DEF IInv, TypeOK, AccountShown
  <2>4. ui' = IF p = current THEN NavigationButtons(ui, p, pages, complete') ELSE ui
    BY <1>7 DEF Validate
  <2>5. CASE current # None
    BY <1>7, <2>1, <2>2, <2>3, <2>4, <2>5, OnAPage, ButtonsUpdatedInv
  <2>6. CASE current = None
    <3>1. ui' = ui
      BY <2>4, <2>6
    <3> QED
      BY <1>7, <2>1, <2>2, <2>6, <3>1 DEF IInv, TypeOK, CurrentIsShown, TitleBarFits,
           NeverPastApplyingPage, AccountShown, HideNavigationLast, Applying
  <2> QED
    BY <2>5, <2>6
<1>8. ASSUME NEW p \in Hideable, NEW visible \in BOOLEAN, NEW ok \in BOOLEAN,
             Refresh(p, visible, ok), UNCHANGED skip
      PROVE  IInv'
  BY <1>8, RefreshInv
<1>9. CASE ScreenChange /\ UNCHANGED skip
  <2>1. /\ complete \in SUBSET Page /\ shown \in SUBSET Page
    BY DEF IInv, TypeOK
  <2>2. AccountShown' /\ current \in shown'
    BY <1>9, OnAPage DEF ScreenChange, IInv, AccountShown
  <2> QED
    BY <1>9, <2>1, <2>2, ButtonsUpdatedInv DEF ScreenChange
<1>10. ASSUME NEW p \in Relocale, ChangeLocale(p), UNCHANGED skip PROVE IInv'
  BY <1>10, ChangeLocaleInv
<1>11. CASE UNCHANGED vars
  BY <1>11 DEF vars, IInv, TypeOK, CurrentIsShown, TitleBarFits,
       NeverPastApplyingPage, AccountShown, HideNavigationLast, Applying
<1> QED
  BY <1>2, <1>3, <1>4, <1>5, <1>6, <1>7, <1>8, <1>9, <1>10, <1>11 DEF Next, Running

-----------------------------------------------------------------------------
(* The theorems.                                                           *)

(* The inductive invariant holds in every state the program reaches.       *)
LEMMA InductiveInvariant == Spec => []IInv
  BY InitInv, NextInv, PTL DEF Spec

(* Every variable keeps its type.                                          *)
THEOREM TypeCorrect == Spec => []TypeOK
<1>1. IInv => TypeOK
  BY DEF IInv
<1> QED
  BY <1>1, InductiveInvariant, PTL

(* The user always sees a page of the list when the list has one to see.   *)
THEOREM CurrentAlwaysShown == Spec => []CurrentIsShown
<1>1. IInv => CurrentIsShown
  BY DEF IInv
<1> QED
  BY <1>1, InductiveInvariant, PTL

(* The title bar agrees with the page in front of the user: the spinner    *)
(* and Cancel with its apply, one way forward, Done and Previous with its  *)
(* place in the list.                                                      *)
THEOREM TitleBarCorrect == Spec => []TitleBarAgrees
<1>1. IInv => BusyMatchesCurrentPage
  BY DEF IInv, TitleBarFits, Fits, BusyMatchesCurrentPage
<1>2. IInv => OneWayForward
  <2> SUFFICES ASSUME IInv PROVE OneWayForward
    OBVIOUS
  <2>1. CASE current = None
    BY <2>1 DEF IInv, TitleBarFits, OneWayForward, Navigation, NextWidget
  <2>2. CASE current # None
    BY <2>2 DEF IInv, TitleBarFits, Fits, OneWayForward
  <2> QED
    BY <2>1, <2>2
<1>3. IInv => ButtonsMatchPosition
  BY DEF IInv, TitleBarFits, Fits, ButtonsMatchPosition
<1>4. IInv => TitleBarAgrees
  BY <1>1, <1>2, <1>3 DEF TitleBarAgrees
<1> QED
  BY <1>4, InductiveInvariant, PTL

(* No later page is in front of the user while the account page is being   *)
(* applied.                                                                *)
THEOREM NeverPastApplying == Spec => []NeverPastApplyingPage
<1>1. IInv => NeverPastApplyingPage
  BY DEF IInv
<1> QED
  BY <1>1, InductiveInvariant, PTL

(* switch_to_next_page goes to the nearest page that can be seen.          *)
LEMMA SwitchToNextIsNear ==
  ASSUME NEW list \in SUBSET Page, NEW vis, NEW done, NEW state, NEW u,
         current \in Page, SwitchToNext(list, vis, done, state, u)
  PROVE  \A q \in list \cap vis : ~Between(q, current, current')
<1> USE Positions
<1>1. CASE current' = current
  BY <1>1 DEF Between
<1>2. CASE \E q \in ShownAfter(current, list, vis) :
             Nearest(q, current, ShownAfter(current, list, vis)) /\ current' = q
  BY <1>2 DEF Nearest, ShownAfter, Between
<1> QED
  BY <1>1, <1>2 DEF SwitchToNext

(* Moves, forward or back, leave out no page that could be seen.           *)
THEOREM NoPageJumped == Spec => NoShownPageJumped
<1> DEFINE Near == \A q \in pages' \cap shown' : ~Between(q, current, current')
<1>1. ASSUME IInv, [Next]_vars, current # None
      PROVE  Near
  <2> USE Positions
  <2>1. /\ current \in Page
        /\ pages \in SUBSET Page
        /\ pages' \in SUBSET Page
    <3>1. IInv'
      BY <1>1, NextInv
    <3> QED
      BY <1>1, <3>1, OnAPage DEF IInv, TypeOK
  <2>2. CASE UNCHANGED current
    BY <2>1, <2>2 DEF Between
  <2>3. CASE ApplyAtOnce
    BY <2>1, <2>3, SwitchToNextIsNear DEF ApplyAtOnce
  <2>4. CASE \E enabled \in BOOLEAN : ApplyLocal(enabled)
    <3>1. PICK enabled \in BOOLEAN : ApplyLocal(enabled)
      BY <2>4
    <3> DEFINE u == IF enabled = parental THEN ui ELSE RebuiltUi(current, pages', complete')
    <3>2. SwitchToNext(pages', shown', complete', apply, ApplyingState(u, current, pages', FALSE))
      BY <3>1 DEF ApplyLocal
    <3> QED
      BY <2>1, <3>2, SwitchToNextIsNear
  <2>5. CASE \E valid \in BOOLEAN : EnterpriseDone(valid)
    <3>1. PICK valid \in BOOLEAN : EnterpriseDone(valid)
      BY <2>5
    <3> DEFINE u == IF current = Account THEN ApplyingState(ui, current, pages, FALSE) ELSE ui
    <3>2. /\ UNCHANGED pages
          /\ IF valid THEN SwitchToNext(pages, shown', complete', apply', u)
             ELSE ui' = u /\ UNCHANGED current
      BY <3>1 DEF EnterpriseDone
    <3>3. CASE valid
      BY <2>1, <3>2, <3>3, SwitchToNextIsNear
    <3> QED
      BY <2>2, <3>2, <3>3
  <2>6. CASE ClickBack
    <3>1. /\ UNCHANGED <<pages, shown>>
          /\ \/ UNCHANGED current
             \/ \E q \in ShownBefore(current, pages, shown) :
                  Nearest(q, current, ShownBefore(current, pages, shown)) /\ current' = q
      BY <2>6, <1>1 DEF ClickBack
    <3> QED
      BY <2>1, <2>2, <3>1 DEF Nearest, ShownBefore, Between
  <2>7. ASSUME NEW p \in Hideable, NEW visible \in BOOLEAN, NEW ok \in BOOLEAN,
               Refresh(p, visible, ok)
        PROVE  UNCHANGED current
    BY <1>1, <2>7 DEF Refresh
  <2>8. CASE ClickForward
    <3>1. ApplyAgain => UNCHANGED current
      BY DEF ApplyAgain
    <3>2. ApplyEnterprise => UNCHANGED current
      BY DEF ApplyEnterprise
    <3> QED
      BY <2>2, <2>3, <2>4, <2>8, <3>1, <3>2 DEF ClickForward, NextPage
  <2>9. CASE \E p \in Confirming : Confirm(p)
    BY <2>3, <2>4, <2>9 DEF Confirm
  <2>10. ClickCancel \/ ScreenChange \/ (\E p \in Relocale : ChangeLocale(p))
           \/ (\E p \in Dynamic, ok \in BOOLEAN : Validate(p, ok)) => UNCHANGED current
    BY DEF ClickCancel, ScreenChange, ChangeLocale, Validate
  <2>11. UNCHANGED vars => UNCHANGED current
    BY DEF vars
  <2> QED
    BY <1>1, <2>2, <2>5, <2>6, <2>7, <2>8, <2>9, <2>10, <2>11 DEF Next, Running
<1>2. IInv /\ [Next]_vars =>
        [current # None => \A q \in pages' \cap shown' : ~Between(q, current, current')]_vars
  BY <1>1
<1> QED
  BY <1>2, InductiveInvariant, PTL DEF Spec, NoShownPageJumped

-----------------------------------------------------------------------------
(* The wizard.                                                             *)

(* What the wizard calls busy.                                             *)
Busy == IF Account # None /\ Applying(Account) THEN Account ELSE None

LEMMA BusyPage ==
  ASSUME IInv
  PROVE  /\ \A p \in Page : Applying(p) <=> Busy = p
         /\ Busy # None => /\ Busy = Account /\ Account \in Page
                          /\ Account \in pages \cap shown /\ current <= Account
<1> USE Positions, KindAssumption DEF KindAssumption
<1>1. ASSUME NEW p \in Page, Applying(p) PROVE Busy = p
  BY <1>1, ApplyingIsAccount DEF Busy, Applying
<1>2. ASSUME NEW p \in Page, Busy = p PROVE Applying(p)
  BY <1>2 DEF Busy
<1>3. ASSUME Busy # None
      PROVE  /\ Busy = Account /\ Account \in Page
             /\ Account \in pages \cap shown /\ current <= Account
  <2>1. Busy = Account /\ Account \in Page /\ apply[Account] # "idle"
    BY <1>3 DEF Busy, Applying
  <2> QED
    BY <2>1, ApplyingIsAccount
<1> QED
  BY <1>1, <1>2, <1>3

(* A step that shows the user nothing.                                     *)
LEMMA ShowsNothing ==
  ASSUME UNCHANGED <<pages, current, shown>>, UNCHANGED Busy
  PROVE  UNCHANGED Stack!vars
  BY DEF Stack!vars, Busy

(* A rebuild keeps the list up to the page it is started from.             *)
LEMMA RebuiltKeeps ==
  ASSUME IInv, NEW p \in Page, NEW enabled, Rebuilt(p, enabled)
  PROVE  Stack!KeepUpTo(p)
<1> USE Positions, PageAssumption DEF PageAssumption
<1>1. PICK tail \in Follow[p], hidden \in SUBSET {q \in Hideable : p < q} :
        /\ pages' = {q \in pages : q <= p} \cup Added(tail, skip, enabled)
        /\ shown' = {q \in Page : q \in shown \/ p < q} \ hidden
  BY DEF Rebuilt
<1>2. pages \in SUBSET Page /\ Added(tail, skip, enabled) \subseteq Page
      /\ \A q \in Added(tail, skip, enabled) : p < q
  BY DEF IInv, TypeOK, Added
<1>3. pages' \in SUBSET Page
  BY <1>1, <1>2
<1>4. ASSUME NEW q \in Page, q <= p
      PROVE  (q \in pages' <=> q \in pages) /\ (q \in shown' <=> q \in shown)
  <2>1. ~(p < q)
    BY <1>4
  <2> QED
    BY <1>1, <1>2, <1>4, <2>1
<1>5. {q \in pages' \cap shown' : q <= p} = {q \in pages \cap shown : q <= p}
  BY <1>2, <1>3, <1>4
<1> QED
  BY <1>3, <1>5 DEF Stack!KeepUpTo, Page

(* So do the pages that come and go with the user name.                    *)
LEMMA UsernamePagesKeep ==
  ASSUME IInv, Account # None, UNCHANGED pages,
         \/ shown' = shown \cup UsernamePages
         \/ shown' = shown \ UsernamePages
  PROVE  Stack!KeepUpTo(Account)
<1> USE Positions, KindAssumption DEF KindAssumption
<1>1. pages' \in SUBSET Page
  BY DEF IInv, TypeOK
<1>2. \A q \in UsernamePages : ~(q <= Account)
  OBVIOUS
<1>3. {q \in pages' \cap shown' : q <= Account} = {q \in pages \cap shown : q <= Account}
  BY <1>2
<1> QED
  BY <1>1, <1>3 DEF Stack!KeepUpTo, Page

(* switch_to_next_page moves on, in the list that is there then.           *)
LEMMA SwitchMovesOn ==
  ASSUME NEW pp \in SUBSET Page, NEW ss, NEW done, NEW state, NEW u, current \in Page,
         pages' = pp, shown' = ss, SwitchToNext(pp, ss, done, state, u)
  PROVE  Stack!MoveOn
<1> USE Positions
<1> DEFINE after == ShownAfter(current, pp, ss)
<1>1. after = Stack!Ahead(current, pages' \cap shown')
  BY DEF ShownAfter, Stack!Ahead
<1>2. CASE after = {} /\ current' = current
  BY <1>1, <1>2 DEF Stack!MoveOn
<1>3. ASSUME NEW q \in after, Nearest(q, current, after), current' = q
      PROVE  Stack!MoveOn
  <2>1. \A r \in after : current < r /\ r \in Page
    BY DEF ShownAfter
  <2>2. \A r \in after : q <= r
    BY <1>3, <2>1 DEF Nearest
  <2>3. Stack!First(current', after) /\ after # {}
    BY <1>3, <2>2 DEF Stack!First
  <2> QED
    BY <1>1, <2>3 DEF Stack!MoveOn
<1> QED
  BY <1>2, <1>3 DEF SwitchToNext

(* Forward: gis_page_apply_begin in its three ways.                        *)
LEMMA ForwardIsWizard ==
  ASSUME IInv, IInv', current # None,
         ApplyAtOnce \/ (\E enabled \in BOOLEAN : ApplyLocal(enabled)) \/ ApplyEnterprise
  PROVE  Stack!Next
<1> USE Positions
<1>1. current \in Page /\ pages \in SUBSET Page /\ pages' \in SUBSET Page
  BY OnAPage DEF IInv, TypeOK
<1>2. CASE ApplyAtOnce
  <2>1. Busy # current
    BY <1>1, <1>2, BusyPage DEF ApplyAtOnce
  <2>2. UNCHANGED <<pages, shown, apply>>
    BY <1>2 DEF ApplyAtOnce
  <2>3. Stack!MoveOn
    BY <1>1, <1>2, <2>2, SwitchMovesOn DEF ApplyAtOnce
  <2>4. Stack!Forward
    BY <2>1, <2>2, <2>3 DEF Stack!Forward, Stack!Nothing, Busy, Applying
  <2> QED
    BY <2>4 DEF Stack!Next
<1>3. ASSUME NEW enabled \in BOOLEAN, ApplyLocal(enabled) PROVE Stack!Next
  <2> DEFINE u == IF enabled = parental THEN ui ELSE RebuiltUi(current, pages', complete')
  <2>1. current = Account /\ ~Applying(current) /\ UNCHANGED apply
        /\ SwitchToNext(pages', shown', complete', apply, ApplyingState(u, current, pages', FALSE))
    BY <1>3 DEF ApplyLocal
  <2>2. Busy = None
    BY <2>1 DEF Busy
  <2>3. Stack!KeepUpTo(current)
    <3>1. CASE enabled # parental
      BY <1>1, <1>3, <3>1, RebuiltKeeps DEF ApplyLocal
    <3>2. CASE enabled = parental
      BY <1>3, <2>1, <3>2, UsernamePagesKeep DEF ApplyLocal
    <3> QED
      BY <3>1, <3>2
  <2> HIDE DEF u
  <2>4. Stack!MoveOn
    BY <1>1, <2>1, SwitchMovesOn
  <2>5. Stack!Forward
    BY <2>1, <2>2, <2>3, <2>4 DEF Stack!Forward, Stack!Nothing, Busy, Applying
  <2> QED
    BY <2>5 DEF Stack!Next
<1>4. CASE ApplyEnterprise
  <2>1. /\ current = Account /\ ~Applying(current) /\ UNCHANGED current
        /\ apply' = [apply EXCEPT ![current] = "applying"]
        /\ IF parental THEN Rebuilt(current, FALSE) ELSE UNCHANGED <<pages, shown, complete>>
    BY <1>4 DEF ApplyEnterprise
  <2>2. Busy = None
    BY <2>1 DEF Busy
  <2>3. Busy' = Account
    BY <1>1, <2>1 DEF Busy, Applying, IInv, TypeOK
  <2>4. Stack!KeepUpTo(current)
    <3>1. CASE parental
      BY <1>1, <2>1, <3>1, RebuiltKeeps
    <3>2. CASE ~parental
      BY <1>1, <2>1, <3>2 DEF Stack!KeepUpTo, Page
    <3> QED
      BY <3>1, <3>2
  <2>5. Stack!Begin
    BY <2>1, <2>2, <2>3, <2>4 DEF Stack!Begin, Stack!Nothing, Busy
  <2> QED
    BY <2>5 DEF Stack!Next
<1> QED
  BY <1>2, <1>3, <1>4

(* The end of the join, whatever page is in front.                         *)
LEMMA DoneIsWizard ==
  ASSUME IInv, IInv', NEW valid \in BOOLEAN, EnterpriseDone(valid)
  PROVE  Stack!Next
<1> USE Positions, KindAssumption DEF KindAssumption
<1>1. /\ Account \in Page /\ Applying(Account)
      /\ apply' = [apply EXCEPT ![Account] = "idle"]
      /\ shown' = shown \ UsernamePages /\ UNCHANGED pages
  BY DEF EnterpriseDone
<1>2. Busy = Account /\ Account # None
  BY <1>1 DEF Busy
<1>3. Busy' = None
  BY <1>1 DEF Busy, Applying, IInv, TypeOK
<1>4. current \in Page /\ pages \in SUBSET Page
  <2>1. Account \in pages \cap shown
    BY <1>2, BusyPage
  <2>2. current # None
    BY <2>1 DEF IInv, CurrentIsShown
  <2> QED
    BY <2>2, OnAPage DEF IInv, TypeOK
<1>5. Stack!KeepUpTo(Busy)
  BY <1>1, <1>2, UsernamePagesKeep
<1> DEFINE u == IF current = Account THEN ApplyingState(ui, current, pages, FALSE) ELSE ui
<1>6. IF valid THEN SwitchToNext(pages, shown', complete', apply', u) ELSE UNCHANGED current
  BY DEF EnterpriseDone
<1> HIDE DEF u
<1>7. Stack!MoveOn \/ UNCHANGED current
  BY <1>1, <1>4, <1>6, SwitchMovesOn
<1>8. Stack!End
  BY <1>2, <1>3, <1>5, <1>7 DEF Stack!End, Stack!Nothing, Busy
<1> QED
  BY <1>8 DEF Stack!Next

LEMMA BackIsWizard ==
  ASSUME IInv, ClickBack
  PROVE  [Stack!Next]_(Stack!vars)
<1> USE Positions
<1>1. UNCHANGED <<pages, shown, apply>>
  BY DEF ClickBack
<1>2. UNCHANGED Busy
  BY <1>1 DEF Busy, Applying
<1>3. CASE UNCHANGED current
  BY <1>1, <1>2, <1>3, ShowsNothing
<1>4. ASSUME NEW q \in ShownBefore(current, pages, shown),
             Nearest(q, current, ShownBefore(current, pages, shown)), current' = q
      PROVE  Stack!Next
  <2>1. ShownBefore(current, pages, shown) = Stack!Behind(current, pages \cap shown)
    BY DEF ShownBefore, Stack!Behind
  <2>2. \A r \in ShownBefore(current, pages, shown) : r <= q
    <3>1. pages \in SUBSET Page /\ (current \in Page \/ current = 0)
      BY DEF IInv, TypeOK
    <3>2. q \in Int /\ current \in Int /\ q < current
      BY <3>1 DEF ShownBefore
    <3> QED
      BY <1>4, <3>2 DEF Nearest
  <2>3. Stack!Last(current', Stack!Behind(current, pages \cap shown))
    BY <1>4, <2>1, <2>2 DEF Stack!Last
  <2>4. Stack!Back
    BY <1>1, <1>2, <2>3 DEF Stack!Back, Busy
  <2> QED
    BY <2>4 DEF Stack!Next
<1> QED
  BY <1>3, <1>4 DEF ClickBack

(* A page that follows the network.                                        *)
LEMMA RefreshIsWizard ==
  ASSUME IInv, NEW p \in Page, NEW visible \in BOOLEAN, NEW ok \in BOOLEAN,
         Refresh(p, visible, ok)
  PROVE  [Stack!Next]_(Stack!vars)
<1> USE Positions
<1>1. /\ p \in pages \cap Hideable
      /\ visible \/ p # current
      /\ shown' = IF visible THEN shown \cup {p} ELSE shown \ {p}
      /\ UNCHANGED <<pages, apply>>
      /\ IF current = None /\ visible THEN current' = p ELSE UNCHANGED current
  BY DEF Refresh, MayHide
<1>2. UNCHANGED Busy
  BY <1>1 DEF Busy, Applying
<1>3. CASE p = current
  <2>1. current # None /\ visible
    BY <1>1, <1>3
  <2>2. current \in shown
    BY <2>1, OnAPage
  <2> QED
    BY <1>1, <1>2, <1>3, <2>1, <2>2, ShowsNothing
<1>4. CASE p # current /\ visible
  <2>1. (pages \cap shown)' = (pages \cap shown) \cup {p}
    BY <1>1, <1>4
  <2>2. current' = IF current = Stack!Nothing THEN p ELSE current
    BY <1>1, <1>4 DEF Stack!Nothing
  <2>3. Stack!ComeOrGo
    BY <1>1, <1>2, <1>4, <2>1, <2>2 DEF Stack!ComeOrGo, Busy
  <2> QED
    BY <2>3 DEF Stack!Next
<1>5. CASE p # current /\ ~visible
  <2>1. (pages \cap shown)' = (pages \cap shown) \ {p} /\ UNCHANGED current
    BY <1>1, <1>5
  <2>2. Stack!ComeOrGo
    BY <1>1, <1>2, <1>5, <2>1 DEF Stack!ComeOrGo, Busy
  <2> QED
    BY <2>2 DEF Stack!Next
<1> QED
  BY <1>3, <1>4, <1>5

LEMMA RelocaleIsWizard ==
  ASSUME IInv, NEW p \in Relocale, ChangeLocale(p)
  PROVE  [Stack!Next]_(Stack!vars)
<1> USE Positions, KindAssumption DEF KindAssumption
<1>1. p = current /\ current \in Page /\ UNCHANGED <<current, apply>>
  BY DEF ChangeLocale
<1>2. UNCHANGED Busy
  BY <1>1 DEF Busy, Applying
<1>3. CASE UNCHANGED <<pages, shown>>
  BY <1>1, <1>2, <1>3, ShowsNothing
<1>4. ASSUME ~ \E q \in pages : p < q /\ Applying(q), Rebuilt(p, parental) PROVE Stack!Next
  <2>1. Busy \in {None, current}
    <3> SUFFICES ASSUME Busy # None PROVE Busy = current
      OBVIOUS
    <3>1. Busy = Account /\ Account \in Page /\ Account \in pages /\ current <= Account
          /\ Applying(Account)
      BY BusyPage
    <3>2. ~(current < Account)
      BY <1>1, <1>4, <3>1
    <3> QED
      BY <1>1, <3>1, <3>2
  <2>2. Stack!KeepUpTo(current)
    BY <1>1, <1>4, RebuiltKeeps
  <2>3. Stack!Rebuild
    BY <1>1, <1>2, <2>1, <2>2 DEF Stack!Rebuild, Stack!Nothing, Busy
  <2> QED
    BY <2>3 DEF Stack!Next
<1> QED
  BY <1>3, <1>4 DEF ChangeLocale

(* The other handlers show the user nothing that the wizard has.           *)
LEMMA OthersShowNothing ==
  ASSUME IInv,
         ApplyAgain \/ ClickCancel \/ ScreenChange \/ UNCHANGED vars
           \/ \E p \in Dynamic, ok \in BOOLEAN : Validate(p, ok)
  PROVE  UNCHANGED Stack!vars
<1> USE Positions
<1>1. UNCHANGED <<pages, current, shown>>
  BY DEF ApplyAgain, ClickCancel, ScreenChange, Validate, vars
<1>2. ClickCancel \/ UNCHANGED apply
  BY DEF ApplyAgain, ClickCancel, ScreenChange, Validate, vars
<1>3. UNCHANGED Busy
  <2>1. CASE UNCHANGED apply
    BY <2>1 DEF Busy, Applying
  <2>2. CASE ClickCancel
    <3>1. current \in Page
      BY <2>2, OnAPage DEF ClickCancel
    <3>2. \A p \in Page : apply'[p] # "idle" <=> apply[p] # "idle"
      BY <2>2, <3>1 DEF ClickCancel, IInv, TypeOK
    <3>3. Account # None => Account \in Page
      BY KindAssumption DEF KindAssumption
    <3> QED
      BY <3>2, <3>3 DEF Busy, Applying
  <2> QED
    BY <1>2, <2>1, <2>2
<1> QED
  BY <1>1, <1>3, ShowsNothing

(* Every step of the assistant is one of the wizard's or shows nothing.    *)
THEOREM ImplementsWizard == Spec => WizardSpec
<1>1. Init => Stack!Init
  <2> SUFFICES ASSUME Init PROVE Stack!Init
    OBVIOUS
  <2> USE Positions
  <2>1. pages \in SUBSET Page
    BY InitInv DEF IInv, TypeOK
  <2>2. ShownAfter(None, pages, shown) = pages \cap shown
    BY <2>1 DEF ShownAfter
  <2>3. (current = None /\ pages \cap shown = {}) \/ Stack!First(current, pages \cap shown)
    <3>1. CASE pages \cap shown = {}
      BY <2>2, <3>1 DEF Init
    <3>2. CASE pages \cap shown # {}
      <4>1. current \in pages \cap shown /\ Nearest(current, None, pages \cap shown)
        BY <2>2, <3>2 DEF Init
      <4>2. \A r \in pages \cap shown : current <= r
        BY <2>1, <4>1 DEF Nearest
      <4> QED
        BY <4>1, <4>2 DEF Stack!First
    <3> QED
      BY <3>1, <3>2
  <2>4. Busy = None
    <3>1. Account # None => apply[Account] = "idle"
      BY KindAssumption DEF KindAssumption, Init
    <3> QED
      BY <3>1 DEF Busy, Applying
  <2> QED
    BY <2>1, <2>3, <2>4 DEF Stack!Init, Stack!Nothing, Busy, Page
<1>2. ASSUME IInv, [Next]_vars PROVE [Stack!Next]_(Stack!vars)
  <2>1. IInv'
    BY <1>2, NextInv
  <2>2. ASSUME current # None,
               ApplyAtOnce \/ (\E enabled \in BOOLEAN : ApplyLocal(enabled)) \/ ApplyEnterprise
        PROVE  [Stack!Next]_(Stack!vars)
    BY <1>2, <2>1, <2>2, ForwardIsWizard
  <2>3. CASE ClickForward
    BY <1>2, <2>2, <2>3, OthersShowNothing DEF ClickForward, NextPage
  <2>4. ASSUME NEW p \in Confirming, Confirm(p) PROVE [Stack!Next]_(Stack!vars)
    <3>1. current # None
      BY <2>4, Positions, KindAssumption DEF KindAssumption, Confirm
    <3> QED
      BY <2>2, <2>4, <3>1 DEF Confirm
  <2>5. CASE \E valid \in BOOLEAN : EnterpriseDone(valid)
    BY <1>2, <2>1, <2>5, DoneIsWizard
  <2>6. CASE ClickBack
    BY <1>2, <2>6, BackIsWizard
  <2>7. ASSUME NEW p \in Hideable, NEW visible \in BOOLEAN, NEW ok \in BOOLEAN,
               Refresh(p, visible, ok)
        PROVE  [Stack!Next]_(Stack!vars)
    <3>1. p \in Page
      BY KindAssumption DEF KindAssumption
    <3> QED
      BY <1>2, <2>7, <3>1, RefreshIsWizard
  <2>8. CASE \E p \in Relocale : ChangeLocale(p)
    BY <1>2, <2>8, RelocaleIsWizard
  <2>9. CASE \/ ClickCancel \/ ScreenChange \/ UNCHANGED vars
             \/ \E p \in Dynamic, ok \in BOOLEAN : Validate(p, ok)
    BY <1>2, <2>9, OthersShowNothing
  <2> QED
    BY <1>2, <2>3, <2>4, <2>5, <2>6, <2>7, <2>8, <2>9 DEF Next, Running
<1> QED
  BY <1>1, <1>2, InductiveInvariant, PTL DEF Spec, WizardSpec, Stack!Spec

-----------------------------------------------------------------------------
(* The page that is finalized while it applies.                            *)

(* There is one way to it: the user has gone back from the account page    *)
(* that joins the domain to a page that changes the locale.                *)
FinalizedFromBehind ==
  fault = "finalized while applying" =>
    /\ current \in Relocale /\ current < Account
    /\ Applying(Account)

(* Of all handlers only a new locale finds a page that applies behind the  *)
(* one in front, though the account page's own rebuilds run while it may   *)
(* be applying; and the process ends there.  NotFinalizedWhileApplying is  *)
(* what TLC refutes on a page list with the language before the account.   *)
THEOREM FinalizedOnlyByLocale == Spec => []FinalizedFromBehind
<1>1. Init => FinalizedFromBehind
  BY DEF Init, FinalizedFromBehind
<1>2. ASSUME IInv, FinalizedFromBehind, [Next]_vars PROVE FinalizedFromBehind'
  <2>1. CASE UNCHANGED vars
    BY <1>2, <2>1 DEF vars, FinalizedFromBehind, Applying
  <2>2. ASSUME NEW p \in Relocale, ChangeLocale(p) PROVE FinalizedFromBehind'
    <3>1. p = current /\ UNCHANGED <<current, apply>>
      BY <2>2 DEF ChangeLocale
    <3>2. CASE \E q \in pages : p < q /\ Applying(q)
      <4>1. PICK q \in pages : p < q /\ Applying(q)
        BY <3>2
      <4>2. q = Account
        BY <1>2, <4>1, ApplyingIsAccount DEF IInv, TypeOK, Applying
      <4> QED
        BY <2>2, <3>1, <4>1, <4>2 DEF FinalizedFromBehind, Applying
    <3>3. CASE ~ \E q \in pages : p < q /\ Applying(q)
      <4>1. fault' = "table overrun" \/ UNCHANGED fault
        BY <2>2, <3>3 DEF ChangeLocale
      <4> QED
        BY <1>2, <3>1, <4>1 DEF FinalizedFromBehind, Applying
    <3> QED
      BY <3>2, <3>3
  <2>3. ASSUME Next, ~ \E p \in Relocale : ChangeLocale(p) PROVE FinalizedFromBehind'
    <3>1. fault = "none"
      BY <2>3 DEF Next
    <3>2. UNCHANGED fault
      BY <2>3 DEF Next, Running, ClickForward, NextPage, ApplyAgain, ApplyAtOnce, ApplyLocal,
         ApplyEnterprise, Confirm, EnterpriseDone, ClickBack, ClickCancel, Validate, Refresh,
         ScreenChange
    <3> QED
      BY <3>1, <3>2 DEF FinalizedFromBehind
  <2> QED
    BY <1>2, <2>1, <2>2, <2>3
<1>3. IInv /\ FinalizedFromBehind /\ [Next]_vars => (IInv /\ FinalizedFromBehind)'
  BY <1>2, NextInv
<1> QED
  BY <1>1, <1>3, InitInv, PTL DEF Spec

=============================================================================
