------------------------------ MODULE Livepatch ------------------------------
(***************************************************************************)
(* The Livepatch page (pages/livepatch/gis-livepatch-page.c) and the quit  *)
(* inhibitors of gis-driver.c it uses.                                     *)
(*                                                                         *)
(* The user sets Livepatch up (authorization, login dialog, token, then a  *)
(* D-Bus call that may take minutes) or signs out, moves between pages and *)
(* ends the wizard.  Every reply is a handler of the main loop.  The login *)
(* dialog and the error dialog run a main loop of their own inside their   *)
(* handler, so that other replies are handled while they are open, and the *)
(* one opened last must be closed first.                                   *)
(***************************************************************************)
EXTENDS Integers, Sequences, FiniteSets

CONSTANT MaxSetUps  (* bound on the clicks on "Set Up Livepatch…"          *)

ASSUME MaxSetUpsAssumption == MaxSetUps \in Nat

VARIABLES
  choice,      (* priv->user_current_choice                                *)
  waiting,     (* priv->waiting_for_livepatch_response                     *)
  token,       (* priv->token # NULL                                       *)
  account,     (* priv->goa_account # NULL                                 *)
  permission,  (* what priv->permission allows                             *)
  button,      (* setup_button is sensitive                                *)
  box,         (* message_box, with the sign-out button, is visible        *)
  message,     (* the text of message_label                                *)
  modal,       (* the dialogs open, the last one opened last               *)
  asking,      (* authorization requests in flight                         *)
  fetching,    (* token requests in flight                                 *)
  working,     (* SetLivepatchEnabled calls the service has not served     *)
  answers,     (* its replies not yet handled                              *)
  enabled,     (* the machine token of the service exists                  *)
  inhibit_count, quit_requested,  (* of the driver                         *)
  quitting,    (* g_application_quit has been called                       *)
  window,      (* the main window is shown                                 *)
  here,        (* the Livepatch page is the current page                   *)
  last,        (* what the last attempt to change the service came to      *)
  setUps       (* clicks on the set-up button so far                       *)

page == <<choice, waiting, token, account, permission>>
widgets == <<button, box, message>>
flights == <<asking, fetching>>
service == <<working, answers, enabled>>
driver == <<inhibit_count, quit_requested, quitting>>
history == <<last, setUps>>

vars == <<page, widgets, modal, flights, service, driver, window, here, history>>

Outcome == {"success", "failure"}

Request == {"enable", "disable"}

Wish(value) == IF value THEN "enable" ELSE "disable"

-----------------------------------------------------------------------------
(* gis-driver.c                                                            *)

(* Mistake: inhibiting is a flag, not a count.                             *)
InhibitFlag ==
  /\ inhibit_count' = 1
  /\ UNCHANGED <<quit_requested, quitting>>

(* gis_driver_inhibit_quit                                                 *)
Inhibit ==
  /\ inhibit_count' = inhibit_count + 1
  /\ UNCHANGED <<quit_requested, quitting>>

(* Mistake: a quit that was put off is not taken up.                       *)
UninhibitOnly ==
  /\ inhibit_count' = inhibit_count - 1
  /\ UNCHANGED <<quit_requested, quitting>>

(* gis_driver_uninhibit_quit                                               *)
Uninhibit ==
  /\ inhibit_count' = inhibit_count - 1
  /\ quitting' = (quitting \/ (inhibit_count = 1 /\ quit_requested))
  /\ UNCHANGED quit_requested

(* Mistake: the inhibitor is dropped before the next call takes its own.   *)
InhibitAgainLate ==
  /\ quitting' = (quitting \/ (inhibit_count = 1 /\ quit_requested))
  /\ UNCHANGED <<inhibit_count, quit_requested>>

(* An inhibitor is taken for the next call before the one for the call     *)
(* that ended is dropped: the count never reaches zero between the two.    *)
InhibitAgain == UNCHANGED driver

(* Mistake: the work that just ended is still counted.                     *)
QuitDriverOne ==
  /\ IF inhibit_count <= 1
     THEN quitting' = TRUE /\ UNCHANGED quit_requested
     ELSE quit_requested' = TRUE /\ UNCHANGED quitting
  /\ UNCHANGED inhibit_count

(* gis_driver_quit                                                         *)
QuitDriver ==
  /\ IF inhibit_count = 0
     THEN quitting' = TRUE /\ UNCHANGED quit_requested
     ELSE quit_requested' = TRUE /\ UNCHANGED quitting
  /\ UNCHANGED inhibit_count

(* g_application_quit ends the main loop, but not the loops of the dialogs *)
(* that run inside it.                                                     *)
Running == ~quitting \/ modal # <<>>

-----------------------------------------------------------------------------
Init ==
  /\ choice = FALSE /\ waiting = FALSE /\ token = FALSE /\ account = FALSE
  /\ permission \in {"allowed", "can acquire", "unavailable"}
  /\ button = TRUE /\ box = FALSE /\ message = ""
  /\ modal = <<>>
  /\ asking = 0 /\ fetching = 0
  /\ working = [r \in Request |-> 0]
  /\ answers = [o \in Outcome |-> 0]
  /\ enabled = FALSE
  /\ inhibit_count = 0 /\ quit_requested = FALSE /\ quitting = FALSE
  /\ window = TRUE
  /\ here \in BOOLEAN
  /\ last = "none" /\ setUps = 0

(* The user can click in the main window: it is shown, and no dialog is    *)
(* in front of it.                                                         *)
Clickable == Running /\ window /\ modal = <<>>

(* set_livepatch_enabled: either the proxy cannot be made, and nothing is  *)
(* sent, or the call is on its way.                                        *)
SetLivepatchEnabled(value, sent) ==
  /\ waiting' = (sent \/ waiting)
  /\ working' = IF sent THEN [working EXCEPT ![Wish(value)] = @ + 1] ELSE working
  /\ IF sent THEN Inhibit ELSE UNCHANGED driver
  /\ last' = IF sent THEN "sent" ELSE "not sent"

-----------------------------------------------------------------------------
(* Setting up.                                                             *)

(* The start of login_and_enable_livepatch: without a dialog the button is *)
(* handed back.                                                            *)
ShowLogin(sensitive) ==
  \/ modal' = Append(modal, "login") /\ button' = sensitive
  \/ UNCHANGED modal /\ button' = TRUE

(* on_setup_button_clicked                                                 *)
ClickSetUp ==
  /\ Clickable /\ here /\ button
  /\ setUps < MaxSetUps
  /\ setUps' = setUps + 1
  /\ \/ /\ permission = "can acquire"
        /\ asking' = asking + 1
        /\ button' = FALSE
        /\ UNCHANGED modal
     \/ /\ permission # "can acquire"
        /\ ShowLogin(FALSE)
        /\ UNCHANGED asking
  /\ UNCHANGED <<page, box, message, fetching, service, driver, window, here, last>>

(* on_livepatch_permission_acquired                                        *)
PermissionAcquired ==
  /\ Running
  /\ asking > 0
  /\ asking' = asking - 1
  /\ \/ permission' = "allowed" /\ ShowLogin(button)
     \/ UNCHANGED <<permission, button, modal>>                 (* denied   *)
     \/ button' = TRUE /\ UNCHANGED <<permission, modal>>        (* dismissed *)
  /\ UNCHANGED <<choice, waiting, token, account, box, message, fetching,
                 service, driver, window, here, history>>

Top(dialog) == modal # <<>> /\ modal[Len(modal)] = dialog

Close == modal' = SubSeq(modal, 1, Len(modal) - 1)

(* The rest of login_and_enable_livepatch, once the login dialog is closed.*)
LoginClosed ==
  /\ Top("login")
  /\ Close
  /\ \/ button' = TRUE /\ UNCHANGED <<account, fetching>>
     \/ account' = TRUE /\ fetching' = fetching + 1 /\ UNCHANGED button
  /\ UNCHANGED <<choice, waiting, token, permission, box, message, asking,
                 service, driver, window, here, history>>

(* on_livepatch_token_ready, with no token.                                *)
TokenFailed ==
  /\ Running
  /\ fetching > 0
  /\ fetching' = fetching - 1
  /\ button' = TRUE
  /\ UNCHANGED <<page, box, message, modal, asking, service, driver, window,
                 here, history>>

(* on_livepatch_token_ready, with a token.                                 *)
TokenReady(sent) ==
  /\ Running
  /\ fetching > 0
  /\ fetching' = fetching - 1
  /\ token' = TRUE
  /\ choice' = TRUE
  /\ box' = TRUE
  /\ SetLivepatchEnabled(TRUE, sent)
  /\ message' = IF sent THEN "enabling" ELSE "enable failed"
  /\ button' = (button \/ ~sent)
  /\ UNCHANGED <<account, permission, modal, asking, answers, enabled, window,
                 here, setUps>>

SignedOut ==
  /\ choice' = FALSE
  /\ account' = FALSE
  /\ token' = FALSE

(* on_signout_button_clicked                                               *)
SignOut(sent) ==
  /\ Clickable /\ here /\ box
  /\ SignedOut
  /\ IF ~waiting /\ enabled
     THEN SetLivepatchEnabled(FALSE, sent)
     ELSE UNCHANGED <<waiting, working, driver, last>>
  /\ button' = TRUE
  /\ box' = FALSE
  /\ UNCHANGED <<permission, message, modal, flights, answers, enabled, window,
                 here, setUps>>

-----------------------------------------------------------------------------
(* The service, com.ubuntu.SoftwareProperties, and its replies.            *)

(* A call that succeeds has done what it was asked to, one that fails or   *)
(* runs out of its 20 minutes may have.                                    *)
Serve(r) ==
  /\ working[r] > 0
  /\ working' = [working EXCEPT ![r] = @ - 1]
  /\ LET done == r = "enable"
     IN  \/ answers' = [answers EXCEPT !["success"] = @ + 1] /\ enabled' = done
         \/ answers' = [answers EXCEPT !["failure"] = @ + 1] /\ enabled' \in {enabled, done}
  /\ UNCHANGED <<page, widgets, modal, flights, driver, window, here, history>>

(* Mistake: only a missing enable is made up for.                          *)
DisagreesOff == choice /\ ~enabled

Disagrees == enabled # choice

(* Mistake: a reply does not end the waiting.                              *)
HandleWaiting(outcome, again) ==
  /\ Running
  /\ answers[outcome] > 0
  /\ answers' = [answers EXCEPT ![outcome] = @ - 1]
  /\ waiting' = (waiting \/ again)

(* A reply reaches on_livepatch_enabled, which may call again.             *)
Handle(outcome, again) ==
  /\ Running
  /\ answers[outcome] > 0
  /\ answers' = [answers EXCEPT ![outcome] = @ - 1]
  /\ waiting' = again

(* on_livepatch_enabled, when the service reports success.                 *)
EnabledSucceeded(sent) ==
  /\ Handle("success", Disagrees /\ sent)
  /\ IF Disagrees
     THEN /\ working' = IF sent THEN [working EXCEPT ![Wish(choice)] = @ + 1] ELSE working
          /\ IF sent THEN InhibitAgain ELSE Uninhibit
          /\ last' = IF sent THEN "sent" ELSE "not sent"
          /\ UNCHANGED message
     ELSE /\ Uninhibit
          /\ last' = "success"
          /\ message' = IF enabled THEN "enabled" ELSE message
          /\ UNCHANGED working
  /\ UNCHANGED <<choice, token, account, permission, button, box, modal, flights,
                 enabled, window, here, setUps>>

(* on_livepatch_enabled, when the call failed.  The inhibitor is dropped   *)
(* after the error dialog, if there is one.                                *)
EnabledFailed ==
  /\ Handle("failure", FALSE)
  /\ last' = "failure"
  /\ message' = IF ~Disagrees THEN message
                ELSE IF choice THEN "enable failed" ELSE "disable failed"
  /\ button' = (button \/ (Disagrees /\ choice))
  /\ IF Disagrees /\ ~here
     THEN modal' = Append(modal, "error") /\ UNCHANGED driver
     ELSE Uninhibit /\ UNCHANGED modal
  /\ UNCHANGED <<choice, token, account, permission, box, flights, working,
                 enabled, window, here, setUps>>

(* The user closes the error dialog.                                       *)
ErrorClosed ==
  /\ Top("error")
  /\ Close
  /\ Uninhibit
  /\ UNCHANGED <<page, widgets, flights, service, window, here, history>>

-----------------------------------------------------------------------------
(* The wizard around the page.                                             *)

ChangePage ==
  /\ Clickable
  /\ here' = ~here
  /\ UNCHANGED <<page, widgets, modal, flights, service, driver, window, history>>

(* gis_apps_page_apply, on the last page.                                  *)
Finish ==
  /\ Clickable /\ ~here
  /\ QuitDriver
  /\ window' = (inhibit_count = 0)
  /\ UNCHANGED <<page, widgets, modal, flights, service, here, history>>

(* gis_driver_activate: starting the program again presents its window.    *)
Activate ==
  /\ Running
  /\ window' = TRUE
  /\ UNCHANGED <<page, widgets, modal, flights, service, driver, here, history>>

Answered ==
  \/ \E sent \in BOOLEAN : EnabledSucceeded(sent)
  \/ EnabledFailed

Next ==
  \/ ClickSetUp
  \/ PermissionAcquired
  \/ LoginClosed
  \/ TokenFailed
  \/ \E sent \in BOOLEAN : TokenReady(sent)
  \/ \E sent \in BOOLEAN : SignOut(sent)
  \/ \E r \in Request : Serve(r)
  \/ Answered
  \/ ErrorClosed
  \/ ChangePage
  \/ Finish
  \/ Activate

Spec == Init /\ [][Next]_vars

(* D-Bus answers every call within its timeout and the main loop handles   *)
(* every reply; the user closes the dialogs in front of him.               *)
Fairness ==
  /\ WF_vars(\E r \in Request : Serve(r))
  /\ WF_vars(Answered)
  /\ WF_vars(LoginClosed)
  /\ WF_vars(ErrorClosed)

FairSpec == Spec /\ Fairness

-----------------------------------------------------------------------------
(* Properties.                                                             *)

Dialog == {"login", "error"}

Open(dialog) == Cardinality({i \in 1..Len(modal) : modal[i] = dialog})

(* Calls on their way, at the service, or answered and not yet handled.    *)
InFlight == working["enable"] + working["disable"] + answers["success"] + answers["failure"]

(* Every variable has its type; no counter goes below zero.                *)
TypeOK ==
  /\ choice \in BOOLEAN /\ waiting \in BOOLEAN /\ token \in BOOLEAN
  /\ account \in BOOLEAN
  /\ permission \in {"allowed", "can acquire", "unavailable"}
  /\ button \in BOOLEAN /\ box \in BOOLEAN
  /\ message \in {"", "enabling", "enabled", "enable failed", "disable failed"}
  /\ modal \in Seq(Dialog)
  /\ asking \in Nat /\ fetching \in Nat
  /\ working \in [Request -> Nat]
  /\ answers \in [Outcome -> Nat]
  /\ enabled \in BOOLEAN
  /\ inhibit_count \in Nat /\ quit_requested \in BOOLEAN /\ quitting \in BOOLEAN
  /\ window \in BOOLEAN /\ here \in BOOLEAN
  /\ last \in {"none", "sent", "not sent"} \cup Outcome
  /\ setUps \in 0..MaxSetUps

(* A quit is put off by exactly the calls whose reply has not been handled *)
(* and the failures the user has not acknowledged: neither a retry nor a   *)
(* failure part-way loses an inhibitor or keeps one.                       *)
InhibitorsCountCalls == inhibit_count = InFlight + Open("error")

(* A call that enables Livepatch, the first or a retry after a change of   *)
(* mind, has a token to send.                                              *)
EnableHasToken == (choice => token) /\ (box => token)

(* The page believes it waits for a reply only while one is on its way:    *)
(* otherwise signing out would leave Livepatch on for want of an answer.   *)
WaitingForACall == waiting => InFlight > 0

(* Once the last call has been answered with success, Livepatch is what    *)
(* the user chose, however often the choice changed while calls were in    *)
(* flight.                                                                 *)
SuccessSettles == InFlight = 0 /\ last = "success" => enabled = choice

(* The two together: the page knows its calls, and so what becomes of them.*)
AnswersSettle == WaitingForACall /\ SuccessSettles

(* The decision to quit is taken only when nothing puts it off.            *)
QuitPutOff ==
  [][quitting' # quitting => inhibit_count' = 0 /\ InFlight' = 0]_vars

(* A user who ended the wizard sees it end.                                *)
QuitsInTheEnd == quit_requested ~> ~Running

(* The quit inhibitors as promised.                                        *)
Quit == INSTANCE DeferredQuit WITH
  pending <- inhibit_count,
  asked   <- quit_requested,
  quit    <- quitting

DeferredQuitSpec == Quit!Spec

=============================================================================
