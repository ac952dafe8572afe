----------------------------- MODULE AuthDialog -----------------------------
(***************************************************************************)
(* The dialog in which the user picks the Ubuntu One account for Livepatch *)
(* or makes one: a list kept in step with GOA, credentials that are asked  *)
(* for before the dialog answers, and dialogs of GOA's own that run in     *)
(* front of it.  (pages/livepatch/gis-auth-dialog.c)                       *)
(***************************************************************************)
EXTENDS Sequences, SequencesExt, Naturals

CONSTANTS
  Users,       (* accounts there may be                                    *)
  Ubuntu,      (* those of type "ubuntusso"                                *)
  Initial,     (* the lists that setup_model may find                      *)
  MaxChanges   (* bound on clicks and on what happens to the accounts      *)

VARIABLES
  accounts,            (* those that goa_client knows of                   *)
  liststore_account,
  combobox_account,    (* its active row                                   *)
  ensuring,            (* how often the credentials of each are asked for  *)
  sso,                 (* GOA's dialogs, the one in front last: "add", or  *)
                       (* the account whose credentials it refreshes       *)
  error_bar, error_timeout,
  response,            (* gtk_dialog_response: "ok", "cancel"              *)
  open,
  account_id,          (* what the caller gets                             *)
  unheard, good, rechosen,  (* history: accounts added while the handler   *)
                       (* was blocked, those GOA found good, and whether   *)
                       (* another was chosen while an answer was out       *)
  changes

list == <<liststore_account, combobox_account>>
answer == <<response, open, account_id>>
history == <<unheard, good, rechosen>>
vars == <<accounts, list, ensuring, sso, error_bar, error_timeout, answer, history, changes>>

None == "none"
Nobody == [a \in Ubuntu |-> 0]
Change == open /\ changes < MaxChanges /\ changes' = changes + 1

(* The user can reach the dialog: none of GOA's is in front, and it has    *)
(* not been answered.                                                      *)
Reachable == sso = <<>> /\ response = None

-----------------------------------------------------------------------------
(* gis_auth_dialog_get_selected_account                                    *)
SelectedOf(rows, active) ==
  IF rows = <<>> THEN None ELSE IF Len(rows) = 1 THEN rows[1] ELSE active
Selected == SelectedOf(liststore_account, combobox_account)

(* Mistake: the row that was removed is not made up for.                   *)
check_ui_chosen(select) ==
  combobox_account' =
    IF Len(liststore_account') > 1 /\ select THEN Last(liststore_account')
    ELSE IF combobox_account \in ToSet(liststore_account') THEN combobox_account
    ELSE None

(* check_ui, after the list was changed: the combo box, whose active row   *)
(* may be the one that went, is shown for two accounts or more.            *)
check_ui(select) ==
  combobox_account' =
    IF Len(liststore_account') > 1 /\ select THEN Last(liststore_account')
    ELSE IF combobox_account \in ToSet(liststore_account') THEN combobox_account
    ELSE IF Len(liststore_account') > 1 THEN liststore_account'[1]
    ELSE None

add_account(a, select) ==
  IF a \notin Ubuntu \/ a \in ToSet(liststore_account) THEN UNCHANGED list
  ELSE liststore_account' = Append(liststore_account, a) /\ check_ui(select)

remove_account(a) ==
  IF a \notin Ubuntu \/ a \notin ToSet(liststore_account) THEN UNCHANGED list
  ELSE /\ \E i \in DOMAIN liststore_account : liststore_account[i] = a
                                            /\ liststore_account' = RemoveAt(liststore_account, i)
       /\ check_ui(FALSE)

set_error(text) == error_bar' = text /\ error_timeout' = text

(* response_if_valid, of the list as it is by then.                        *)
response_if_valid(rows, active) ==
  LET a == SelectedOf(rows, active)
  IN  ensuring' = IF a = None THEN ensuring ELSE [ensuring EXCEPT ![a] = @ + 1]

Asked == \E a \in Ubuntu : ensuring[a] > 0
Moved == rechosen' = (rechosen \/ (Selected' # Selected
                                   /\ (Asked \/ sso # <<>> \/ response # None)))

-----------------------------------------------------------------------------
(* gis_auth_dialog_initable_init; the handlers are connected at once.      *)
Init ==
  /\ liststore_account \in Initial
  /\ accounts \in {ToSet(liststore_account) \cup others : others \in SUBSET (Users \ Ubuntu)}
  /\ combobox_account = IF Len(liststore_account) > 1 THEN liststore_account[1] ELSE None
  /\ ensuring = Nobody /\ sso = <<>> /\ error_bar = FALSE /\ error_timeout = FALSE
  /\ response = None /\ open = TRUE /\ account_id = None
  /\ unheard = {} /\ good = {} /\ rechosen = FALSE /\ changes = 0

(* account_added_cb, which is blocked while an account is being added here *)
AccountAdded(a) ==
  /\ Change /\ a \notin accounts /\ accounts' = accounts \cup {a}
  /\ IF "add" \in ToSet(sso) THEN UNCHANGED list /\ unheard' = unheard \cup {a}
     ELSE add_account(a, FALSE) /\ UNCHANGED unheard
  /\ UNCHANGED <<ensuring, sso, error_bar, error_timeout, answer, good>>
  /\ Moved

(* account_removed_cb                                                      *)
AccountRemoved(a) ==
  /\ Change /\ a \in accounts /\ accounts' = accounts \ {a}
  /\ remove_account(a)
  /\ unheard' = unheard \ {a}
  /\ UNCHANGED <<ensuring, sso, error_bar, error_timeout, answer, good>>
  /\ Moved

(* The combo box, which two accounts or more have.                         *)
Chosen(a) ==
  /\ Change /\ Reachable /\ Len(liststore_account) > 1
  /\ a \in ToSet(liststore_account) \ {combobox_account}
  /\ combobox_account' = a
  /\ UNCHANGED <<accounts, liststore_account, ensuring, sso, error_bar, error_timeout, answer,
                 unheard, good>>
  /\ Moved

(* button_continue_cb, with an account                                     *)
Continue ==
  /\ Change /\ Reachable /\ liststore_account # <<>>
  /\ response_if_valid(liststore_account, combobox_account)
  /\ UNCHANGED <<accounts, list, sso, error_bar, error_timeout, answer, history>>

(* button_add_another_cb, by its button or by button_continue_cb without   *)
(* an account: a dialog, or the error that there is no such provider.      *)
AddAnother ==
  /\ Change /\ Reachable
  /\ \/ sso' = <<"add">> /\ UNCHANGED <<error_bar, error_timeout>>
     \/ set_error(TRUE) /\ UNCHANGED sso
  /\ UNCHANGED <<accounts, list, ensuring, answer, history>>

Top(dialog) == sso # <<>> /\ Last(sso) = dialog

(* The rest of button_add_another_cb: an account, which the list may have  *)
(* already, an error, or NULL.                                             *)
Added(a) ==
  /\ Top("add") /\ a \in Ubuntu /\ sso' = Front(sso)
  /\ accounts' = accounts \cup {a} /\ good' = good \cup {a} /\ unheard' = unheard \ {a}
  /\ add_account(a, TRUE)
  /\ response_if_valid(liststore_account', combobox_account')
  /\ UNCHANGED <<error_bar, error_timeout, answer, rechosen, changes>>

NotAdded(error) ==
  /\ Top("add") /\ sso' = Front(sso)
  /\ IF error THEN set_error(TRUE) ELSE UNCHANGED <<error_bar, error_timeout>>
  /\ UNCHANGED <<accounts, list, ensuring, answer, history, changes>>

EnsureFinished(a) ==
  a \in Ubuntu /\ ensuring[a] > 0 /\ ensuring' = [ensuring EXCEPT ![a] = @ - 1]

(* ensure_crendentials_cb: TRUE ...                                        *)
CredentialsGood(a) ==
  /\ EnsureFinished(a)
  /\ response' = "ok" /\ good' = good \cup {a}
  /\ UNCHANGED <<accounts, list, sso, error_bar, error_timeout, open, account_id, unheard,
                 rechosen, changes>>

(* ... GOA_ERROR_NOT_AUTHORIZED: the dialog to refresh them, unless there  *)
(* is no such provider, or GOA has the account no more ...                 *)
CredentialsExpired(a) ==
  /\ EnsureFinished(a)
  /\ \/ a \in accounts /\ sso' = Append(sso, a) /\ UNCHANGED <<error_bar, error_timeout>>
     \/ set_error(TRUE) /\ UNCHANGED sso
     \/ a \notin accounts /\ UNCHANGED <<sso, error_bar, error_timeout>>
  /\ UNCHANGED <<accounts, list, answer, history, changes>>

(* ... and any other error is ignored.                                     *)
CredentialsUnknown(a) ==
  /\ EnsureFinished(a)
  /\ UNCHANGED <<accounts, list, sso, error_bar, error_timeout, answer, history, changes>>

(* Mistake: a refresh that was dismissed is as good as one that was not.   *)
RefreshEndsOk(a, outcome) ==
  /\ Top(a) /\ sso' = Front(sso) /\ response' = "ok"
  /\ good' = IF outcome = "good" THEN good \cup {a} ELSE good
  /\ IF outcome = "error" THEN set_error(TRUE) ELSE UNCHANGED <<error_bar, error_timeout>>
  /\ UNCHANGED <<accounts, list, ensuring, open, account_id, unheard, rechosen, changes>>

(* The rest of ensure_crendentials_cb, when GOA's dialog has ended.        *)
RefreshEnds(a, outcome) ==
  /\ Top(a) /\ sso' = Front(sso)
  /\ IF outcome = "good" THEN response' = "ok" /\ good' = good \cup {a}
     ELSE UNCHANGED <<response, good>>
  /\ IF outcome = "error" THEN set_error(TRUE) ELSE UNCHANGED <<error_bar, error_timeout>>
  /\ UNCHANGED <<accounts, list, ensuring, open, account_id, unheard, rechosen, changes>>

(* gis_auth_dialog_error_timeout_cb                                        *)
ErrorTimeout ==
  /\ error_timeout /\ set_error(FALSE)
  /\ UNCHANGED <<accounts, list, ensuring, sso, answer, history, changes>>

(* button_cancel_cb, or the dialog is closed.                              *)
Cancel ==
  /\ open /\ Reachable /\ response' = "cancel"
  /\ UNCHANGED <<accounts, list, ensuring, sso, error_bar, error_timeout, open, account_id,
                 history, changes>>

(* Mistake: dispose forgets the timer.                                     *)
AnsweredTimed ==
  /\ open /\ sso = <<>> /\ response # None /\ open' = FALSE
  /\ account_id' = IF response = "ok" THEN Selected ELSE None
  /\ ensuring' = Nobody /\ UNCHANGED <<error_bar, error_timeout>>
  /\ UNCHANGED <<accounts, list, sso, response, history, changes>>

(* gtk_dialog_run returns once no dialog is in front: account_id is asked  *)
(* for then, and dispose cancels what is still being asked for.            *)
Answered ==
  /\ open /\ sso = <<>> /\ response # None /\ open' = FALSE
  /\ account_id' = IF response = "ok" THEN Selected ELSE None
  /\ ensuring' = Nobody /\ error_timeout' = FALSE
  /\ UNCHANGED <<accounts, list, sso, error_bar, response, history, changes>>

Next ==
  \/ Continue \/ AddAnother \/ ErrorTimeout \/ Cancel \/ Answered
  \/ \E error \in BOOLEAN : NotAdded(error)
  \/ \E a \in Users :
       \/ AccountAdded(a) \/ AccountRemoved(a) \/ Chosen(a) \/ Added(a)
       \/ CredentialsGood(a) \/ CredentialsExpired(a) \/ CredentialsUnknown(a)
       \/ \E outcome \in {"good", "error", "dismissed"} : RefreshEnds(a, outcome)

Spec == Init /\ [][Next]_vars

-----------------------------------------------------------------------------
TypeOK ==
  /\ liststore_account \in Seq(Ubuntu) /\ combobox_account \in Ubuntu \cup {None}
  /\ ensuring \in [Ubuntu -> Nat] /\ sso \in Seq(Users \cup {"add"})
  /\ open => error_bar = error_timeout

(* In whatever order accounts come and go, with GOA's dialogs in front of  *)
(* the list or not: it has each Ubuntu One account GOA knows of once, but  *)
(* for those another program added while one was added here, and where the *)
(* user has the choice, one of them is chosen.                             *)
ListIsGoas ==
  open =>
    /\ ToSet(liststore_account) = (accounts \cap Ubuntu) \ unheard
    /\ IsInjective(liststore_account)
    /\ Len(liststore_account) > 1 => combobox_account \in ToSet(liststore_account)

(* The account that Livepatch is given is one GOA has found good, or was   *)
(* chosen while an answer was out.                                         *)
UsedIsGood == account_id # None => account_id \in good \/ rechosen

NoTimerOutlivesDialog == error_timeout => open
=============================================================================
