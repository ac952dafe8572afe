--------------------------- MODULE EnterpriseJoin ---------------------------
(***************************************************************************)
(* The enterprise half of the account page: applying it discovers a realm, *)
(* checks the user's password with Kerberos, joins the machine to the      *)
(* domain (as the user, or as an administrator asked for in a dialog),     *)
(* permits the user to log in and registers him with AccountsService.      *)
(* (pages/account/gis-account-page-enterprise.c, um-realm-manager.c)       *)
(*                                                                         *)
(* Every step is a call whose reply is a handler of the main loop.  The    *)
(* entries of the page stay editable meanwhile, the user may cancel, and   *)
(* realmd may leave the bus and come back.                                 *)
(***************************************************************************)
EXTENDS Naturals

CONSTANTS
  Users,        (* what the login and password entries can hold            *)
  None,         (* no user                                                 *)
  MaxApplies,   (* bound on the applies                                    *)
  MaxPrompts,   (* bound on the administrators tried in one apply          *)
  MaxManagers   (* bound on the times realmd appears                       *)

ASSUME UsersAssumption == Users # {} /\ None \notin Users
ASSUME BoundsAssumption ==
  MaxApplies \in Nat /\ MaxPrompts \in Nat /\ MaxManagers \in Nat

VARIABLES
  phase,      (* the call whose reply is awaited, or how the apply ended   *)
  cancelled,  (* the cancellable of the apply has been cancelled           *)
  heeds,      (* the administrator's log-in was given the cancellable      *)
  prompted,   (* priv->join_prompted                                       *)
  prompts,    (* administrators tried in this apply                        *)
  applies,    (* applies so far                                            *)
  valid,      (* what the last apply_complete said                         *)
  entry,      (* the user named in the login entry, with his password      *)
  tried,      (* the user whose password Kerberos was asked about last     *)
  cached,     (* the user registered with AccountsService, priv->act_user  *)
  offers,     (* what the realm supports                                   *)
  configured, (* the machine is a member of the domain                     *)
  manager,    (* priv->realm_manager: its number, 0 when there is none     *)
  made,       (* managers made so far                                      *)
  connecting, (* managers being made                                       *)
  asked,      (* the manager the discovery was asked of                    *)
  visible,    (* the enterprise page is shown                              *)
  listed,     (* the domain's realm is in realms_model                     *)
  known,      (* the combo box has that realm selected                     *)
  chosen      (* priv->domain_chosen                                       *)

apply == <<cancelled, heeds, prompted, prompts, applies, valid>>
account == <<tried, cached>>
realm == <<offers, configured>>
realmd == <<manager, made, connecting, visible>>
domain == <<listed, known, chosen>>

vars == <<phase, apply, entry, account, realm, realmd, asked, domain>>

Feature == {"user", "admin", "format"}

Waiting == {"discovering", "checking", "joining", "prompting", "naming",
            "checking admin", "joining as admin", "permitting"}

(* stranded: no call is in flight and apply_complete was not called.       *)
(* aborted: an assertion failed.  crashed: NULL was read for an error.     *)
Phase == Waiting \cup {"idle", "stranded", "aborted", "crashed"}

Dead == phase \in {"aborted", "crashed"}

Init ==
  /\ phase = "idle"
  /\ cancelled = FALSE /\ heeds = FALSE /\ prompted = FALSE /\ prompts = 0
  /\ applies = 0 /\ valid = FALSE
  /\ entry \in Users
  /\ tried = None /\ cached = None
  /\ offers \in SUBSET Feature /\ configured \in BOOLEAN
  /\ manager = 0 /\ made = 0 /\ connecting = 0 /\ asked = 0
  /\ visible = TRUE /\ listed = FALSE /\ known = FALSE /\ chosen = FALSE

-----------------------------------------------------------------------------
(* The steps of an apply.                                                  *)

(* apply_complete, as it leaves the page.                                  *)
Complete(v) == phase' = "idle" /\ valid' = v

(* enterprise_check_login: Kerberos gets a copy of the entries of now.     *)
CheckLogin == phase' = "checking" /\ tried' = entry

(* enterprise_permit_user_login                                            *)
PermitLogin ==
  phase' = IF "format" \in offers THEN "permitting" ELSE "stranded"

(* join_show_prompt, which reads the error when it has prompted before.    *)
ShowPrompt(error) ==
  /\ phase' = IF prompted /\ ~error THEN "crashed" ELSE "prompting"
  /\ prompted' = TRUE

(* enterprise_add_user.  Without a manager um_realm_manager_discover       *)
(* returns and its callback is never called.                               *)
AddUser ==
  \/ known /\ CheckLogin /\ UNCHANGED asked
  \/ ~known /\ manager = 0 /\ phase' = "stranded" /\ UNCHANGED <<asked, tried>>
  \/ ~known /\ manager # 0 /\ phase' = "discovering" /\ asked' = manager /\ UNCHANGED tried

(* Mistake: the page still thinks it has prompted.                         *)
ApplyPrompted ==
  /\ phase = "idle" /\ chosen
  /\ applies < MaxApplies
  /\ applies' = applies + 1
  /\ cancelled' = FALSE /\ prompts' = 0
  /\ AddUser
  /\ UNCHANGED <<heeds, prompted, valid, entry, cached, realm, realmd, domain>>

(* gis_account_page_enterprise_apply.  The page is complete only when it   *)
(* has a domain, so one has been chosen or typed.                          *)
Apply ==
  /\ phase = "idle" /\ chosen
  /\ applies < MaxApplies
  /\ applies' = applies + 1
  /\ cancelled' = FALSE /\ prompted' = FALSE /\ prompts' = 0
  /\ AddUser
  /\ UNCHANGED <<heeds, valid, entry, cached, realm, realmd, domain>>

(* Mistake: a discovery that was refused is only remarked on.              *)
DiscoveredSilently(found) ==
  /\ phase = "discovering"
  /\ found => ~cancelled
  /\ found /\ manager = asked /\ CheckLogin
  /\ UNCHANGED <<apply, entry, cached, realm, realmd, asked, domain>>

(* on_realm_discover_input.  A reply that belongs to another manager than  *)
(* the one of now is neither a realm nor an error.                         *)
Discovered(found) ==
  /\ phase = "discovering"
  /\ found => ~cancelled
  /\ \/ manager # asked /\ phase' = "aborted" /\ UNCHANGED <<tried, valid>>
     \/ manager = asked /\ found /\ CheckLogin /\ UNCHANGED valid
     \/ manager = asked /\ ~found /\ Complete(FALSE) /\ UNCHANGED tried
  /\ UNCHANGED <<cancelled, heeds, prompted, prompts, applies, entry,
                 cached, realm, realmd, asked, domain>>

(* What becomes of asking Kerberos; an answer that is none (CANNOT_AUTH)   *)
(* is a log-in without credentials.                                        *)
Answer == {"credentials", "no credentials", "refused"}

(* on_realm_login                                                          *)
Checked(answer) ==
  /\ phase = "checking"
  /\ cancelled => answer = "refused"
  /\ \/ /\ answer = "refused"
        /\ Complete(FALSE)
        /\ UNCHANGED prompted
     \/ /\ answer # "refused" /\ configured
        /\ PermitLogin
        /\ UNCHANGED <<prompted, valid>>
     \/ /\ answer # "refused" /\ ~configured
        /\ IF answer = "credentials" /\ "user" \in offers
           THEN phase' = "joining" /\ UNCHANGED prompted
           ELSE ShowPrompt(FALSE)
        /\ UNCHANGED valid
  /\ UNCHANGED <<cancelled, heeds, prompts, applies, entry, tried, cached, realm,
                 realmd, asked, domain>>

(* Mistake: a bad host name is not taken for a failure to join.            *)
JoinedBadly(outcome) ==
  /\ phase \in {"joining", "joining as admin"}
  /\ phase = "joining" /\ cancelled => outcome = "failed"
  /\ configured' \in IF outcome = "joined" THEN {TRUE} ELSE {configured, TRUE}
  /\ \/ outcome # "failed" /\ PermitLogin /\ UNCHANGED <<prompted, valid>>
     \/ outcome = "failed" /\ Complete(FALSE) /\ UNCHANGED prompted
  /\ UNCHANGED <<cancelled, heeds, prompts, applies, entry, tried, cached, offers,
                 realmd, asked, domain>>

(* on_realm_joined.  Only a join as the user can be cancelled, and one that*)
(* failed or was cancelled may yet have been carried out.                  *)
Joined(outcome) ==
  /\ phase \in {"joining", "joining as admin"}
  /\ phase = "joining" /\ cancelled => outcome = "failed"
  /\ configured' \in IF outcome = "joined" THEN {TRUE} ELSE {configured, TRUE}
  /\ \/ outcome = "joined" /\ PermitLogin /\ UNCHANGED <<prompted, valid>>
     \/ outcome = "bad credentials" /\ ShowPrompt(TRUE) /\ UNCHANGED valid
     \/ outcome = "failed" /\ Complete(FALSE) /\ UNCHANGED prompted
  /\ UNCHANGED <<cancelled, heeds, prompts, applies, entry, tried, cached, offers,
                 realmd, asked, domain>>

(* on_join_response, when the dialog is dismissed.                         *)
Dismiss ==
  /\ phase = "prompting"
  /\ Complete(FALSE)
  /\ UNCHANGED <<cancelled, heeds, prompted, prompts, applies, entry, account,
                 realm, realmd, asked, domain>>

(* on_join_response, with an administrator.  When the computer is to have  *)
(* another name, that comes first.  The bus is asked for with the          *)
(* cancellable, but one that is connected already is got all the same.     *)
TryAdmin ==
  /\ phase = "prompting"
  /\ prompts < MaxPrompts
  /\ prompts' = prompts + 1
  /\ \/ phase' = "checking admin" /\ heeds' = FALSE /\ UNCHANGED valid
     \/ phase' = "naming" /\ UNCHANGED <<heeds, valid>>
     \/ Complete(FALSE) /\ UNCHANGED heeds                       (* no bus *)
  /\ UNCHANGED <<cancelled, prompted, applies, entry, account, realm, realmd,
                 asked, domain>>

(* on_set_static_hostname                                                  *)
HostNamed(ok) ==
  /\ phase = "naming"
  /\ IF ok
     THEN phase' = "checking admin" /\ heeds' = TRUE /\ UNCHANGED prompted
     ELSE ShowPrompt(TRUE) /\ UNCHANGED heeds
  /\ UNCHANGED <<cancelled, prompts, applies, valid, entry, account, realm,
                 realmd, asked, domain>>

(* on_join_login                                                           *)
AdminChecked(answer) ==
  /\ phase = "checking admin"
  /\ heeds /\ cancelled => answer = "refused"
  /\ IF answer = "refused"
     THEN ShowPrompt(TRUE)
     ELSE /\ phase' = IF answer = "credentials" /\ "admin" \in offers
                      THEN "joining as admin" ELSE "stranded"
          /\ UNCHANGED prompted
  /\ UNCHANGED <<cancelled, heeds, prompts, applies, valid, entry, account, realm,
                 realmd, asked, domain>>

(* Mistake: the call that permits the log-in is not given the cancellable. *)
PermittedAnyway(ok) ==
  /\ phase = "permitting"
  /\ Complete(ok)
  /\ cached' \in IF ok THEN {entry, None} ELSE {cached}
  /\ UNCHANGED <<cancelled, heeds, prompted, prompts, applies, entry, tried,
                 realm, realmd, asked, domain>>

(* on_permit_user_login, which reads the login entry once more.            *)
(* AccountsService may fail to make the user: nothing looks at its answer. *)
Permitted(ok) ==
  /\ phase = "permitting"
  /\ ok => ~cancelled
  /\ Complete(ok)
  /\ cached' \in IF ok THEN {entry, None} ELSE {cached}
  /\ UNCHANGED <<cancelled, heeds, prompted, prompts, applies, entry, tried,
                 realm, realmd, asked, domain>>

-----------------------------------------------------------------------------
(* What the user does meanwhile.  The dialog is in front of the page.      *)

Reachable == phase # "prompting" /\ ~Dead
Editable == Reachable /\ visible

(* do_cancel                                                               *)
Cancel ==
  /\ Reachable /\ phase # "idle"
  /\ cancelled' = TRUE
  /\ UNCHANGED <<phase, heeds, prompted, prompts, applies, valid, entry, account,
                 realm, realmd, asked, domain>>

(* on_entry_changed                                                        *)
EditEntry ==
  /\ Editable
  /\ entry' \in Users
  /\ UNCHANGED <<phase, apply, account, realm, realmd, asked, domain>>

(* on_domain_changed                                                       *)
EditDomain ==
  /\ Editable
  /\ chosen' = TRUE
  /\ known' \in {listed, FALSE}
  /\ UNCHANGED <<phase, apply, entry, account, realm, realmd, asked, listed>>

-----------------------------------------------------------------------------
(* realmd comes and goes.                                                  *)

(* on_realmd_appeared                                                      *)
RealmdAppeared ==
  /\ ~Dead
  /\ made + connecting < MaxManagers
  /\ connecting' = connecting + 1
  /\ UNCHANGED <<phase, apply, entry, account, realm, manager, made, visible, asked, domain>>

(* enterprise_add_realm: a realm the machine is already in becomes the     *)
(* domain, unless the user has chosen one.                                 *)
AddRealm ==
  IF listed
  THEN UNCHANGED domain
  ELSE /\ listed' = TRUE
       /\ known' = (known \/ (configured /\ ~chosen))
       /\ chosen' = (chosen \/ configured)

(* on_realm_manager_created                                                *)
ManagerCreated(ok) ==
  /\ ~Dead
  /\ connecting > 0
  /\ connecting' = connecting - 1
  /\ made' = made + 1
  /\ manager' = IF ok THEN made' ELSE 0
  /\ visible' = (visible \/ ok)
  /\ (ok /\ AddRealm) \/ UNCHANGED domain
  /\ UNCHANGED <<phase, apply, entry, account, realm, asked>>

(* on_manager_realm_added                                                  *)
RealmAdded ==
  /\ ~Dead
  /\ manager # 0
  /\ AddRealm
  /\ UNCHANGED <<phase, apply, entry, account, realm, realmd, asked>>

(* on_realmd_disappeared                                                   *)
RealmdDisappeared ==
  /\ ~Dead
  /\ manager' = 0 /\ visible' = FALSE
  /\ UNCHANGED <<phase, apply, entry, account, realm, made, connecting, asked, domain>>

Replied ==
  \/ \E found \in BOOLEAN : Discovered(found)
  \/ \E answer \in Answer : Checked(answer) \/ AdminChecked(answer)
  \/ \E outcome \in {"joined", "bad credentials", "failed"} : Joined(outcome)
  \/ \E ok \in BOOLEAN : HostNamed(ok) \/ Permitted(ok)

Responded == Dismiss \/ TryAdmin

Next ==
  \/ Apply
  \/ Replied
  \/ Responded
  \/ Cancel
  \/ EditEntry
  \/ EditDomain
  \/ RealmdAppeared
  \/ \E ok \in BOOLEAN : ManagerCreated(ok)
  \/ RealmAdded
  \/ RealmdDisappeared

Spec == Init /\ [][Next]_vars

(* Every call is answered, and the user answers the dialog.                *)
FairSpec == Spec /\ WF_vars(Replied) /\ WF_vars(Responded)

-----------------------------------------------------------------------------
(* Properties.                                                             *)

(* Every variable has its type.                                            *)
TypeOK ==
  /\ phase \in Phase
  /\ cancelled \in BOOLEAN /\ heeds \in BOOLEAN /\ prompted \in BOOLEAN
  /\ valid \in BOOLEAN /\ configured \in BOOLEAN
  /\ visible \in BOOLEAN /\ listed \in BOOLEAN
  /\ known \in BOOLEAN /\ chosen \in BOOLEAN
  /\ prompts \in 0..MaxPrompts /\ applies \in 0..MaxApplies
  /\ entry \in Users
  /\ {tried, cached} \subseteq Users \cup {None}
  /\ offers \in SUBSET Feature
  /\ made \in Nat /\ connecting \in Nat /\ made + connecting <= MaxManagers
  /\ manager \in 0..made /\ asked \in 0..made

(* Nobody is let in before the machine is a member of the domain: neither  *)
(* a refused join nor one that was cancelled goes on to the user's log-in. *)
MembersOnly == phase = "permitting" => configured

(* An apply the user cancelled registers nobody and is not taken for valid,*)
(* whichever of its calls was in flight and whether or not it had the      *)
(* cancellable.                                                            *)
CancelHolds ==
  [][cancelled /\ phase # "idle" => cached' = cached /\ (phase' = "idle" => ~valid')]_vars

(* Whoever is asked a second time for an administrator is told why: the    *)
(* dialog that reads the error of the last attempt never reads none.       *)
PromptHasReason == phase # "crashed"

(* An apply ends, unless its handlers left it stranded or the program died.*)
ApplyEnds == phase # "idle" ~> phase = "idle" \/ phase = "stranded" \/ Dead

(* There are three ways to strand an apply, none of them the user's: a     *)
(* typed domain and no realmd, a realm that knows no form of log-in, an    *)
(* administrator's log-in the realm takes no join from.                    *)
StrandedByRealm ==
  [][phase' = "stranded" /\ phase # "stranded" =>
       \/ phase = "idle" /\ manager = 0 /\ ~known
       \/ "format" \notin offers
       \/ phase = "checking admin"]_vars

=============================================================================
