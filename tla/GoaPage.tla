------------------------------ MODULE GoaPage -------------------------------
(***************************************************************************)
(* The online accounts page: a row for each provider that is offered, kept *)
(* in step with the accounts that GOA's daemon tells of, and a page that   *)
(* comes and goes with the network.  (pages/goa/gis-goa-page.c)            *)
(***************************************************************************)
EXTENDS Sequences, SequencesExt, FiniteSetsExt, Naturals

CONSTANTS
  Offered,     (* providers that have a row: the program's or the vendor's *)
  Accounts,    (* accounts there may be                                    *)
  TypeOf,      (* the provider type of each                                *)
  MaxChanges   (* bound on what happens to the accounts and the network    *)

VARIABLES
  goa_client,  (* FALSE: GOA could not be reached when the page was made   *)
  conf_providers,  (* the vendor's file has named the providers            *)
  available,   (* g_network_monitor_get_network_available                  *)
  accounts,    (* goa_client_get_accounts, in order                        *)
  accounts_exist,
  displayed_account,
  visible, skippable, complete,
  current,     (* it is the assistant's current page                       *)
  dialog,      (* the provider whose "Add Account" dialog runs             *)
  changes

page == <<accounts_exist, displayed_account, skippable, complete>>
machine == <<goa_client, conf_providers>>
vars == <<machine, available, accounts, page, visible, current, dialog, changes>>

None == "none"
Change == changes < MaxChanges /\ changes' = changes + 1

-----------------------------------------------------------------------------
(* Mistake: the page goes from under the user's hands.                     *)
sync_visibility_always(exist, net) == visible' = (exist \/ net)

sync_visibility(exist, net) ==
  visible' = IF current THEN visible ELSE exist \/ net

(* g_hash_table_lookup: where in the list the accounts are whose row is    *)
(* found.  The table keeps the strings the rows were made for and no copy: *)
(* literals for the program's own list, but the vendor's are freed when    *)
(* populate_provider_list returns, and a look-up compares with whatever is *)
(* there by then.  No other provider's row is found, as the hashes differ. *)
Lookups(list) ==
  LET offered == {i \in DOMAIN list : TypeOf[list[i]] \in Offered}
  IN IF conf_providers THEN SUBSET offered ELSE {offered}

(* Those of a provider among them, and the first.                          *)
Of(list, found, provider) == {i \in found : TypeOf[list[i]] = provider}
FirstOf(list, found, provider) == list[Min(Of(list, found, provider))]

(* Mistake: the first account that has its row ends the loop.              *)
sync_accounts_once(list) ==
  /\ \E found \in Lookups(list) :
       /\ accounts_exist' = (accounts_exist \/ found # {})
       /\ displayed_account' =
            IF \E p \in Offered : displayed_account[p] # None THEN displayed_account
            ELSE [p \in Offered |->
                   IF Of(list, found, p) = {} THEN None ELSE FirstOf(list, found, p)]
  /\ skippable' = ~accounts_exist' /\ complete' = accounts_exist'
  /\ sync_visibility(accounts_exist', available)

(* sync_accounts: a row shows the first account of its provider that finds *)
(* it, and goes on showing it; an account that finds none is passed over.  *)
sync_accounts(list) ==
  /\ \E found \in Lookups(list) :
       /\ accounts_exist' = (accounts_exist \/ found # {})
       /\ displayed_account' = [p \in Offered |->
            IF displayed_account[p] # None \/ Of(list, found, p) = {} THEN displayed_account[p]
            ELSE FirstOf(list, found, p)]
  /\ skippable' = ~accounts_exist' /\ complete' = accounts_exist'
  /\ sync_visibility(accounts_exist', available)

(* gis_goa_page_constructed.  It syncs with the accounts of before, which  *)
(* is the first AccountAdded of a page that is not seen yet.  Without GOA  *)
(* nothing shows the page.                                                 *)
Init ==
  /\ goa_client \in BOOLEAN /\ conf_providers \in BOOLEAN /\ available \in BOOLEAN
  /\ accounts = <<>> /\ accounts_exist = FALSE
  /\ displayed_account = [p \in Offered |-> None]
  /\ visible = (goa_client /\ available)
  /\ skippable = TRUE /\ complete = FALSE
  /\ current = FALSE /\ dialog = None /\ changes = 0

(* accounts_changed; the dialog ends with the account it was opened for,   *)
(* but other programs may add accounts too.                                *)
AccountAdded(a) ==
  /\ goa_client /\ Change /\ a \notin ToSet(accounts)
  /\ accounts' = Append(accounts, a)
  /\ sync_accounts(accounts')
  /\ UNCHANGED <<machine, available, current, dialog>>

AccountRemoved(a) ==
  /\ goa_client /\ Change
  /\ \E i \in DOMAIN accounts : accounts[i] = a /\ accounts' = RemoveAt(accounts, i)
  /\ sync_accounts(accounts')
  /\ UNCHANGED <<machine, available, current, dialog>>

(* network_status_changed                                                  *)
NetworkChanged ==
  /\ goa_client /\ Change
  /\ available' = ~available
  /\ sync_visibility(accounts_exist, available')
  /\ UNCHANGED <<machine, accounts, page, current, dialog>>

(* row_activated and add_account_to_provider: a modal dialog runs until it *)
(* is answered or dismissed.  GTK activates no insensitive row, which is   *)
(* what sync_provider_widget makes of one with an account.                 *)
RowActivated(p) ==
  /\ goa_client /\ current /\ dialog = None /\ displayed_account[p] = None
  /\ dialog' = p
  /\ UNCHANGED <<machine, available, accounts, page, visible, current, changes>>

DialogEnds ==
  /\ dialog # None /\ dialog' = None
  /\ UNCHANGED <<machine, available, accounts, page, visible, current, changes>>

(* The assistant comes to the page, which is visible then, and leaves it.  *)
Switched ==
  /\ dialog = None /\ (current \/ visible)
  /\ current' = ~current
  /\ UNCHANGED <<machine, available, accounts, page, visible, dialog, changes>>

Next ==
  \/ NetworkChanged \/ DialogEnds \/ Switched
  \/ \E a \in Accounts : AccountAdded(a) \/ AccountRemoved(a)
  \/ \E p \in Offered : RowActivated(p)

-----------------------------------------------------------------------------
TypeOK ==
  /\ accounts \in Seq(Accounts)
  /\ displayed_account \in [Offered -> Accounts \cup {None}]
  /\ <<visible, skippable, complete>> \in BOOLEAN \X BOOLEAN \X BOOLEAN

(* In whatever order accounts come and go: with the program's own list one *)
(* that the user could have added here is on its provider's row, or another*)
(* of that provider's is.  With the vendor's list it may be on none, since *)
(* the look-up reads freed memory.  With either, a row shows accounts of   *)
(* its provider only, and the page offers Next, no longer Skip, as soon as *)
(* a row shows one and not before.                                         *)
AccountsShown ==
  /\ ~conf_providers => \A i \in DOMAIN accounts :
       TypeOf[accounts[i]] \in Offered => displayed_account[TypeOf[accounts[i]]] # None
  /\ \A p \in Offered : displayed_account[p] # None => TypeOf[displayed_account[p]] = p
  /\ complete <=> \E p \in Offered : displayed_account[p] # None
  /\ skippable = ~complete

(* The page the user is at stays, although the network it needs, or the    *)
(* last account, is lost meanwhile.                                        *)
CurrentStays == current => visible
=============================================================================
