# A TLA+ verification of GNOME Initial Setup

GNOME Initial Setup is the wizard a GNOME (or Ubuntu) system shows on its first
boot, and to a user on the first login.  It is one process on the GLib main
loop: handlers run to completion, one at a time, and what interleaves is the
*order* of handlers, clicks, timers, D-Bus replies, worker threads' results and
the visibility of pages that follow the network.  This directory holds TLA+
models of its parts, the TLC configurations that check them on small instances
and TLAPS proofs for every instance.

## 1. Inventory

| Component | State it keeps | Operations | Interacts with |
|---|---|---|---|
| Assistant (`gis-assistant.c`) | list of pages, current page, title bar widgets | next, previous, cancel, add page, page destroyed, page notified, locale changed, save data | GtkStack picks the visible child, pages notify, driver saves through it |
| Page base class (`gis-page.c`) | complete, applying, skippable, needs-accept, has-forward, hide-navigation, apply callback and cancellable | apply begin / complete / cancel, shown, skip, save data, finalize | every page; the assistant's `on_apply_done` |
| Page list (`gnome-initial-setup.c`) | page tables, vendor file, skip list | `rebuild_pages_cb`, `destroy_pages_after`, `should_skip_page`, stamp files | driver emits `rebuild-pages`; pages are created and destroyed |
| Driver (`gis-driver.c`) | account data, language, mode, quit inhibitors, parental controls switch, GDM connection | setters that notify pages, inhibit / uninhibit / quit, save data, shutdown | every page |
| Account pages (`pages/account`) | local / enterprise mode, validity, validation timer, avatar; realm, join state | validate, apply, confirm, save; discover, log in, join, permit login | AccountsService, realmd, Kerberos worker thread, driver |
| Password page (`pages/password`) | password, its strength, validity of both entries, timer | changed, confirm changed, validate, save, username changed | driver (user name, visibility), parental controls page |
| Parental controls page | safe / admin choice | save data | main user created by the account page |
| Online accounts page (`pages/goa`) | accounts exist, network available | sync accounts, sync visibility | GNetworkMonitor, GOA client, assistant's visible child |
| Network page (`pages/network`) | device, rows, refresh timer, refreshing flag | refresh list, choose access point, device added and removed | NetworkManager |
| Language, keyboard pages | chosen locale; input sources, permission | select, confirm; permission, ordering | localed over D-Bus, driver locale change, GDM session |
| Timezone page | geoclue flags, chosen location | got location, user choice, automatic zone | GeoClue, timedated |
| Livepatch page and authentication dialog (`pages/livepatch`) | wanted state, waiting, token, dialogs | set up, toggle, token ready, enabled, retry, sign out | livepatch daemon, PolicyKit, Ubuntu One, quit inhibitors |
| Apps page (`pages/apps`) | snap list, retry timer, icons | get snaps, retry, open in store, apply | snapd, driver quit |
| Privacy, software, ubuntu-report, welcome pages | switches | apply | GSettings, PackageKit, external commands |
| Summary page (`pages/summary`) | user, password | save data, log in, quit | GDM, driver, keyring |
| Keyring (`gis-keyring.c`) and copy worker | login keyring password; five files | create, change password; move files | gnome-keyring, the next session |

### What is hard here

* Applying a page may take as long as a domain join.  Meanwhile the user can go
  back, choose another language and so rebuild the page list, or cancel.
* A page's notifications, the assistant's apply state and the position of the
  page each set the visibility and sensitivity of the same buttons, from
  different handlers.
* Results arrive after the state they were asked for has changed: a Livepatch
  token after a sign-out, GeoClue's position after the user's own choice, localed's
  layouts after a row was picked, places for a text that was edited, a validation timer after the next key press, a
  realm discovery after the domain was edited.
* Accounts, passwords, the keyring and the files of the new home are written by
  a chain of steps, each of which can fail and each of which may be the last.
* The process must not quit while D-Bus calls that change the system are in
  flight, and must quit once they are done.

### What makes each component correct

* Assistant: the user always sees a page of the list; the title bar agrees with
  that page; no page that could be seen is jumped over; no page past one that
  is being applied is reached; a page is not destroyed or applied again while it
  is being applied.
* Page list: what a rebuild leaves is what a fresh build would offer behind the
  current page.
* Driver: the process does not end while a call is in flight, ends once none is.
* Account saving: an administrator exists whenever a parent-controlled user
  does; what is left by a failure part-way can still be used.
* Enterprise join: every apply ends; the join uses the credentials that were
  verified.
* Forms: "complete" is true only of what is in the entries now.
* Livepatch: what the user chose last is what the service ends up with.
* Authentication dialog: its list is GOA's; the account that is used is one GOA
  vouches for.
* Log-in: the password GDM is handed is the account's and the keyring's, and the
  hidden window is not the last the user sees.
* Network page: what is listed is what the device sees, and the list follows.
* Time zone page: a choice of the user's is never overruled by a late answer; the
  system's zone is the one asked for last; results are for the text in the entry.
* Applications page: it goes on asking, and shows every snap to be offered once.
* Online accounts page: every account that could have been added there is shown.
* Keyboard page: what will be applied is to be seen; the system's layouts stay.
* Language page: the language picked last reaches program, system and account.


## 2. The models

### `GisAssistant`: pages, current page and title bar

One variable per field: `pages` (`assistant->pages`), `current`
(`assistant->current_page`, kept equal to the stack's visible child by
`current_page_changed`), `shown` (GtkWidget visibility of pages), `complete`,
`apply` (`priv->applying` and the cancellable's state), `skip` (what the vendor
file and the mode leave out), `parental`, `ui` (visible and sensitive widgets of
the title bar), `fault` (an assertion or overrun that stops the process) and
`critical` (`g_return_if_fail` checks that fired).

Pages are numbered in list order, so that a page list is a set of numbers: the
program only ever appends.  Each action is one main-loop handler with everything
it calls: `ClickForward` is `go_forward` → `gis_assistant_next_page` →
`gis_page_apply_begin` → the page's `apply` → `on_apply_done` →
`switch_to_next_page` → `update_current_page`.  A rebuild
(`rebuild_pages_cb`) is part of the handler that causes it: a language choice
(`ChangeLocale`), a changed parental controls choice (`ApplyLocal`,
`ApplyEnterprise`).  What other modules own enters as a parameter of an action:
whether validation succeeds (`Validate`), whether the network is there
(`Refresh`), whether the join succeeds (`EnterpriseDone`).

`Wizard` is what all this promises to the user, with three variables: the page in
front, the pages that can be reached and the page that is being applied.  He moves
one page at a time; the list changes only behind the page in front, but for the
pages of the network; and an apply is left backwards only.  `GisAssistant` has an
instance of it (`Stack`: `front` is `current`, `list` is `pages \cap shown`, `busy`
the account page while it applies) and implements it (`WizardSpec`, checked by TLC
and proved).

The page list TLC uses is in `MCGisAssistant`; the properties are stated and
proved for every list.

### `Livepatch` and `DeferredQuit`: a service call that outlives its page

`Livepatch` is the Livepatch page with the quit inhibitors of the driver.  The
fields of `GisLivepatchPagePrivate` are variables (`choice`, `waiting`, `token`,
`account`, `permission`), so are the widgets a property speaks of (`button`,
`box`, `message`) and the calls in flight: authorizations (`asking`), token
requests (`fetching`), `SetLivepatchEnabled` calls the service still works on
(`working`) and replies waiting in the main loop (`answers`).  `modal` is the
stack of dialogs: `gtk_dialog_run` runs a main loop inside the handler, so the
rest of the handler (`LoginClosed`, `ErrorClosed`) is an action of its own, and
every other reply may come in between.  `Serve` is the external service: success
means the machine token is there or gone, failure (or the 20 minutes timeout)
means nothing is known.

`DeferredQuit` is what `gis_driver_inhibit_quit`, `gis_driver_uninhibit_quit`
and `gis_driver_quit` promise together; the page and driver implement it
(`DeferredQuitSpec`, checked by TLC and proved).

### `EnterpriseJoin`: an apply of many replies

The enterprise form applies in up to six D-Bus calls, each with a callback that
starts the next.  `phase` names the call that is awaited; one action per
callback (`Discovered`, `Checked`, `Joined`, `HostNamed`, `AdminChecked`,
`Permitted`) with every outcome it tells apart, and the functions those share
(`CheckLogin`, `PermitLogin`, `ShowPrompt`, `AddUser`) as operators.  `stranded`
is the state in which no call is in flight and `apply_complete` was not called;
`aborted` and `crashed` are a failed assertion and a `NULL` error that is read.

Between two replies the user may cancel, edit the login (`entry`) or the domain
(`known`, `chosen`), and realmd may leave and come back (`manager` numbers the
`UmRealmManager` objects, so that a reply can belong to one that is gone).
`cancelled` is not a guard of the calls but of their success: a reply that comes
after the cancellation is an error, where the call was given the cancellable
(`heeds` remembers whether the administrator's log-in was).  realmd, Kerberos,
hostnamed and AccountsService answer as they like; a join that failed may have
been carried out.

### `AccountForm`: entries, a timer and what an apply leaves

The local form's entries, what the last validation found of them
(`valid_name`, `valid_username`), the 600 ms timer and the focus; the page's
mode and completeness; and the driver's user name and parental controls, which
other pages read.  Every change of an entry is an action with the whole chain of
signals it sets off (`TypeName` rewrites the suggested user name and so runs
`UsernameChanged`), and so are the timer (`Timeout`), the loss of focus, the
accounts of GOA that prefill the name whatever page is shown
(`AccountsChanged`), the switch to the enterprise form and the two applies.
User names are of four kinds: empty, bad, the parent's reserved one, and good.
`place` is the current page, this one or a later one: the user can come back.

### `AccountSaving`: a chain of calls

`gis_assistant_save_data` runs the save of every page in one handler, but each
save is a sequence of calls to AccountsService, the keyring and malcontent that
keep what they did.  `todo` holds the steps that are left; one action per step,
`SaveFails` for the calls whose failure ends the saving, `SaveLost` for those
whose result the code cannot or does not look at, and `Crash` between any two.
The order within a page is `AccountSteps` and `PasswordSteps`, the order of the
pages `SaveSteps`.  Whether parental controls are enabled is an input here: as
`PageList` shows, a rebuild on this branch takes the pages away that they need,
so that with them the saving is the one `page_table` lays down and not one that
can be reached through the wizard.

The log-in follows.  `gis_summary_page_shown` takes the user and the password
from the driver behind the saving, failed or not; `Done` hides the window and
begins the verification if there is a connection to GDM and a user.  PAM's first
secret question is answered with `held`, which is given up with that
(`SecretInfoQuery`); then PAM accepts (`SessionOpened`) or refuses (`Refused`).
What the page has no answer to is one action, `LoginLost`: a verification that
cannot begin, a question that is no secret, a second secret.  `phase` is "stuck"
when the hidden window is the last the user sees, which `SavedTogether` excludes
wherever nothing was lost and GDM was there.

### `PageList`: tables and rebuilds

Pages by their `page_id`, the list as a sequence.  `Offered` is the second loop
of `rebuild_pages_cb` (mode, vendor file, `gis_prepare_*` returning `NULL`),
`Rest` and `Overrun` its first loop, `Kept` is `destroy_pages_after`.  Reading
behind the end of `ubuntu_page_table` is undefined; the outcomes are an
entry of one of the tables beside it and all that follow it there, nothing more
at all, or a stop.  `NextPage`, `ApplyAccount`,
`PreviousPage`, `ChangeLanguage` and `Finish` are the user's ways through the
list; the pages the network hides are left to `GisAssistant`, whose set `Follow`
is what `Rebuild` computes here.  Only the language and the account page cause a
rebuild, so that only their ids are compared with the table's.

### `PasswordForm`: two entries, a timer and a page that is rebuilt

The password page's entries, what the last validation found, the 600 ms timer
and the focus, with everything else that reaches the page: the account page's
two applies, which tell the driver a user name and may change the parental
controls, and so destroy the page and build another one, and a domain join that
ends with no user name and hides it.  `Weak` are the pairs of a text and a user
name that pwquality refuses; a weak text does not keep the page from being
complete, in the code as here.  Losing the focus validates and stops the timer
(`FocusLost`), on the way to another widget as on the way to another page; this
alone is why no timer outlives a page (`NeverFreed`).

### `SetupPages`: six pages and a dialog, side by side

The network, time zone, applications, online accounts, keyboard and language
pages and the dialog of the Livepatch page share no state but the driver's, and
every handler belongs to one of them.  Each has a module of its own; `SetupPages`
puts an instance of each side by side, `page` says which one a behaviour is about,
and the variables of the others rest; `MCSetupPages` gives the constants values.  The state space is the sum of
theirs and not their product, and every behaviour of any page is in it.  (That
the network and the online accounts page come and go while others are looked at
is `GisAssistant`'s `Refresh`.)  In each module a variable has the name of the
field or widget it stands for, an action is one signal handler, timer, reply or
click, and an operator in lower case with underscores is the C function of that
name.

### `NetworkPage` and `AccessPoints`

`AccessPoints` holds the pure part: the strongest access point of each name, its
security, and the order in which GtkListBox ends up with the rows.  `NetworkPage`
is the page around it.  NetworkManager is the environment: devices come, go and
are managed or not, the radio is switched by the page or by a key, the air
changes; `state`, `active` and `aps` are the device's own.  What NetworkManager
signals is a handler of the page (`StateChanges`, `DeviceAdded`, …); what it does
not, `AirChanges`, the page learns from its timer only.  A device that was removed
is still held (`lost`), as the TODO at `gis-network-page.c:713` says.

### `TimezonePage`

Three sources of a zone: GeoClue (`GeoLocated`), the entry (`Type`, the look-up
`NoMatches`/`GotPlaces`, and `Select`) and the map (`MapClicked`).  All of them
reach `Pinned`, which asks timedated by a call nobody waits for; `calls` are those
in flight and `Served` lets timedated obey or refuse.  `CleanName` is
`tz_info_get_clean_name` with its three tables, over names that are sequences of
parts.  `wanted`, `by` and `choice` are history: what was asked for last, by whom,
and how the user has made his choice.  `SetLocation` goes on when the map has no
such zone: the page is then complete and nothing was asked for.

### `AppsPage`

`call` is the question to snapd that is out, `featured_snaps_timeout` the timer
that asks the next one; a failure asks again in a second, for ever.  The boxes
are sequences of tiles, `PerBox` of them each: `Wanted` and `Populated` are the two
loops of `gis_app_page_populate_featured_snaps`, the spacers included.  Icons of the store are
asked for without a cancellable, so that `IconReady` may come after `Dispose`.

### `GoaPage`

A row for each provider that is offered, the account it shows, and what makes
the page visible; without GOA nothing does.  `sync_accounts` is translated as it
is: `accounts_exist` and the account of a row are set and never taken back.

The rows are found in a hash table that does not copy its keys
(gis-goa-page.c:197, :334).  The program's own names are literals.  Those of the
vendor's `[goa] providers` (`conf_providers`) are freed when
`populate_provider_list` returns (:205), before the first look-up of :255, which
then compares with freed memory: `Lookups` lets it find the row or miss it, each
time anew.  So on a machine with such a file an account may get no row and the
page goes on offering *Skip*, with an account added from this very page,
against the comment at :92 (the signal "will do the syncing of displayed_account
on its own").  The model has these behaviours.  `AccountsShown` asks that every
account be shown of the program's own list only; with either list, that no row
shows an account of another provider, and that *Next* takes the place of *Skip*
exactly when a row shows an account.

### `KeyboardPage`

The chooser's rows (`rows`, the hidden ones `extra`), the source chosen, and
those who choose one: the language when the list is made, localed's answer
(`LocaledReady`, by `Preselected`), IBus's list, and the user.  `Apply` writes
the settings of the session and asks localed, if the permission is there; if it
can be acquired, `PermissionAcquired` asks later with what is chosen by then.
`get_localed_input` and `Joined` are the two directions of localed's pair of
comma-separated strings; a layout that `GnomeXkbInfo` does not know has no
layout to be sorted by (`Layout`).  A page the vendor leaves out has its own way to write
the settings (`Skip`, `SkipReady`).

### `LanguagePage`

One pick (`LanguageChanged`) goes to the program's locale and the pages, to
localed and to the account, each when it is ready: the permission may have to be
acquired, the proxy may still be connecting, the account may not be loaded, in
which case every pick leaves one more handler behind.  The second activation of
a row queues `confirm_choice`, which turns the page whatever page is the current
one by then (`turned`).  The rebuild of the pages is `built`: the locale they
were built in.

### `AuthDialog`

The list of Ubuntu One accounts, the combo box, and the questions to GOA.
`ensuring` counts the questions that are out for each account, since *Continue*
stays sensitive; `sso` is the stack of GOA's own modal dialogs, which answers to
other questions may pile up.  While an account is added here the handler for
added accounts is blocked: accounts other programs add meanwhile are `unheard`.
The answer is the account selected when the dialog returns, not the one that was
asked about; `rechosen` says that the user chose another while an answer was
out, which `UsedIsGood` leaves out, for the account is then used unasked.

## 3. What the runs check

| Run | Module | Verdict | What it shows |
|---|---|---|---|
| `gnome_pages` | `MCGisAssistant` (`GisAssistantGnome.cfg`) | pass | With the GNOME page list, whose language page rebuilds what follows it, the user always sees a page of the list and the title bar agrees with it, through applies, joins in flight, rebuilds and visibility changes; and every step is one that the abstract Wizard allows. |
| `finalize_applying` | `MCGisAssistant` (`GisAssistantFinalize.cfg`) | violation | A locale change while an enterprise join is in flight finalizes the applying account page. |
| `livepatch` | `Livepatch` (`Livepatch.cfg`) | pass | With up to three attempts to set Livepatch up, sign-outs, failures and retries, the wizard ends once and only once every call has been answered, and a last answer that is a success leaves Livepatch as the page says. |
| `enterprise_join` | `EnterpriseJoin` (`EnterpriseJoin.cfg`) | pass | Two applies of the enterprise form, with every outcome of every call, an administrator tried, entries edited and the apply cancelled at any moment, and realmd appearing twice and leaving: nobody is let in from outside the domain, a cancelled apply registers nobody, and every apply ends but for three named ways to be stranded. |
| `account_form` | `AccountForm` (`AccountForm.cfg`) | pass | Six changes of the form in any order with the validation timer, the focus, online accounts, the enterprise switch and going back: no user name that cannot be created is applied, and what will be saved is of the mode and has the administrators that were applied. |
| `account_saving` | `AccountSaving` (`AccountSaving.cfg`) | pass | Local with and without parental controls and enterprise, any password of the three entered for either account, every call failing, lost or the last before a crash: a child never without a usable administrator, one password for account, keyring and login, and a log-in that PAM accepts. |
| `account_saving_crash` | `AccountSaving` (`AccountSavingCrash.cfg`) | violation | A crash between the creation of the administrator and the call that makes it usable leaves an account nobody can log in to, and GDM does not start the wizard again. |
| `page_list` | `PageList` (`PageList.cfg`) | pass | The three desktops, both modes, every vendor file over three pages, rebuilds from the language and the account page, also past the table's end: what is excluded stays out, what was seen stays, and on ubuntu and unity the list is the one a start would build. |
| `page_list_parental` | `PageList` (`PageListParental.cfg`) | violation | On GNOME the rebuild after parental controls were enabled goes on in Ubuntu's table: the pages of the parent and the summary are gone, and the wizard ends with no account saved. |
| `password_form` | `MCPasswordForm` (`PasswordForm.cfg`) | pass | Two texts, one of them weak for one of two users, typed, confirmed and changed in any order with the timer, the focus, both applies of the account page and its rebuilds: completeness follows what is entered, no timer outlives its page, and a domain user is not asked for a password. |
| `setup_pages` | `MCSetupPages` (`SetupPages.cfg`) | pass | Six pages before and behind the account and the Livepatch page's dialog, each against the service it talks to: NetworkManager, GeoClue and timedated, snapd, GOA, localed and IBus, AccountsService. Whatever comes late, fails, is cancelled or comes twice, the page agrees with its service and with what the user last said. |
| `timezone_choice` | `MCSetupPages` (`TimezoneChoice.cfg`) | violation | A click on the map does not stop GeoClue, whose answer then moves the pin and the system's zone away from the user's choice. |

The runs with the verdict *violation* each check one line of the repository (an
assertion or a comment) that the code does not keep; PROJECT.json quotes it
under `findings`.

Met while modelling, and kept out of the runs:

* `gis-page.c:371` requires that a page is not applied while it is applying; a
  notification of the page runs `update_navigation_buttons`, which makes *Next*
  sensitive again (`ApplyAgain`, `critical`).
* `gis-assistant.c:89` requires a page to switch to; *Previous* is offered on a
  page that only hidden pages precede.
* `gis-livepatch-page.c:176` shows an error when the state is not the user's
  choice; after a failed disable the text is set in a box that is hidden.
* `gis-account-page-local.c:327` relies on `username_changed`, which does not run
  when the user name is the user's own: a changed name is then not validated
  before the entry loses the focus.
* `gis-account-page-enterprise.c:169` tells the account service about "this user",
  but `on_permit_user_login` reads the entry again, which stays editable: the
  user who is registered may not be the one the realm was asked to permit.
* `gis-password-page.c:271` clears `valid_password` only: for 600 ms after a
  change the page stays complete, and Enter in the entry or *Next* by its
  mnemonic leaves it with a password that was never confirmed, the one
  `gis_password_page_save_data` then sets (`SaysWhatIsEntered` states how far
  this goes).
* A password page built anew with the parental controls has not been told the
  user name, and rates a password that holds it as any other.

* `gis-livepatch-page.c:276`: the token that arrives turns Livepatch on, whatever
  the user has chosen since; after a sign-out (l. 404) it is against the last
  request, while l. 167 compares the later answer with the choice.
* `gis-account-page-enterprise.c:525` asserts that there is a realm manager; when
  realmd disappears between a discovery and its reply, there is none.
* `gis-goa-page.c:205` frees the vendor's names of the providers, which are the keys
  of the rows (l. 197): with such a file no account need find its row (l. 255), as
  `GoaPage` has it.

Further behaviour a reader of the code may want to know of.  It is in the models
where it is control, and no property speaks of it because the code promises
nothing else:

* Assistant: a failed apply leaves *Next* sensitive on a page that is no longer
  complete (`gis-assistant.c:253`).
* Livepatch: a refused authorization leaves the button insensitive (l. 363); a
  call that timed out after 20 minutes may still take effect (l. 252).
* Accounts: the result of caching a domain user is used unchecked
  (`gis-account-page-enterprise.c:178`); an online account that comes or goes
  rewrites the name while the user types it (`gis-account-page-local.c:243`); a
  crash before the password is set leaves the main administrator locked
  (l. 604); a failure to change the keyring's password is only warned of
  (`gis-keyring.c:101`), as is any page that could not be saved
  (`gis-summary-page.c:206`), after which *Done* logs in whoever is there.
* Log-in: *Done* hides the window before it looks for a connection to GDM, and
  nothing shows it again: without a connection, after a refused password or a
  second question the user is left with an empty screen (`log_user_in`,
  `done_cb`).
* Network: a removed device is held for ever (l. 713); rows hold access points
  that may have gone in the ten seconds since the last refresh; handlers of
  NetworkManager's objects are not disconnected when the page is destroyed.
* Time zone: `dispose` stops GeoClue, but the page then leaves its parent, and
  `page_added`, told of that, starts it again; a place whose zone the map lacks
  completes the page and asks timedated for nothing; `convert_pos` (`tz.c`) loses
  the sign of coordinates that begin with `-00`.
* Applications and keyboard: calls without a cancellable (`gis-apps-page.c:377`,
  `gis-keyboard-page.c:202`) are answered to pages that may have been freed.
* Online accounts: the row of an account that is removed goes on showing it; the
  page stays offered once it has been left although the network went.
* Keyboard: localed's late answer replaces what the user chose; the chosen row
  activated again confirms a page that is not complete; fewer variants than
  layouts drop layouts; what localed gets is the choice of the moment the
  permission is there; with at most `MIN_ROWS` rows the hidden ones cannot be
  reached.
* Language: a pick before the proxy for localed exists is lost to the system; two
  quick activations turn two pages; a locale the C library lacks leaves the pages
  in the old language; `user_loaded` and the proxy's callback may find a freed
  page.
* Authentication: errors other than an expired log-in are silent; adding an
  account that is known leaves another one selected; accounts added elsewhere
  while one is added here are never listed.
* Copy worker: its service starts only without
  `.config/gnome-initial-setup-done`, the first file it moves, so that an end
  after the first move leaves the other four where they were.

## 4. Bounds, fairness, deadlock

* `GisAssistant` has no unbounded variable: the state space is that of the page
  list given to it.  `MCGisAssistant` gives it
  the list of GNOME, the one with every kind of page.
* `Livepatch`: `MaxSetUps` (3) bounds the clicks on *Set Up Livepatch…*; each
  brings at most one call of its own, so that three allow a call in flight, its
  retry and a further one that overtakes both.  `CHECK_DEADLOCK FALSE`: the
  program ends.
* `EnterpriseJoin`: two applies (what one leaves to the next: `join_prompted`,
  the registered user), one administrator tried beyond the first prompt
  (`MaxPrompts`), two managers (a reply for one that was replaced) and two users
  (the checked one and another).  More of any only repeats these cases.
  `CHECK_DEADLOCK FALSE`: the bounds end the behaviours.
* `AccountForm`: `MaxEdits` (6) changes: enough to fill the name and a user name
  of the user's own, enable parental controls, switch the form, and change
  something after having come back.  One bad and one reserved user name stand for
  their kinds.
* `AccountSaving`: two passwords and the empty one, so that any two that must
  agree can differ.  Otherwise finite as it stands.
* `PageList`: the vendor file may name three pages (one with the special case,
  its counterpart and one that only a new user has); two rebuilds past the end of
  the table (`MaxOverruns`), the second from a page the first one added.
* `PasswordForm`: `MaxEdits` (8) changes and applies: an account, both entries
  filled, one changed, a way back, another account with a rebuild, and a join.
  `CHECK_DEADLOCK FALSE`: the bound ends the behaviours.
* `MCSetupPages`, page by page.  Network: three changes or clicks, two wireless
  devices and a wired one, three airs (none; one name twice with a hidden network
  between, one name in another order), a network NetworkManager knows and one it
  does not: a device lost and another found, or the radio off, on and a refresh.
  Time zone: four inputs of the user and GeoClue (typed, selected, clicked, and
  an answer behind them), two places of the list and two found by a search; their
  zones are an alias, a name in `posix`, one that the map knows and one it lacks.
  Applications: four answers of snapd, of which none, some and all snaps are to be
  offered, with `PerBox` 2 for 15; it fails as often as it likes.  Online accounts:
  four changes, two accounts of one provider, one of another and one of none that
  is offered; with the program's list and the vendor's.  Keyboard: three clicks; a system with no layout, two, a variant, and
  fewer variants than layouts; a language with a layout, an input method or
  nothing; `MinRows` 2 for 5, so that rows are hidden.  Language: three clicks, one
  locale without a font and one the C library cannot make.  Authentication: three
  changes or clicks from each of five lists of three accounts; the answers of GOA
  are not counted.  `CHECK_DEADLOCK FALSE`: the inputs end, and with them the
  behaviours.

Fairness is assumed of what does not depend on the user's will: the main loop
fires a timer that is set (`Timeout`), D-Bus answers
every call within the timeout the call carries and the main loop dispatches
every reply (`Serve`, `Answered`, `Replied`).  Of the user it is assumed only that he closes
a dialog in front of him (`Responded`); never that he clicks *Next* or finishes the wizard.
In `MCSetupPages`: the timers of the network and the applications page fire,
NetworkManager makes a device available whose radio is on, snapd answers every
call, and, asked again and again, sometimes without an error (the one strong
fairness: a snapd that fails for ever keeps the spinner turning for ever, by
`FeaturedFailed`).

## 5. What is proved

| Theorem | States | |
|---|---|---|
| `GisAssistantProofs!TypeCorrect` | `` | For every page table, skip list and set of page kinds the variables keep their types: no page outside the table, no widget outside the title bar. |
| `GisAssistantProofs!CurrentAlwaysShown` | `CurrentIsShown` | The current page is in the list and visible, and there is one whenever the list has a visible page, for every page table. |
| `GisAssistantProofs!TitleBarCorrect` | `TitleBarAgrees` | The spinner and Cancel, the one way forward and the Done and Previous buttons agree with the current page, for every page table. |
| `GisAssistantProofs!NeverPastApplying` | `NeverPastApplyingPage` | No page after one that is being applied is ever in front of the user. |
| `GisAssistantProofs!FinalizedOnlyByLocale` | `` | For every page table the one way to finalize a page that is being applied is a new locale, set on a page before the account page to which the user has gone back (FinalizedFromBehind): what the run that refutes NotFinalizedWhileApplying can reach, and nothing else. |
| `GisAssistantProofs!NoPageJumped` | `` | No step moves over a page that could be seen (NoShownPageJumped). |
| `GisAssistantProofs!ImplementsWizard` | `WizardSpec` | For every page table the assistant implements the abstract Wizard, step by step: one page at a time, along a list that changes only behind the page in front (but for the pages of the network), and never forwards past an apply. |
| `LivepatchProofs!TypeCorrect` | `` | The variables keep their types for every bound on the attempts; in particular inhibit_count never wraps below zero. |
| `LivepatchProofs!InhibitorsPaired` | `InhibitorsCountCalls` | inhibit_count is the number of calls in flight and error dialogs open. |
| `LivepatchProofs!TokenSent` | `` | Livepatch is never enabled without a token. |
| `LivepatchProofs!ChoiceSettles` | `AnswersSettle` | A last answer that is a success leaves the service as the page's choice, and the page waits only for a call in flight. |
| `LivepatchProofs!NoQuitDuringCalls` | `` | g_application_quit is called only when no call is in flight. |
| `LivepatchProofs!ImplementsDeferredQuit` | `DeferredQuitSpec` | The page and the driver implement the abstract quit inhibitors (step by step, under the inductive invariant). |
| `EnterpriseJoinProofs!TypeCorrect` | `` | The variables keep their types for any users and bounds; no reply names a manager that was never made. |
| `EnterpriseJoinProofs!NoneFromOutside` | `MembersOnly` | The realm is asked to let a user in only from a member of the domain. |
| `EnterpriseJoinProofs!PromptsExplain` | `PromptHasReason` | join_show_prompt never reads an error there is none of, over any number of applies and administrators. |
| `EnterpriseJoinProofs!CancelledRegistersNobody` | `CancelHolds` | No step of a cancelled apply registers a user or ends it as valid. |
| `EnterpriseJoinProofs!StrandedOnlyByRealm` | `` | Only three states of the realm and of realmd strand an apply. |
| `AccountFormProofs!TypeCorrect` | `` | The variables keep their types for any number of edits. |
| `AccountFormProofs!CompleteIsChecked` | `UsernameChecked` | A local page is complete only with a user name that can be created. |
| `AccountFormProofs!DriverToldValid` | `` | Every way of applying the local form hands the driver a valid user name. |
| `AccountFormProofs!ModeIsApplied` | `AppliedIsSaved` | Past the page the mode that will be saved is the one that was applied. |
| `AccountFormProofs!AdministratorOrParent` | `OneAdministrator` | A standard main user is applied only together with parental controls. |
| `AccountSavingProofs!TypeCorrect` | `` | The variables keep their types for any passwords, through failures, lost calls and crashes; the keyring is never given a password nobody entered, since what is saved of a local and of a domain user never stands in one list (KeyringGiven). |
| `AccountSavingProofs!LockedOutForOneStep` | `` | For any passwords and whatever else fails or is killed, the parent's account is there unusable, with no call lost, only between the step that creates it and the next one, or in front of the greeter when the process was killed there (LockedOutOnce): what the run that refutes ParentUsable can reach, and nothing else. |
| `AccountSavingProofs!ChildNeverAlone` | `ChildHasParent` | Whatever call fails or is the last before a crash, and for any passwords, a child's account is never there without an administrator's that can be logged in to. |
| `AccountSavingProofs!LoggedInWithOnePassword` | `SavedTogether` | After a saving in which nothing failed, for any passwords, the account, the keyring and the log-in have one password, PAM accepts it, and a child is restricted with its parent's password set. |
| `AccountSavingProofs!KeyringAfterAccount` | `KeyringFollowsUser` | Whatever fails or is killed, the keyring has the password it was made with until its owner's account is there, and then the account's. |
| `PageListProofs!TypeCorrect` | `` | For any vendor file, desktop and number of rebuilds, also those past the table's end, the variables keep their types: the current page is on the list. |
| `PageListProofs!ListFresh` | `ListIsFresh` | For any vendor file, on ubuntu and unity the list is always the one a start with the present choices would build, and on no desktop does it ever hold a page the file or the mode leaves out. |
| `PageListProofs!PagesSeenStay` | `SeenStay` | Whatever table a rebuild walks, the pages the user has been through, and the one he is on, stay. |
| `PasswordFormProofs!TypeCorrect` | `` | The variables keep their types for any texts, users and bound. |
| `PasswordFormProofs!PageSaysWhatIsEntered` | `SaysWhatIsEntered` | Completeness and strength are of what is entered, or a validation is due. |
| `PasswordFormProofs!TimerNeverOutlivesPage` | `NeverFreed` | No page is destroyed with its validation timer running. |
| `PasswordFormProofs!DomainUserNotAsked` | `HiddenFromDomainUser` | The password page is hidden behind the account page of a domain user. |
| `SetupPagesProofs!TypeCorrect` | `TypeOK` | For any devices, accounts, snaps, layouts, locales and bounds, every variable of the seven parts keeps its type; with them the map of the time zone page is covered exactly while the page is not complete, and the error bar of the open dialog is shown exactly while its timer runs. |
| `SetupPagesProofs!SeenStay` | `SeenPagesStay` | Whatever devices and accounts come and go, neither the network page nor the online accounts page hides itself once the user has come to it. |
| `SetupPagesProofs!SearchForText` | `SearchIsForText` | However many searches, edits and late answers overtake each other, results are those of the text in the entry, and "Loading..." is shown as often as a search is out. |
| `SetupPagesProofs!ZoneWanted` | `ZoneIsWanted` | With any number of calls to timedated in flight, the last of them is for the zone asked for last, so that the system has it when all are answered and the last was not refused. |
| `SetupPagesProofs!ChoiceOverGeoClue` | `EnteredChoiceStands` | Once the user has entered or accepted a place nobody listens to GeoClue any more, whenever it answers. |
| `SetupPagesProofs!LanguageArrives` | `LanguageReaches` | Whatever the locales and however many picks wait for the account, the permission or localed, the account, the system and the pages end with the language picked last. |
| `SetupPagesProofs!UsedAccountIsGood` | `UsedIsGood` | Whatever comes between the question, the answers and the dialog's return, Livepatch gets an account that GOA has found good, unless the user chose another meanwhile. |
| `SetupPagesProofs!AllAccountsShown` | `AccountsShown` | However accounts come and go: with the program's own list the online accounts page shows one of each provider that has any; with the vendor's list too, whatever the look-up finds, a row shows accounts of its provider only and the page offers Next exactly when a row shows one; and the dialog's list has each of Ubuntu One's once, one of them chosen. |
| `SetupPagesProofs!NoTimerLeft` | `NoTimerOutlivesPage` | The timers of the applications page and of the dialog end with them, whatever snapd and GOA answer afterwards. |
| `SetupPagesProofs!ChosenSeen` | `ChosenIsSeen` | Whoever chooses an input source or adds rows, in whatever order, the row chosen is not one of those hidden. |
| `SetupPagesProofs!LayoutsKept` | `SystemLayoutsKept` | For any number of layouts, settings written with localed's answer at hand, or for a page that is skipped, have every layout of the system and none twice. |
| `SetupPagesProofs!SystemUnderstood` | `LocaledUnderstood` | For any layouts and variants, localed reads back from its two comma-separated strings what it was given, and what it answers first is preselected in the order that the code's comment sets out. |
| `SetupPagesProofs!TilesMatch` | `TilesMatchSnaps` | Of any featured snaps, with boxes of any size and icons that arrive at any time, the boxes hold those that are not installed, in snapd's order, full but for spacers, and the buttons lead to every box. |
| `SetupPagesProofs!RowsAreOfStrongest` | `RowsAreStrongest` | Of any access points in any order, each name NetworkManager tells of is listed once and as strong as its strongest, the rows are sorted with the network in use first, and "Other..." is behind all. |

`GisAssistantProofs` proves an inductive invariant of the assistant that adds to
the checked properties what the buttons show and where the current page is in the
list; the only assumptions are the ones `GisAssistant` states about its page
table.  Under that invariant every step of the assistant maps to a step of
`Wizard` or to none (`ImplementsWizard`, one lemma for each handler that the wizard
knows): `RebuiltKeeps` and `UsernamePagesKeep` say that whatever adds, destroys,
shows or hides pages leaves the list as it is up to the page in front, or up to
the one that is applied; `BusyPage`, that only the account page is ever busy and
that it is never behind the page in front; `SwitchMovesOn`, that
`switch_to_next_page` goes on in the list as the step leaves it, not as it found
it.

`LivepatchProofs` proves `IInv`, the conjunction of the invariants the
run checks and `NoForgottenQuit`: the parts need one another, since
`inhibit_count` stays a natural number only because it counts the calls
(`InhibitorsCountCalls`), and signing out settles the choice only because
`waiting` is not set without a call (`WaitingForACall`, a part of the checked
`AnswersSettle` as `SuccessSettles` is).  The types are proved in
three parts (flags, words, counters) because each part needs another prover.
Nothing is assumed of `MaxSetUps` but that it is a natural number.

`EnterpriseJoinProofs`: that only members are let in and that the dialog never
reads a missing error need one more part, `NotPromptedYet`: before the answer of
the user's own log-in no dialog has been shown in this apply.  That a cancelled
apply registers nobody and what strands an apply hold of every step by itself,
whatever state it is taken in.  Nothing is assumed of the users but that there is
one, nor of the bounds.  `PasswordFormProofs`: the timer of a page that is
destroyed does not run because it runs only while an entry of the page in front
of the user has the focus (`TimerHasFocus`); the password page is hidden from a
domain user because whoever is on it has a name in the driver
(`ShownToLocalUser`).  What pwquality refuses is any set of pairs.

`AccountFormProofs`: that a complete page has a valid name follows once two links
are kept at every signal: what was found valid is still the current name's
(`ValidIsCurrent`) and completeness is never ahead of it (`CompleteIsValid`).
That the driver holds what was applied needs to know that only the enterprise
form takes long to apply (`ApplyingEnterprise`) and that nobody presses the
parental button behind the page's back (`ParentalApplied`).
`AccountSavingProofs`: `ChildHasParent` is not inductive, since it says nothing of
a saving that is about to create the child.  `GuardedInOrder` adds that a saving
with parental controls is always a tail of one list of ten steps (`SaveSteps`
is proved to be that list) and what the steps before it have done for the
parent; `OnlyGuarded`, that no other saving takes the parent's log-in away.

`LoggedInWithOnePassword` has an invariant of its own, `SInv`, for a saving in
which nothing has failed yet: what a step of `todo` will do is still to come, or
it is done (`Left(step) \/ …`, one line for each of the things that must agree).
That is inductive only if no step undoes what another behind it does not do
again: creating the account makes it locked, and keeping it makes the driver's
password empty, so each of them has to come before the step that sets the
password; `Ordered` says so of the steps that are left, `StepsOrdered` proves it
of both lists `SaveSteps` yields, and `FirstOfSteps` that a tail of an ordered
sequence is ordered.  With nothing left, everything agrees, and PAM, which
compares what was sent (`LoginInv`: the driver's password) with the account's,
cannot refuse.

`KeyringAfterAccount` needs less and more: it speaks of failed savings and of
crashes too, but only of the keyring.  `KInv` says that its step is the last of
those that matter (`KeyringLast`, again proved of every list of steps): as long as
an account may still be created or given a password, the keyring is as it was
made.

`PageListProofs`: the loops of `PageList` are parted where the account page parts
its tables.  `Left` is what one of them leaves of a table, and every rebuild keeps
what the user has come through, whatever table the rest is read from
(`RebuildKeeps`): that is all of `SeenStay`, reads behind a table's end included.
`ListIsFresh` is inductive once it is known that the tables of Ubuntu and Unity
are two parts with the account page between them, that the part behind is that of
`ubuntu_page_table`, which the rebuild walks, and that nothing there depends on
parental controls (`NotGuarded`); that a page the user may turn is on the list
once (`PartedAtOne`) makes the cut unique.

`SetupPagesProofs` proves what `MCSetupPages` checks of the seven parts.
`PageStep` and `PageInit` reduce a step of the composition to one of the page it
is about; from there every page has an invariant of its own.

* Network.  `RowsAreStrongest` speaks of every change of the list, so that the
  invariant has only to say that the air is made of access points (`AirInv`); the
  rest is about operators.  `UniqueAreStrongest`: `get_strongest_unique_aps`
  returns, of every name that is not hidden, one access point as strong as any.
  `InsertSorted` and `RowsRight`: however the rows are inserted, GtkListBox ends
  up with each of them once, sorted, *Other…* behind all.
* Time zone.  `SearchInv`: what is searched for and found is for the text in the
  entry.  `ZoneInv`: the last call in flight to timedated, or without one the
  system, has the zone asked for last.  `GeoInv`: GeoClue is listened to only
  while the text is as empty as it was, which any choice in the entry ends.
* Applications.  `WantedAreWanted`, `PopulatedHolds` and `PopulatedMatches`: the
  loops over the featured snaps yield full boxes whose tile *n* is the *n*th snap that
  is not installed, and spacers behind them.  `TilesInv` keeps that while icons
  arrive, which repaint a tile and move none; `BoxInv` says where the box in front
  is and which buttons lead on from it, in every state of the calls and the timer.
* Online accounts.  `RowsInv`: with the program's own list of providers a row
  shows nothing only while there is no account of its provider; with either list
  it shows one of that provider or none, and `accounts_exist`, from which Next and
  Skip follow, is true exactly when a row shows one.  `FoundAreOffered` is all that
  is used of a look-up in the vendor's list.
* Keyboard.  `LocaledUnderstood` needs four parts: what is chosen is a layout or an
  input method (`SourcesInv`), nothing is on its way before localed was asked
  (`QuietInv`), the settings (`SettingsInv`), and each pair of strings on its way
  to localed reads back as it was meant (`CallsInv`), from `ReadBack`, that
  `get_localed_input` undoes `Joined` for any list of layouts.
* Language.  One invariant for each of those who are told a language.
  `AccountInv`: while the account is not loaded the last handler that waits has the
  language of now.  `SystemInv`: the last call in flight, or with none the system,
  has it, unless the call was missed or still waits for the permission.
  `PagesInv`: the pages are those of the locale in use.
* Authentication.  The list is GOA's (`Listed`: injective, the accounts of Ubuntu
  One less the unheard, and the active row one of its rows) because the handlers
  that change it are blocked exactly while `unheard` grows.  That the account used
  is good needs to know, of each question and each of GOA's dialogs that is out,
  that it is about the account that is selected, or that the user has chosen
  another since (`Fit`).

What these proofs assume is stated by name where the constants are declared, and
TLC evaluates it.  "none" stands for nothing (`NoneAssumption`); the empty zone is
none that timedated knows (`ZonesAssumption`); the locales the C library can make,
and those always offered, are among the locales (`LocalesAssumption`); GOA tells of Ubuntu One accounts that
users have, each once (`UsersAssumption`, `InitialAssumption`); a layout comes
with a variant and an engine with a layout (`SourcesAssumption`), and the system is
not configured with one layout twice to begin with (`X11sAssumption`: if it were,
the settings would have it twice, for the code takes over what localed answers); a
box has room for a tile and a snap has a name (`SnapsAssumption`); an access point's strength is a percentage, as
libnm documents it (`AirsAssumption`).

Loops over data (`Others`, `Wanted`, `Populated`, `get_strongest_unique_aps`,
`RowsOf`, `Passes`' list) are recursive functions over the number of rounds.  The
library's induction theorem cannot be used here, so `Induction` is stated for sets
of naturals, from the least number outside (`Least`), and `RunExists` shows that
rounds given by a start and a step make a function; about its rounds each loop
then has a lemma of its own.

Types are proved of every component (`TypeCorrect` in each of the eight modules of
proofs).  In `SetupPagesProofs` each page has an invariant for its types
(`NetworkTypes`, `TimezoneTypes`, …), which says more than `TypeOK` where a
variable's type rests on another's: that what is in flight, in a queue or chosen
is of the kind that its answer, its reader or its list expects.  In
`AccountSavingProofs` that is `KeyringGiven`: a step of the saving that gives the
keyring a password finds one, although one step takes it from the form and the
other from the driver, since the steps of a local and of a domain user are never in
one list.

Two theorems say how far a disagreement that a run shows can reach.
`FinalizedOnlyByLocale`: of all handlers that rebuild the pages only a new locale
destroys a page that is being applied, and only from a page before the account
page, where the user has gone back to while the domain is joined; the account
page's own rebuilds, which run at the same time, never do.  `LockedOutForOneStep`:
as long as no call is lost, the parent's account is without a usable log-in for
one step of the saving, the one before `set_password_mode`, and stays so only
when the process is killed there.

What stays with TLC alone: what must happen in
the end (`PagesSettle`, `QuitsInTheEnd`, `ApplyEnds`, `FormSettles`), and with it
all that is said with fairness or ENABLED, which no installed prover reaches; and
the runs that show a disagreement.

Liveness and `ENABLED` are out of TLAPS's reach and stay with TLC.

## 6. Not modelled

* The copy worker (`gnome-initial-setup-copy-worker.c`): one short process of
  five independent moves, which runs when the wizard does not and shares only
  files with it.
* The privacy, software, ubuntu-report and welcome pages: one switch or link
  each, written by one call when the page is applied.  Applying and skipping them
  is `GisAssistant`'s.
* `um-photo-dialog.c`, the webcam and cropping: pictures, which nothing depends on.
* `main` and the stamp files: read or written once, before the main loop or by
  *Done*.
* The parental controls page's own choices: widgets of libmalcontent.
* The text of suggested user names and of the strength of a password
  (`um-utils.c`, `pw-utils.c`): what is suggested, and what pwquality refuses, are
  constants of `AccountForm` and `PasswordForm`.
* Widgets, layout, labels, drawing and the timezone map's pictures; the filters
  of the choosers, which only narrow what is seen; translations; build files and
  packaging.

PROJECT.json lists each component with its status.

## 7. Plan

Done: `GisAssistant`, which implements `Wizard`; `Livepatch`, which implements `DeferredQuit`;
`EnterpriseJoin`; `PasswordForm`; `AccountForm`; `AccountSaving` with the log-in
behind it; `PageList`; `SetupPages`, of `AccessPoints` and `NetworkPage`,
`TimezonePage`, `AppsPage`, `GoaPage`, `KeyboardPage`, `LanguagePage` and
`AuthDialog`; each with its proofs.

Later work, in order.

1. `Usernames`: the suggestions of `um-utils.c` as operators over words, against
   a reference definition on bounded inputs; `pw_strength` likewise.
2. `CopyWorker`: five moves from the home of the first boot to the user's own.
