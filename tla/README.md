# DeployKeys Desktop in TLA+

A verification development kept beside the code: TLA+ modules for the parts of
DeployKeys Desktop whose correctness depends on the order of steps, TLC
configurations that check them on small instances, and TLAPS proofs of their
safety properties for every value of the constants.

Paths below are relative to the repository; `core` is
`crates/deploykeys-core/src`, `app` is `crates/deploykeys-app/src/lib.rs`,
`ui` is `crates/deploykeys-ui/src`.

* [The system](#the-system), [Modules](#modules), [Runs](#runs),
  [Fairness](#fairness), [Proofs](#proofs), [Findings](#findings),
  [Known divergences](#known-divergences), [Not modelled](#not-modelled),
  [Plan](#plan)

## The system

The desktop host (`app`) is a Tauri process. Each IPC command is an `async fn`
on a multi-threaded tokio runtime, and the web view may have several in flight,
so every `.await` is a point where another command can run. The host keeps one
`AppState`: the SQLite pool, the cached GitHub token, the clone tasks and their
id counter. The services (`core/services`) do the work. A repository method of
`core/db` is one SQL statement, hence atomic; nothing opens a transaction over
several statements; `UPDATE` and `DELETE` of a missing row succeed with no row
changed; foreign keys cascade. Side effects outside the database are GitHub's
REST API, files on this machine or on a server over SSH, `~/.ssh/config`, the
keyring, and `git`.

The window (`ui`) is one thread of Leptos signals and effects. A call to the
host is a future whose answer runs in a step of its own, in any order with
other answers and with the user's clicks; timers and animation frames likewise.
What a screen does with an answer depends on what the screen is by then.

| Component | State | Operations | Interacts with | What is hard | What makes it correct |
|---|---|---|---|---|---|
| Key bindings (`core/services/key_binding_service.rs`) | `key_bindings` rows, deploy keys on GitHub, key files | `create_and_upload_key`, `upload_existing_key`, `verify_key` | GitHub, SSH config, targets, accounts, keys | three side effects without a transaction, hand-written rollback, stale rows replaced, cascades, lost replies, crashes | no deploy key is forgotten, shared, or replaced while live; files of saved bindings survive |
| Clone tasks (`app`) | task list behind a mutex, `clone_tasks` and `repo_clone_paths` settings, work trees | `clone_repository(_to_path)`, `append_clone_log`, `finish_clone_task`, `clear_clone_tasks`, `load_clone_tasks` | git, the settings table, connect/test remote | snapshots written after unlock, restart, ids that start over, a failed first save | ids unique, running means in flight, outcomes final, the setting follows the list, the last clone is found |
| Managed SSH config blocks (`core/services/key_binding_service.rs`) | `~/.ssh/config` here and on servers | `ensure_repo_ssh_config`, the config editor of the settings screen | ssh, git | read-modify-write without a lock, textual search for markers | only the app's own block changes, each repository has one block with its key |
| SSH key files (`core/services/ssh_key_service.rs`) | `ssh_keys` rows, key directories | create, update (rename), delete | targets, bindings | files and rows have no common transaction | a row's files exist, no files without a row, no pair over another |
| Session and token (`core/services/auth_service.rs`, `app`) | `accounts` rows, stored tokens, the token cache, the window's account | sign in, sign out, restore | GitHub, credentials, everything under the account | a cache filled by a command that overlaps sign-out; tokens under random references; answers that come late | every row's token is stored; window, cache and rows agree when the calls are over |
| Repository sync (`core/services/repo_sync_service.rs`) | `repositories` rows, the list on screen | `sync_repositories`, `list_repositories` | GitHub pages, account | two syncs, sign-out in the middle | no row of one user in another's list |
| Credential file store (`core/credentials/file_store.rs`) | a JSON file (development only) | get, set, delete | session, targets | a write that fails is only logged | what was stored is found until the next start |
| Connections and targets (`core/services/target_service.rs`, `app`) | `targets` rows, the active connection, SSH passwords, the Connect screen | create, edit, test, connect, delete, refresh | credentials, keys, bindings | check and delete in separate awaits, credentials outside the database, a row or screen gone during its call | the active connection exists; the passwords stored are those of the rows; a status is the row's |
| Remote of a clone (`app`) | `origin` and marks of work trees | `connect_repository_remote`, `test_repository_remote` | clone paths, bindings, `~/.ssh/config` | a chain of commands while trees, keys and repositories change | the mark says no more than was done; a passed test has reached the repository |
| Language, page size, paging (`ui/app.rs`, `ui/page_size.rs`, `ui/i18n.rs`) | two signals, two settings | the start, every choice, every list | settings | saves that land in any order, a start that reads late | the saved value is the one on screen; pages show every match once |
| Progress line and toasts (`ui/app.rs`) | entries, generations, timers | begin, report, complete, fail, push, close | every call | timers of an earlier completion, events that come late | the line tells of the calls under way and goes |
| Keys screen (`ui/screens/keys.rs`) | rows, dialogs, per-row signals | load, create, edit, delete, copy | SSH key files | answers that find the screen reloaded, switched or left | rows are the connection's keys; no control stays disabled |
| Date filter (`ui/screens/keys.rs`) | draft, range, month | open, pick, turn, apply, cancel | Keys screen | the calendar's arithmetic, a range picked backwards | the range finds the keys of its days |
| Dialogs of the Repos screen (`ui/screens/repos.rs`) | bind dialog, remote menu, clone list, remote-path dialog | bind, connect, test, clone, poll, clear | bindings, remote, clone tasks | answers for an earlier opening, polls that overtake each other, hide timers | what is bound is on offer; the list catches up |
| Window and tutorial (`ui/app.rs`) | screen, section, overlays, the tutorial's step | navigate, sign in and out, tour | all screens | frames outstanding while the user moves on | the bubble points at its step's target; no mark is left |
| Command palette and theme (`ui/app.rs`, `ui/theme.rs`) | query, selection, history, theme | type, move, enter, delete, toggle | all screens | a list that shrinks under the selection | Enter finds an entry; the page follows the theme |
| Settings page (`ui/app.rs`, `app`) | the key directory, the editor of `~/.ssh/config` | load, type, pick, save | SSH key files, config | loads that overtake edits, a file others write | a tab shows what is saved |
| SSH execution (`core/ssh`) | none | run one command | servers | time-outs, missing exit status | an error is reported as one |
| Rest of the user interface, translations (`ui`) | none of interest | markup, focus, strings | | | |

`PROJECT.json` lists the hazards of each at the line where they bite.

## Modules

### KeyBinding, DeployKeyLife

`KeyBinding` models `KeyBindingService`. State: the rows of the three parent
tables (`repos`, `targets`, `sshKeys`), the key pairs on disk (`files`),
`bindings` with its AUTOINCREMENT counter, GitHub's deploy keys (`remote`), and
for each worker -- a command in flight -- the call it executes with its local
variables (`op[w]`). One action is one awaited call together with the
synchronous code up to the next await:

| Code | Actions |
|---|---|
| `upload_existing_key` up to the slot; `create_and_upload_key` up to the slot | `StartBind`, `StartGenerate` |
| `stale_binding_slot`, `remote_binding_exists` | `ReadSlot`, `CheckRemote` |
| `read_target_public_key`; `LocalKeyGenerator::generate` | `ReadPair`; `GeneratePair`, `GenerateRefused` |
| the same for RSA: the check for files, `ssh-keygen`, `cleanup_key_files` | `SeeNoFiles`, `GenerateRefused`; `Keygen`, `KeygenUnread`, `KeygenFailed`; `CleanKeygen` |
| `create_deploy_key` | `PostCreated`, `PostRefused`, `PostReplyLost` |
| `save_uploaded_binding` | `SaveReplace`, `SaveCreate`, `SaveFailed` |
| `ensure_repo_ssh_config` | `ConfigWritten`, `ConfigFailed` |
| the rollback arms | `UndoRow`, `UndoKey`, `UndoKeyFailed`, `UndoFiles` |
| `verify_key` | `StartVerify`, `VerifyList`, `VerifyFile`, `VerifySave` |
| early returns before any effect | `GiveUp` |
| `sign_out`, `delete_connection`, `delete_key`, somebody on github.com, the end of the process | `SignOut`, `DeleteTarget`, `DeleteSshKey`, `UserDeletesDeployKey`, `Crash` |

The history variable `untracked` collects the deploy keys that a *named* event
took out of the application's books: a lost reply, a failed rollback, a
cascading delete, a replaced row, a crash. `KeysAccountedFor` then says that
nothing else loses a key; a return path that forgets one violates it. `raced`
collects the paths at which a pair was begun while the `ssh-keygen` of another
call was under way.

`list_deploy_keys` is one request without a page: `Listings` is what GitHub may
answer, all deploy keys of a repository if they fit a page of `PageSize`, and
any page of that size otherwise. So `CheckRemote` and `VerifyList` can miss a
live key. `ReplacedKeyIsGone` is about calls whose listing was whole
(`op[w].whole`); without that, a live binding may be replaced (Known
divergences).

Abstractions: titles, permissions, algorithms and fingerprints are left out;
key pairs are named, not computed (the two files of a pair come and go
together); the outcome of an SSH command or of writing
`~/.ssh/config` is success or failure. GitHub accepts a key pair once (the
"key is already in use" error); a freshly generated pair is always new to it.

`DeployKeyLife` is what the service promises about one deploy key, with no
rows, calls or files: uploaded once, held, perhaps bound, at the end gone or
stray, never adopted again and never back from the dead. `KeyBinding`
implements it (`ImplementsLife`), under the mapping `LifeOf`.

### CloneTasks

`CloneTasks` models the clone tasks of `app`. State: `tasks` (the list behind
the mutex), `nextId`, `saved` and `paths` (the two settings), `disk` (work
trees), and `job[w]` (a command or clone in flight, with the snapshot or map it
is about to write). A critical section is one action; the write of its
snapshot, after the lock is released, is another. `Prepare`, `Push`,
`Snapshot`, `SaveFirst`/`SaveFirstFails` are the two clone commands up to the
spawned task; `AppendLog`/`SaveLog` are `append_clone_log`;
`GitSucceeds`/`GitFails` are the exit of `git` or of the SSH command;
`Finish`, `LoadPaths`, `StorePaths`, `PathFails`, `SaveEnd` are
`finish_clone_task`; `Clear`, `SaveClear` are `clear_clone_tasks`; `Restart` is
`load_clone_tasks` with `AppState::new`.

History variables: `stuck` (tasks whose first save failed: git never ran and
nothing ever ends them), `behind` (a snapshot older than the list was saved
over the list, or the write of the newest snapshot failed), `latest` (where the
last reported local clone of a repository went; none once its path could not be
stored, or once another clone's older map was stored over it).

Abstractions: a log is a count of chunks; the list is a set (the order is only
a tie-break in `latest_successful_clone_path`); a work tree is a pair of
repository and parent directory. `ColonDirs` are the local directories with
`": "` in their path: `finish_clone_task` tells a remote clone by those two
characters, so a clone into such a directory is not stored as a path.

### SshConfig

`SshConfig` models one `~/.ssh/config`, here or on a server (`onServer`, chosen
in `Init` from `Places`). State: `config`, the file as a sequence of lines;
`editor`, the text the settings screen has loaded; `job[w]`, a call with the
text it is about to write and, for the histories, the file it read. `wanted`
(the key of the last successful call for a repository), `user` (the user's own
lines) and `damaged` (markers were cut, or a write was torn or met another
writer) are history.

| Code | Actions |
|---|---|
| `ensure_repo_ssh_config` up to the read; `ensure_local_repo_ssh_config`: `read_to_string` and `replace_managed_block`; `tokio::fs::write`, truncation and content apart; `set_permissions`, whose failure is the call's | `Ensure`, `Read`, `Truncate`, `Fill`, `FillOld`, `DiskFull`, `GiveUp` |
| `ensure_remote_repo_ssh_config`: `sed` into a temporary file, `mv`, and a `chmod` that fails or a reply that is lost | `RunSed`, `Move`, `GiveUp` |
| `get_ssh_config_file`, `save_ssh_config_file` (a rename of a complete file) | `OpenEditor`, `SaveEditor` |
| the end of the process | `Crash` |

`Replaced` is `replace_managed_block` (the markers are searched as text, hence
`StartsWith` on the decimal ids); `Scripted` is the `sed` script, whose
patterns are whole lines. Abstractions: blank lines and the fixed lines of a
block are left out; a line of the user's is a value, and `UserLines` is each
of them with its number among the user's lines. The user adds lines or deletes lines of
the kinds in `Cuts`; what is saved in the editor is what is wanted from then
on. `Fill` keeps what another call wrote behind the end of a shorter text: both
write from the start of a file neither locks; and a call that has the file
open while the editor renames another into its place writes the old one
(`FillOld`).

Calls overlap as they like, and the ids are those of which one starts with the
other. What they may then do to each other is not left out but named: a call
that another write has overtaken (`Overtaken`) puts back the file it read, with
its own block, so the histories follow what it read (`Expected`, `PutsBack`);
a call that finds another repository's marker in place of its own (`Mistaken`)
takes that one's block. The properties say that nothing else is lost, and that
blocks are complete even then. `Ends` says that a call which has written the
file may still report an error: then nothing is expected of the repository's key.

### SshKeyStore

`SshKeyStore` models the `ssh_keys` rows of one target and the key directories
on its disk. State: `rows`, `made` (directories), `disk` (pairs, each with the
path it is at), `target` (the connection's row exists), `job[w]`. `stray` (pairs
that a named event, or the overlap of two commands, may have parted from their
rows) and `removed` (by the user) are history.

| Code | Actions |
|---|---|
| `create_local_key_for_target` | `StartCreate`, `CheckSlot`, `MakeDir`, `Generate`, `GenerateFails`, `GenerateFailsLate`, `Insert`, `InsertFails` |
| `create_remote_key_for_target` (one script) | `StartCreate`, `CheckSlot`, `CreateScript`, `Insert`, `InsertFails` |
| `update_key`, `update_remote_key` (a rename of the directory) | `StartUpdate`, `CheckFiles`, `CheckDuplicate`, `LookForDir`, `MoveDir`, `UpdateRow`, `UpdateFails`, `MoveBack`, `MoveBackFails` |
| `delete_key` | `StartDelete`, `RemoveFiles`, `RemoveFilesFails`, `RemoveDir`, `DropRow`, `DropFails` |
| early returns | `GiveUp` |
| `delete_connection` and a new connection to the same server, somebody's `rm`, the end of the process | `DeleteConnection`, `Reconnect`, `UserRemoves`, `Crash` |

Abstractions: the public and the private file of a pair are one; the file name
is the algorithm; names, comments and permissions are left out. A path is a
sequence of directory names, since `mv` on a server can put one directory in
another. A script run over SSH is one step: that `create_remote_key_for_target`
cleans up with `rm -rf` a directory which another script moved something into
in the meantime is below this grain. The rows of another target do not meet
these: a target has its own base directory.

### Session

`Session` models signing in and out and the list of repositories, with the
window that shows them. State: the tables (`accounts`, `repos`, `lastId`), the
credential store (`store`, and `saved`, the file the development back end finds
at its next start), the process's `cache`, the calls (`job[w]`), and the window
(`screen`, `section`, `signing`, `account`, `shown`, `syncing`). A call's
answer reaches the window in a step of its own.

| Code | Actions |
|---|---|
| `sign_in_with_token`: `AuthService::sign_in` and the cache | `GetUser`, `StoreToken`, `FindAccount`, `UpdateAccount`, `InsertAccount`, `CacheToken`, `CheckEmpty`, `SignInFails` |
| `sign_out` | `ListAccounts`, `WipeToken`, `DropAccount`, `ClearCache`, `SignOutFails` |
| the account and `resolve_token`: the cache, or the stored token | `FindSession`, `UseCached`, `ReadToken`, `KeepToken` |
| `RepoSyncService` | `Fetch`, `Look`, `Insert`, `Update`, `Refused`, `SyncDone`, `SyncFails` |
| `list_repositories`, `get_session` | `ReadRows`, `See`, `Listing`; `ReadSession`, `Booted` |
| the window | `OpenSignIn`, `CancelSignIn`, `SubmitToken`, `ClickSignOut`, `ClickSync`, `LeaveRepos`, `ReturnToRepos`, `SignedIn`, `SignInRefused`, `SignedOut` |
| the end of the process, and its next start | `Restart` |

`upset` records that two account calls overlapped, that something failed, or
that a call ended half done; `SessionSettles` and `ScreenSettles` promise
nothing then (the known divergences say what really happens). GitHub's pages
are one set of repositories; a token is the user it belongs to.

### Connections

`Connections` models the `targets` table, the SSH passwords of the credential
store, the setting `active_connection`, and the Connect screen. State:
`targets`, `local`, `lastId`, `passwords`, `lastRef`, `active`, `job[w]`, and the window
(`section`, `listed`, `connected`, `toRead`).

| Code | Actions |
|---|---|
| `list_connections`, `get_active_connection` | `ReadList`, `CreateLocal`, `ListFails`, `SetConnections`; `StartRead`, `ReadActive`, `Apply` |
| `set_active_connection` with `check_target` | `ClickToggle`, `Resolve`, `FindTarget`, `Checked`, `SaveStatus`, `SetActive`, `Toggled` |
| `create_remote_connection` | `ClickCreate`, `CheckAlias`, `StorePassword`, `InsertTarget` |
| `update_remote_connection` | `ClickEdit`, `FindEdited`, `StorePassword`, `UpdateTarget`, `DropPrevious` |
| `delete_connection` | `ClickDelete`, `CheckActive`, `FindDeleted`, `DeleteRow` |
| `test_remote_connection_config` | `ClickTest`, `StorePassword`, `TestDone` |
| search box, filters and pages of the list | `Recreate` |
| navigation, the end of the process | `LeaveConnect`, `OpenConnect`, `Restart` |

A row's `busy` is a signal of the row: it goes with the screen, and with the
row when the search box, a filter or a page takes that away and brings it back
(`Recreate`, at any time; below a dialog only an answer can do it, through the
status filter). The call goes on, and the row, idle again, can be clicked.
`upset` records `overlap` (calls beside each other, a call that outlived its
row or screen), `fault`, and `loose`: a call that checks or changes a row was
begun while another one was at it (`Doubled`, possible only for a row that was
brought back or a screen left and reopened), or a call was left half done. The
first three properties promise nothing after `loose`. Aliases are
abstracted to a refusal that may come at any time; hosts are values, an edit
may change one.

### Remote

`Remote` models `connect_repository_remote` and `test_repository_remote`
command by command, on work trees that two repositories of one name may share.
State: `name` (renames on GitHub), `tree` (origin and marks), `latest` (the
path setting), `file`, `deploy`, `binding`, `block` (of `~/.ssh/config`),
`job[w]`; `ready` is history.

| Code | Actions |
|---|---|
| `connect_repository_remote`: the path, `git remote set-url`, the two `git config` marks | `Start`, `Look`, `SetOrigin`, `MarkRepo`, `MarkUrl`, `ConnectDone` |
| `test_repository_remote`: the marks, origin, `ssh -T`, `git ls-remote` | `Start`, `Look`, `GetRepo`, `GetUrl`, `CheckOrigin`, `CheckSsh`, `Reach`, `TestDone` |
| a command that fails or times out | `Fails` |
| other commands, each one step: key creation and rename, binding, clone, sync; the user and GitHub; the end of the process | `CreateKey`, `RenameKey`, `Bind`, `Clone`, `Sync`, `RemoveTree`, `UserSetsOrigin`, `UserDeletesDeployKey`, `Crash` |

Bindings are active here; what `verify_key` does to their status is in
`KeyBinding`.

### Preferences

`Preferences` models the language and the page size: two signals, two
settings, the start that reads one after the other (`BootReads`, `BootFails`,
`BootLanguage`, `BootSize`), the user (`ChooseLanguage` is `apply_locale`,
`ChooseSize`, `LeaveList`, `OpenList`, `Filter`, `GoTo`), a list that is
answered (`ListChanges`), and the saves, which land and are answered in any
order (`Land`, `LandFails`, `AnsweredLanguage` with the repair of an older
save, `Answered`). `Restart` is the next start. `FromCode` and `Code` are those
of `Locale`; `PageCount`, `Clamp` and `Shown` are the arithmetic that Repos,
Keys and Connect page by. `Aliases` are the codes `from_code` reads as another
locale's: no locale is saved under one of them.

### Feedback and CloneList

`Feedback` models `ProgressHandle` and `ToastHandle` with every timer: `Begin`,
`Report`, `Answer`, `End` (the calls), `Listen`, `Hear` (streamed events, on a
channel of their own), `Climb` (the simulated entry), `Fires` (hold and fade of
`maybe_complete`, guarded by the generation), `Push`, `Enter`, `Close`,
`Expire`, `Drop` (a toast). `CloneList` models the polled list of clone tasks,
the clone button, the dialog for a path on a server and that dialog's timers.

### The screens

| Module | Code | What it models |
|---|---|---|
| `KeyScreen` | `ui/screens/keys.rs` | the list with its loads (`LoadEffect`, `Refresh`, `LoadAnswered`), each row's copy, edit and delete with their dialogs, the commands (`ListKeys` ... `UpdateKey`), and what an answer still finds: a reload replaces every row with its signals (`Redraws`, `Tied`) |
| `DateFilter` | `DateRangeDropdown`, `DateRangeCalendar` | `CalendarCells`, `FormatDate`, `ParseDate`, `Matches`; the picker's draft, `SelectDate`, `Apply`, `Cancel` |
| `RepoActions` | `ui/screens/repos.rs` | the bind dialog with its list of keys, and the menu that connects and tests the remote |
| `Shell` | `ui/app.rs` | screens, sections, overlays, the side bar, signing in and out, and the tutorial with its frames (`ShowStep`, `HideStep`, `Frame`) |
| `Palette` | `ui/app.rs`, `ui/theme.rs` | the palette's query, selection, keys and history; the theme and the system's colour scheme |
| `SettingsTabs` | `ui/app.rs`, `app` | the tabs for the key directory and `~/.ssh/config`, their loads and saves, and the commands behind them (`Expand`, `HomeRelative`, the write through a temporary file) |

### Window

Components of the window share no signals except those a module declares to
change by themselves (the connection, the keys, the account). `Window` uses
that: it puts `Preferences`, `Feedback`, `CloneList` and the six screens
together, and one of the nine runs in a behaviour (`part` says which) on the
variable slots `v1` ... `v12`; `Init` gives a part its slots in the order of
its variables, and the others stay `None`. `WindowAssumption` is what the parts
assume of the constants, `Fairness` what the timers may rely on.

`MCWindow` gives the constants values; `MCScreens.cfg` looks at the parts the
user works with, `MCWindow.cfg` at the two that timers keep up to date.
`CodesRoundTrip` evaluates the rows of the tests `locale_codes_round_trip` and
`from_code_handles_legacy_values` that the instance has.

## Runs

Model values are used throughout; symmetry only in runs without liveness.
`CHECK_DEADLOCK FALSE` everywhere: when the bounds are used up and the parents
are deleted, or the window is at rest, there really is nothing left to do.

| Run | Shows | Bounds, and why they suffice |
|---|---|---|
| `binding` | `KeysAccountedFor`, `NoSharedDeployKey`, `ReplacedKeyIsGone`, `GeneratedFilesKept`, and `ImplementsLife`, all three calls mixed | 1 repository, 1 target, 1 key, 1 path, 2 workers, 2 deploy keys, of which a page lists 1: one slot is what calls compete for; two deploy keys are an old and a new one. States that differ in a row's status or a verdict, which nothing reads, are one (`View`) |
| `binding_duplicate` | Findings | 2 keys, 3 deploy keys: a stale one, and one per concurrent replacement |
| `clone` | `TaskIdsUnique`, `RunningIsInFlight`, `StatusFinal`, and `WorkersSettle`: commands and clones end or wait for git | 1 repository, 1 directory, 2 workers, 2 ids between restarts, 1 chunk: a second id is what can clash |
| `clone_settings` | the two settings under two clones or commands at once, whose writes land in either order and whose maps overtake each other: `QuietMeansSaved`, `LatestIsFound` | 2 repositories, 1 local directory, 2 workers, 2 tasks, symmetric |
| `config` | `UserLinesKept`, `WellFormed`, `QuietMeansConfigured`, and `OwnBlockWritten` also of damaged files; both places, two calls that overlap, an editor that may be older than the file, a process that dies while writing, a full disk, errors after the write | repositories 1 and 12, 2 keys, 2 calls, 7 lines: two blocks and a line of the user's; two of the calls and the editor at the same time, and in a damaged file no editor and no call begun beside another (`MCConstraint`). A damaged file's histories, which nothing reads any more, are not told apart (`MCView`) |
| `keys` | `FilesAccountedFor`, `RowHasItsFilesHere`, `OnePairPerPath`; both places, everything that may fail fails, commands overlap | 3 directories, 2 algorithms, 2 pairs, 2 commands: an occupied, a left-over and a free directory |
| `session` | `RowsStayWithTheirUser`, `TokenIsThere`, `SessionSettles`, `ScreenSettles` | 2 users, 1 repository both can see, 2 calls at a time, 2 sign-ins, one fault or restart: a second user is what can meet the first one's rows |
| `connections` | `ActiveExists`, `PasswordsOfTheRows`, `StatusOfThisHost`, `WindowSettles` | 1 server with 2 hosts to be at, 2 passwords, 2 calls at a time, rows brought back and screens left at any time, one fault or restart: what a call finds changed is its own row; states after `loose` are not continued (`MCConstraint`), as nothing is said of them |
| `remote` | `MarkedWasWired`, `ConnectSatisfiesTest`, `TestMeansReachable` | 2 repositories that share a directory, 2 key paths, 3 key pairs, 2 names, 2 commands, 3 changes from outside |
| `page_size` | Findings | 2 languages, page sizes 5 and 10, 6 rows |
| `screens` | `KeysSafe`, `DatesSafe`, `ActionsSafe`, `ShellSafe`, `PaletteSafe`, `SettingsSafe`, `SettingsKept`, `PagesShowTheMatches`, one screen in a behaviour | 2 calls at a time, 2 keys, 2 directories, 2 connections, 1 timer; 1 frame and 1 call of the shell; 2 remembered labels; the years 1900, 2000, 2023, 2024 and six dates around their ends; 2 languages; page sizes 2 and 3 with 0 and 3 rows (none, a full page, a page and a rest); directories typed in three ways; between two starts the user chooses languages, or pages and chooses sizes (`MCOneChoice`); one call beside a read of the connection (`MCOneBesideRead`) |
| `window` | `WindowSafe`, `TimersRunOut`, `ListCatchesUp` | 2 calls, 1 toast, a climb in two steps, two checkpoints per stream; 2 polls and 1 click, 2 repositories, 1 task |

The largest runs have 1 to 4 million distinct states. `PageSize`, `MaxDeployKeys`,
`MaxTasks`, `MaxLog`, `MaxLines`, `MaxKeys`, `MaxSignIns`,
`MaxTargets`, `MaxRefs`, `MaxNames`, `MaxChanges`, `MaxTimers`, `MaxFrames`,
`MaxCalls`, `MaxToasts`, `MaxHistory`, `MaxErrors` are bounds of the instances;
the proofs hold for every value of those that occur in them. Where a bound would stop a call in the middle, the
call is not started (`Room`, `Secrets`). `Faults`, `Cuts` and `Places` select
what the environment of an instance may do. `KeyScreen!Init` gives keys to this
machine only.

## Fairness

`CloneTasks!FairSpec` assumes that the host's own steps complete (SQLite and
the file system answer) and nothing of `git`: a clone has no timeout, so
`WorkersSettle` counts waiting for git as settled. `Window!Fairness` assumes
that the browser fires every timeout and the interval and delivers every event
and answer, and that `list_clone_tasks` answers (it reads a list in memory);
nothing else makes the backend answer, and nothing makes the user click. All
other modules state safety only.

## Proofs

Eight modules of proofs: one for each component of the host, extending it, and
`WindowProofs` for the parts of the window, extending `Window`. The theorems
hold for any sets of users, repositories, directories, keys and workers and any
value of the bounds.

| Module | Theorem | Property | Hypotheses beyond the module's assumptions |
|---|---|---|---|
| `KeyBindingProofs` | `TypeCorrect` | `TypeOK` | |
| | `NoKeyForgotten`, `DeployKeysNotShared`, `OnlyGoneKeysReplaced` | `KeysAccountedFor`, `NoSharedDeployKey`, `ReplacedKeyIsGone` | |
| | `SavedFilesStay` | `GeneratedFilesKept` | |
| | `LifeImplemented` | `ImplementsLife` | |
| `CloneTasksProofs` | `TypeCorrect`, `IdsIdentifyTasks`, `RunningIsTruthful`, `OutcomesAreFinal` | `TypeOK`, `TaskIdsUnique`, `RunningIsInFlight`, `StatusFinal` | |
| | `TasksAreSaved`, `LatestCloneIsFound` | `QuietMeansSaved`, `LatestIsFound` | |
| `SshConfigProofs` | `TypeCorrect`, `BlockIsWritten` | `TypeOK`, `OwnBlockWritten` | |
| | `UserLinesSurvive` | `UserLinesKept` | |
| | `BlocksStayWhole`, `BlocksStayConfigured` | `WellFormed`, `QuietMeansConfigured` | |
| `SshKeyStoreProofs` | `TypeCorrect`, `NoKeyOverwritten`, `FilesHaveAnOwner`, `RowsHaveTheirFiles` | `TypeOK`, `OnePairPerPath`, `FilesAccountedFor`, `RowHasItsFilesHere` | |
| `SessionProofs` | `RowsKeepTheirUser`, `TokensAreThere`, `SessionsSettle`, `ScreensSettle` | `RowsStayWithTheirUser`, `TokenIsThere`, `SessionSettles`, `ScreenSettles` | |
| `ConnectionsProofs` | `ActiveConnectionExists`, `PasswordsBelongToRows`, `StatusIsOfThisHost`, `WindowSettled` | `ActiveExists`, `PasswordsOfTheRows`, `StatusOfThisHost`, `WindowSettles` | |
| `RemoteProofs` | `TypeCorrect`, `MarksAreTrue`, `ConnectIsEnough`, `PassedIsReached` | `TypeOK`, `MarkedWasWired`, `ConnectSatisfiesTest`, `TestMeansReachable` | |
| `WindowProofs` | `SettingsAreKept`, `PagesPartitionTheMatches` | `SettingsKept`, `PagesShowTheMatches` | |
| | `KeysAreSafe` | `KeysSafe` | |
| | `ActionsAreSafe` | `ActionsSafe` | |
| | `ShellIsSafe` | `ShellSafe` | |
| | `SettingsPageIsSafe` | `SettingsSafe` | |
| | `PaletteIsSafe` | `PaletteSafe` | |
| | `WindowIsSafe` | `WindowSafe` | |

Assumptions: `KeyBindingAssumption`, `CloneTasksAssumption`,
`SshConfigAssumption`, `SshKeyStoreAssumption`, `SessionAssumption`,
`ConnectionsAssumption`, `RemoteAssumption` say that the name spaces are
disjoint and the bounds natural numbers; `WindowAssumption` says it of the
parts of the window: `None` is no connection, key, directory, row, text,
repository, stream or step of the tutorial (TLC confirms it for a model value);
a stream is not the number of a call; ids of keys and languages are finitely
many; English is a locale and no locale has a code that `from_code` reads as
another's; sizes are from 1 to 500; the palette remembers at least one label;
the climb stops below 100. `NoAccount`, `NoTarget` and `NoTree`
that the value for "no row" is no row, which TLC confirms for a model value.

### The arguments

**KeyBinding.** One inductive invariant `IInv`, which adds to the three
invariants: ids handed out by GitHub are smaller than the next one
(`IdsAreFresh`: a new key cannot be one a row or a call already names); rows
and calls name the repository their deploy key is on (`RepoAgrees`:
`CheckRemote` looks the id up among the keys of one repository, and a miss in
a listing that has them all must mean the key is nowhere); a call that has not looked up its slot has
nothing to replace (`SlotUnread`). Generated files need a second one,
`Generated`: where nobody raced (`Alone`), a pair a call has begun and not
saved is in no row, and another call's is another pair, and it is on disk once
the call has gone on to GitHub; so the undo or the cleanup of one call, which
removes files by path, never removes those of a row. A call that begins a pair
sees no file: any other call that works on that pair would have its file
there, or be at its `ssh-keygen` or cleanup, which `raced` notes. The refinement reads a deploy key's life off four
facts -- uploaded, in a row, in the hands of a call, on GitHub. Most steps can
only lose a key (`OnlyLoses`), which is `Life!Lose` or a stutter; the upload is
`Life!Upload` and the saved row `Life!Bind`.

**CloneTasks.** Nothing is in flight while the host is down, an id about to be
pushed is not in the list, and a worker at its exit knows git's result. However
many write at once, either the list is saved, or an older one landed on it, or
the worker that changed it last still holds it (`Accounted`); and a repository's
latest path is stored or in the hands of a worker that will store it (`Known`).
That the writes of two workers are not ordered is in `behind` and `latest`:
without them both properties fail (Known divergences).

**SshConfig.** What the app does to a file is a *splice*: some lines of the
middle are exchanged for a block. The lemmas say what a splice does to the
user's lines (their numbers are mapped by a bijection), to the blocks'
boundaries and to their keys; `ReplacedSplices` and `ScriptedKeeps` say that
`replace_managed_block` and the `sed` script are splices. That the first
occurrence of a marker exists is the least-number principle (`FirstExists`,
from the well-foundedness of `Nat`). The invariant `Safe` holds for every number
of calls: the file, the editor and every text read or about to be written are
complete blocks; what a call has ready differs from what it read by its own
block and a mistaken one only (`Ready`); while nobody has the file truncated it
holds what the histories say (`Settled`), and until then the text of the one
that has truncated it does (`Filling`). Two calls that have it open at once
make it `damaged`.

**SshKeyStore.** Every pair is in a directory that exists, so one that was just
made exclusively holds nothing, and a rename onto a name that does not exist
meets nothing; moving a directory is injective on what is in it
(`MoveInjective`), and on a server a nested directory cannot meet one already
nested under the same name (`MoveKeeps`). For files and rows: a row per key and
per directory; the pairs of commands that overlap are marked; every other pair
is where its row says or in the hands of the one command that is moving it; on
this machine every row has its files unless the user, or a marked overlap, took
them.

**Session.** Ids and references are given once; a token is gone only while its
row is being dropped; references of different calls differ. The settling
properties need a second invariant, `Turns`: while calls were made one after
the other there is one that acts, its local state fits the tables, and between
calls window, cache and rows agree. Reads that were overtaken are allowed to be
in flight, and do not count.

**Connections.** Until things are loose, one call at a time checks or changes a
row, the password it stored is its own, and what it deletes is what its row
referred to, whether or not the row or screen that made it is still there.
Window and setting: a call of a row is still on its screen, and beside one main call there are only
reads of the setting, and none beside a toggle; either the window is right or a
call that will make it so is in flight.

**Remote.** A work tree stays in place under a command; what is marked was
wired before; halfway through a connect the marks lag origin and never lead it.
The action property says of the last step of a test what `git ls-remote` found
one step earlier.

**Preferences.** Whatever older saves are still to land, the window's language
is saved, or on its way in a save that has not landed, or a save that has
landed will find that it is not the one it saved and repair it
(`LanguageOnItsWay`). A list on the screen has its size saved or on its way in
the only save of a size. `RoundTrip` (`from_code` of a locale's code is the
locale) makes the next start bring the language back; it needs that no locale's
code is one that `from_code` reads as another's. The pages partition the
matches by the arithmetic of `div_ceil` (`Pages`, `PagesPartition`).

Each part of the window has an inductive invariant of its own, stated at the
end of its module and checked by TLC before it was proved. In `WindowProofs` a
part's lemmas run over its actions, one lemma per action or group; `Onward`
(the part that runs stays the same) and the part's lemma for a stutter lift
them to steps of `Window`. The last step of each theorem is the same: the
invariant holds of the part if it is the one that runs.

**Keys screen** (`Resting`). A row is drawn exactly when the list shows it, and
an answer that still holds a row (`live`) was sent from the row that is there.
So whatever is disabled has, in flight, the one call that gives it back
(`Waiting`). Unless a load was overtaken (`stale`), one load is in flight at a
time, and the list is the connection's keys, or a load that brings them is in
flight, or an answer is to come that starts one (`UpToDate`).

**Dialogs of Repos** (`Acting`). At most one call binds and one connects or
tests with its dialog or menu open, and the screen's signals name that call's
repository. Unless a list is late, the one on its way belongs to this opening,
and then no key has been chosen (`ChoiceStands`).

**Tutorial** (`Guided`). Of the frames outstanding the last one is the step's
own, so whatever the earlier ones mark it corrects; with no frame outstanding
the bubble points at the step's target (`StepsOwnFrame`). A sign-in can only
be under way once the tutorial was seen, so none opens it again (`SeenFirst`).

**Settings page** (`Settling`). A tab waits for one load and one save at a time
and exactly as long as its flags say (`Waiting`); undisturbed, one call is in
flight and the text it carries is the saved one, or the temporary file is
(`Undisturbed`). The directory is a fixed point of `HomeRelative`, and
expanding it gives what was created: the round trip keeps the place.

**Palette** (`Offering`). Every label is remembered once, since remembering
drops it first; that the history is a sequence of labels and the query one of
`Queries` bounds what the list can be, and every step that changes the list
resets or bounds the selection, or is one of the three that set `slipped`: a
recalled entry, a deleted one, and a language that makes the list shorter. The
page's theme needs to know that the listener is there exactly while the theme
is `System` (`ThemeKept`).

**Progress line and toasts** (`Telling`). A timer carries the generation it was
set in, and one of the present generation exists only without entries
(`LineKept`): so no old timer hides a line that is in use. The entries beside
the streams' are the calls' (`CallsKept`). What takes a stream's entry away is
an event to come or a report that is owed, also after every event still in the
channel, since each is heard in turn (`StreamsKept`); `Owed` names the run that
failed. `AggregateBelow` is a count: entries below 100 sum to less than 100
each. The attempt to prove this found that the history variable `left` was set
in `Hear` from the events before, not after, the one that is heard; with one
event left of a failed run it forgot the failure. The model was corrected.

**Remote-path dialog** (`Dialogued`). What is shown and not asked for has a
timer pending that takes it down, what is asked for has one that opens it, and
one clone at a time is the screen's (`OneClone`).

### Model-checked only

* `DatesSafe`: a date's text is read back by a recursive function over digits,
  and the calendar counts days since year 0; both ask for induction over data
  (see below), and for arithmetic of `div` and `mod` by 4, 100, 400 and 7 over
  every year. TLC checks it on leap years, centuries and turns of a year.
* `WorkersSettle`, `TimersRunOut`, `ListCatchesUp`: liveness under fairness,
  out of the prover's reach, as is `ENABLED`.
* What the folds and recursive functions of the community modules compute for
  every input needs induction theorems with an operator parameter, which the
  installed provers cannot instantiate; no theorem depends on such a fact. No
  module declares a RECURSIVE operator.

## Findings

* `binding_duplicate`: two binds that saw the same stale row both succeed; the
  first one's live deploy key is left on GitHub with nothing referring to it.
* `page_size`: the list on the screen at the start saves `DEFAULT_PAGE_SIZE`
  before the start has read the saved page size, which is then 5 at every
  start.

## Known divergences

Hazards that a property of the modules states and that the code does not
exclude. Each has a counterexample; the change of a listed configuration that
shows it, if one is needed, is given; the property is checked alone.

| Property | Counterexample | Shown by |
|---|---|---|
| `LiveBindingNotReplaced` by a single call | with more deploy keys than GitHub lists in one answer (`list_deploy_keys` asks for no further page), a live deploy key counts as gone and an ordinary second bind replaces its row; the key stays on GitHub with nothing referring to it | `binding_duplicate` with 1 worker, 2 targets, a third key on the second of them, `PageSize = 1` |
| `SavedMeansPersisted` | a bind whose stale row is deleted by sign-out or with the connection updates no row and reports success | `binding_duplicate` with one key |
| `ExistingFilesKept` (`generate`'s "`AlreadyExists` if a key file already exists", for RSA) | two RSA generations for one path pass the check together; the one whose `ssh-keygen` fails removes the files the other has made and saved | `binding` with `Jobs = {"rsa"}` |
| `VerdictMatchesRow` | `verify_key` marks a row as drifted that was replaced after it read it (the operation is not exposed to the web view today) | `binding_duplicate` with `Jobs = {"bind", "verify"}` |
| `QuietMeansSaved` without `~behind` | the snapshot written last need not be the newest one; the saved list then stays older than the one in memory | `clone_settings` |
| `LatestIsFound`, if `latest` were kept in `LatestAfterStore` | two clones end together and one of their paths is lost from the shared map | `clone_settings` |
| `QuietMeansConfigured`, if `Mistaken` were empty | the marker of repository 1 is found in that of repository 12, whose block is overwritten; the rest of its end marker stays as a line of its own | `config` |
| `QuietMeansConfigured` and `UserLinesKept`, if `Overtaken` were false | two calls read the same file, and the second write drops the first one's block; a call drops a line that the user saved since it read the file; a call that reads the file while another has it truncated leaves its own block only | `config` |
| `UserLinesKept` without `Sound` | the process ends between truncation and write: the file is empty | `config` |
| `RowHasItsFiles` (on a server) | a rename onto a directory that exists without a row moves the key inside it; the row names files that are not there | `keys` |
| `FilesAccountedFor`, if the overlap of two commands did not count as a named event | a deletion removes, by the path it read, the files of a key renamed there since | `keys` |

The window and the host also do the following, which the properties name as
exceptions or which relate two modules.

*Session.* A sync or list that resolved its token before a sign-out caches the
token again after it (`resolve_token`, `app`:1364). A sign-in that is cancelled
and repeated is carried out twice; one made before the start's `get_session` is
answered can leave two accounts. The window ignores that `sign_out` failed.
Signing in again leaves the replaced token in the store.

*Connections.* A row that the search box, a filter, a page or a reopened screen
brings back while its call runs is idle, so two calls can be at one connection:
connected while it is deleted, it is the active connection without a row;
edited while it is deleted, its new password stays without a row; edited while
it is checked, the old host's status is written on the new one; edited twice, its
row refers to a deleted password. A row
created while the list loads is not shown; a failed check never writes
`Unreachable`.

*Remote.* Connect succeeds although the alias of a renamed repository is not in
`~/.ssh/config` until a clone or bind renews it; connecting one repository
rewires the work tree of another that was cloned into its old directory; after
a key is renamed its binding's path dangles, and binding again is refused while
the deploy key is on GitHub.

*Preferences.* A language chosen while a repair is in flight is not repaired
again; page-size saves that overlap land in any order; codes such as
`zh-Latn-TW` are read as Simplified Chinese.

*Settings page.* The editor overwrites what was typed while a save is answered,
and blocks written since it loaded; after a load that failed, Save writes an
empty file; two local saves share one temporary file; the key directory's
load overwrites a directory picked meanwhile.

*Progress, toasts.* A stream that fails never reports 100, so its line stays
until the next run that succeeds; a toast closed within 16 ms of its push is
shown again and removed without a fade.

*Keys screen.* Each navigation loads the list twice; an edit whose row was
reloaded meanwhile is not followed by a reload, and a later edit of the stale
row renames the directory back.

*Palette, tutorial.* The history remembers translated labels; a language that
the start reads while the palette is open, like a recalled or a deleted entry,
changes the list without the selection, and where the list becomes shorter
Enter does nothing until the selection is moved; a frame that is
outstanding when the tutorial is left marks an element of the real screen; an
account that arrives during the sign-in step leaves the bubble pointing at a
button that is gone.

## Not modelled

SSH execution and GitHub's HTTP layer are used by their outcomes. The
translations are tables of constant strings, more than a third of the
repository's lines, without behaviour; of `ui/i18n.rs` only the codes are
modelled. Markup, icons, column widths, the movement of the keyboard focus, the
fields of the connection dialogs and the filters of the clone list's dialog
have no state that outlives a click. Logging and the wording of errors are left
out everywhere.

## Plan

Done: the host's components (`KeyBinding`, `CloneTasks`, `SshConfig`,
`SshKeyStore`, `Session`, `Connections`, `Remote`) and the window (`Window`
with its nine parts), modelled, checked and proved but for the date filter; one
abstract specification, proved to be implemented.

Left, in this order:

1. An abstract specification of `SshConfig` -- a map from repositories to keys
   plus the user's lines -- with the refinement that the splice lemmas suggest.
2. **Host**, which composes `KeyBinding`'s environment with the real sign-out,
   deletions and renames of `Session`, `Connections` and `SshKeyStore`.
3. `RangeFindsItsDays` of `DateFilter` for every year: that the comparison of
   texts agrees with that of dates as long as a year has four digits.
