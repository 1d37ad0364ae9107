---------------------------- MODULE RepoActions -----------------------------
(***************************************************************************)
(* The actions of a row of the Repos screen (screens/repos.rs): the dialog *)
(* that binds a key, and the menu that connects and tests the remote.  The *)
(* list of keys the dialog offers is asked for when it opens; the answer   *)
(* does not say which opening it is for.                                   *)
(***************************************************************************)
EXTENDS Naturals, FiniteSets

CONSTANTS
  Repos, Ids, Workers, None

RepoActionsAssumption ==
  Ids \subseteq Nat \ {0} /\ IsFiniteSet(Ids) /\ None \notin Repos

VARIABLES
  keys,     \* ids of the keys of the active connection
  ui,       \* the signals of the screen
  job,      \* job[w]: the call in flight on w
  chosen,   \* history: the key the user chose in the dialog that is open
  late      \* history: a list is on its way that an earlier opening asked for

vars == <<keys, ui, job, chosen, late>>
-----------------------------------------------------------------------------
Closed ==
  [mounted |-> FALSE, repo |-> None, list |-> {}, selected |-> 0, writable |-> FALSE,
   loading |-> FALSE, submitting |-> FALSE, menu |-> None, remote |-> None]

Idle == [op |-> "idle", repo |-> None, key |-> 0, pc |-> "sent", answer |-> {}, here |-> FALSE]
Call(op) == [Idle EXCEPT !.op = op, !.here = TRUE]

Active(w) == job[w].op # "idle"
Becomes(w, j) == job' = [job EXCEPT ![w] = j]
Sends(w, j) == ~Active(w) /\ Becomes(w, j)

\* list_by_target: the newest first.
Newest(ids) == IF ids = {} THEN 0 ELSE CHOOSE i \in ids : \A j \in ids : j <= i

Init ==
  /\ keys \in SUBSET Ids
  /\ ui = Closed /\ job = [w \in Workers |-> Idle]
  /\ chosen = 0 /\ late = FALSE

OpenScreen ==
  /\ ~ui.mounted /\ ui' = [Closed EXCEPT !.mounted = TRUE]
  /\ UNCHANGED <<keys, job, chosen, late>>

Uncovered == ui.mounted /\ ui.repo = None /\ ui.menu = None

LeaveScreen ==
  /\ Uncovered /\ ui' = Closed
  /\ job' = [w \in Workers |-> [job[w] EXCEPT !.here = FALSE]]
  /\ UNCHANGED <<keys, chosen, late>>

\* Keys come and go on another screen, or with another connection.
OtherKeys(ids) ==
  /\ ~ui.mounted /\ keys' = ids
  /\ UNCHANGED <<ui, job, chosen, late>>
-----------------------------------------------------------------------------
(* The dialog that binds a key.                                            *)

Listing == \E w \in Workers : job[w].op = "list" /\ job[w].here

\* Mutant of OpenBindDialog: the last choice stays.
OpenBindDialogSelected(w, r) ==
  /\ Uncovered
  /\ ui' = [ui EXCEPT !.repo = r, !.list = {}, !.writable = FALSE, !.loading = TRUE]
  /\ Sends(w, Call("list"))
  /\ chosen' = 0 /\ late' = Listing
  /\ UNCHANGED keys

OpenBindDialog(w, r) ==
  /\ Uncovered
  /\ ui' = [ui EXCEPT !.repo = r, !.list = {}, !.selected = 0, !.writable = FALSE, !.loading = TRUE]
  /\ Sends(w, Call("list"))
  /\ chosen' = 0 /\ late' = Listing
  /\ UNCHANGED keys

CloseBindDialog ==
  /\ ui.repo # None /\ ~ui.submitting
  /\ ui' = [ui EXCEPT !.repo = None]
  /\ UNCHANGED <<keys, job, chosen, late>>

ChooseKey(i) ==
  /\ ui.repo # None /\ ~ui.submitting /\ ~ui.loading /\ i \in ui.list
  /\ ui' = [ui EXCEPT !.selected = i]
  /\ chosen' = i
  /\ UNCHANGED <<keys, job, late>>

AllowPush ==
  /\ ui.repo # None /\ ~ui.submitting
  /\ ui' = [ui EXCEPT !.writable = ~@]
  /\ UNCHANGED <<keys, job, chosen, late>>

CanBind == ui.repo # None /\ ~ui.loading /\ ~ui.submitting /\ ui.selected # 0

SubmitBindKey(w) ==
  /\ CanBind
  /\ ui' = [ui EXCEPT !.submitting = TRUE]
  /\ Sends(w, [Call("bind") EXCEPT !.repo = ui.repo, !.key = ui.selected])
  /\ UNCHANGED <<keys, chosen, late>>

ListKeys(w) ==
  /\ job[w].op = "list" /\ job[w].pc = "sent"
  /\ \E a \in {keys, {0}} : Becomes(w, [job[w] EXCEPT !.pc = "answered", !.answer = a])
  /\ UNCHANGED <<keys, ui, chosen, late>>

Failed(w) == job[w].answer = {0}

\* The first key of the list is selected, whatever was.
ListAnswered(w) ==
  /\ job[w].op = "list" /\ job[w].pc = "answered"
  /\ Becomes(w, Idle)
  /\ ui' = IF ~job[w].here THEN ui
           ELSE IF Failed(w) THEN [ui EXCEPT !.loading = FALSE]
           ELSE [ui EXCEPT !.loading = FALSE, !.list = job[w].answer,
                           !.selected = Newest(job[w].answer)]
  /\ UNCHANGED <<keys, chosen, late>>

\* bind_deploy_key, connect_repository_remote, test_repository_remote.
Runs(w) ==
  /\ job[w].op \in {"bind", "remote"} /\ job[w].pc = "sent"
  /\ \E a \in {{}, {0}} : Becomes(w, [job[w] EXCEPT !.pc = "answered", !.answer = a])
  /\ UNCHANGED <<keys, ui, chosen, late>>

BindAnswered(w) ==
  /\ job[w].op = "bind" /\ job[w].pc = "answered"
  /\ Becomes(w, Idle)
  /\ ui' = IF ~job[w].here THEN ui
           ELSE IF Failed(w) THEN [ui EXCEPT !.submitting = FALSE]
           ELSE [ui EXCEPT !.submitting = FALSE, !.repo = None]
  /\ UNCHANGED <<keys, chosen, late>>
-----------------------------------------------------------------------------
(* Connect and Test.                                                       *)

OpenMenu(r) ==
  /\ Uncovered /\ ui' = [ui EXCEPT !.menu = r]
  /\ UNCHANGED <<keys, job, chosen, late>>

CloseMenu ==
  /\ ui.menu # None /\ ui' = [ui EXCEPT !.menu = None]
  /\ UNCHANGED <<keys, job, chosen, late>>

\* connect_repo, test_repo: one at a time on this screen.
RunRemote(w) ==
  /\ ui.menu # None /\ ui.remote = None
  /\ ui' = [ui EXCEPT !.menu = None, !.remote = ui.menu]
  /\ Sends(w, [Call("remote") EXCEPT !.repo = ui.menu])
  /\ UNCHANGED <<keys, chosen, late>>

RemoteAnswered(w) ==
  /\ job[w].op = "remote" /\ job[w].pc = "answered"
  /\ Becomes(w, Idle)
  /\ ui' = IF job[w].here THEN [ui EXCEPT !.remote = None] ELSE ui
  /\ UNCHANGED <<keys, chosen, late>>
-----------------------------------------------------------------------------
ActionsNext ==
  \/ OpenScreen \/ LeaveScreen \/ CloseBindDialog \/ AllowPush \/ CloseMenu
  \/ \E ids \in SUBSET Ids : OtherKeys(ids)
  \/ \E i \in Ids : ChooseKey(i)
  \/ \E r \in Repos : OpenMenu(r)
  \/ \E w \in Workers :
       \/ \E r \in Repos : OpenBindDialog(w, r)
       \/ SubmitBindKey(w) \/ ListKeys(w) \/ ListAnswered(w) \/ Runs(w) \/ BindAnswered(w)
       \/ RunRemote(w) \/ RemoteAnswered(w)

ActionsSpec == Init /\ [][ActionsNext]_vars
-----------------------------------------------------------------------------
(* The inductive invariant.                                                *)
Jobs ==
  [op : {"idle", "list", "bind", "remote"}, repo : Repos \cup {None}, key : Ids \cup {0},
   pc : {"sent", "answered"}, answer : SUBSET (Ids \cup {0}), here : BOOLEAN]

Screens ==
  [mounted : BOOLEAN, repo : Repos \cup {None}, list : SUBSET Ids, selected : Ids \cup {0},
   writable : BOOLEAN, loading : BOOLEAN, submitting : BOOLEAN, menu : Repos \cup {None},
   remote : Repos \cup {None}]

Shapes ==
  /\ keys \subseteq Ids /\ chosen \in Ids \cup {0} /\ late \in BOOLEAN
  /\ ui \in Screens /\ job \in [Workers -> Jobs]
  /\ \A w \in Workers : job[w].op = "list" => job[w].answer \in (SUBSET Ids) \cup {{0}}
  /\ ~ui.mounted => ui.repo = None /\ ui.menu = None /\ \A w \in Workers : ~job[w].here

(* A call that binds or tests has its dialog or its menu, and is alone.     *)
OneCall(op) ==
  \A v, w \in Workers :
    job[v].op = op /\ job[v].here /\ job[w].op = op /\ job[w].here => v = w

CallsOnRecord ==
  /\ OneCall("bind") /\ OneCall("remote")
  /\ \A w \in Workers :
       /\ job[w].op \in {"bind", "remote"} => job[w].repo \in Repos
       /\ job[w].op = "bind" /\ job[w].here => ui.submitting /\ ui.repo = job[w].repo
       /\ job[w].op = "remote" /\ job[w].here => ui.remote = job[w].repo

(* Unless a list is late, the one on its way is that of this opening: no   *)
(* key has been chosen yet.                                                *)
ChoiceStands ==
  ~late =>
    /\ OneCall("list") /\ (Listing => ui.loading)
    /\ ui.repo # None /\ chosen # 0 => ui.selected = chosen /\ ~ui.loading

Acting == Shapes /\ CallsOnRecord /\ ui.selected \in ui.list \cup {0} /\ ChoiceStands
-----------------------------------------------------------------------------
(* The key that can be bound is one the dialog lists, and the one the user *)
(* chose, unless a list asked for earlier was still on its way.            *)
BindsTheKeyOnOffer ==
  CanBind =>
    /\ ui.selected \in ui.list
    /\ chosen # 0 /\ ~late => ui.selected = chosen

(* While a key is being bound its dialog stays, so that the answer closes  *)
(* no other; and the running remote action is the one on record.           *)
CallsKeepTheirDialog ==
  \A w \in Workers :
    /\ job[w].op = "bind" /\ job[w].here => ui.submitting /\ ui.repo = job[w].repo
    /\ job[w].op = "remote" /\ job[w].here => ui.remote = job[w].repo
=============================================================================
