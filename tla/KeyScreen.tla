----------------------------- MODULE KeyScreen ------------------------------
(***************************************************************************)
(* The Keys screen (deploykeys-ui/src/screens/keys.rs): the list of the    *)
(* connection's keys, its rows with their copy, edit and delete controls,  *)
(* the dialogs, and the calls they make.  An answer finds the screen as it *)
(* is by then: reloaded, on another connection, or left.  A reload takes   *)
(* every row off the screen, with its dialogs and signals; what an answer  *)
(* then writes to them is lost.                                            *)
(***************************************************************************)
EXTENDS Naturals, FiniteSets

CONSTANTS
  Conns,      \* connections
  Local,      \* the connection the window starts with
  Ids,        \* ids of ssh_keys rows: AUTOINCREMENT, never used twice
  Dirs,       \* directory names
  Workers,    \* calls that may be in flight at the same time
  Copied,     \* bound: the keys whose copy button is used
  MaxTimers,  \* bound: timers of one copy button
  AtStart,    \* bound: the keys there are at the start
  None

\* A row of the table: the directory it was built with, and its signals.
Rows ==
  [dir : Dirs, dialog : {"none", "edit", "delete"}, saving : BOOLEAN,
   icon : {"copy", "copied"}, busy : BOOLEAN, timers : Nat]

KeyScreenAssumption ==
  /\ Local \in Conns
  /\ Ids \subseteq Nat \ {0}
  /\ None \notin Conns \cup Dirs \cup Ids /\ None \notin Rows
  /\ Copied \subseteq Ids /\ AtStart \subseteq Ids

VARIABLES
  active,  \* the setting active_connection
  store,   \* rows of ssh_keys
  used,    \* ids given out
  reread,  \* get_active_connection in flight, and its answer
  ui,      \* the signals of the screen
  job,     \* job[w]: the call in flight on w
  stale    \* history: the rows may be out of date, with no load to come

backend == <<active, store, used>>
vars == <<backend, reread, ui, job, stale>>
-----------------------------------------------------------------------------
NoRead == [pc |-> "none", value |-> None]

FreshRow(d) ==
  [dir |-> d, dialog |-> "none", saving |-> FALSE, icon |-> "copy", busy |-> FALSE, timers |-> 0]

NoRows == [i \in Ids |-> None]

Fresh(c, mounted) ==
  [mounted |-> mounted, connected |-> c, keys |-> {}, loading |-> FALSE,
   createOpen |-> FALSE, creating |-> FALSE, missing |-> 0, row |-> NoRows]

Idle ==
  [op |-> "idle", id |-> 0, dir |-> None, pc |-> "sent", answer |-> {},
   live |-> FALSE, here |-> FALSE]

Call(op) == [Idle EXCEPT !.op = op, !.live = TRUE, !.here = TRUE]

Active(w) == job[w].op # "idle"
OtherLoad(w) == \E v \in Workers \ {w} : job[v].op = "load" /\ job[v].here

KeysOf(c) == {[id |-> k.id, dir |-> k.dir] : k \in {s \in store : s.conn = c}}

\* The nested <Show>s and the <For> by id: a row that stays keeps its signals
\* and the values it was built with.
Table(u) ==
  [i \in Ids |->
    IF ~u.mounted \/ u.connected = None \/ u.loading \/ \A k \in u.keys : k.id # i
      THEN None
    ELSE IF u.row[i] # None THEN u.row[i]
    ELSE FreshRow((CHOOSE k \in u.keys : k.id = i).dir)]

Rendered(u) == [u EXCEPT !.row = Table(u)]

\* What a call can still reach of the row and of the screen it came from.
Tied(j, u) ==
  [j EXCEPT !.here = j.here /\ u.mounted,
            !.live = j.live /\ u.mounted /\ (j.op \in {"edit", "copy"} => u.row[j.id] # None)]

\* The screen becomes u, and the call on w becomes j.
Shows(w, j, u) ==
  /\ ui' = Rendered(u)
  /\ job' = [v \in Workers |-> Tied(IF v = w THEN j ELSE job[v], ui')]

Redraws(u) ==
  /\ ui' = Rendered(u)
  /\ job' = [v \in Workers |-> Tied(job[v], ui')]

Init ==
  /\ active \in Conns \cup {None}
  /\ \E f \in [AtStart -> Dirs] :
       /\ \A i, j \in AtStart : i # j => f[i] # f[j]
       /\ store = {[id |-> i, conn |-> Local, dir |-> f[i]] : i \in AtStart}
  /\ used = AtStart
  /\ reread = [NoRead EXCEPT !.pc = "sent"]   \* the read of the start
  /\ ui = Fresh(Local, FALSE)
  /\ job = [w \in Workers |-> Idle]
  /\ stale = FALSE
-----------------------------------------------------------------------------
(* Loading the list.                                                       *)

\* A list that nothing else is loading will be up to date.
Starts(w) == stale' = OtherLoad(w)

\* The effect on the connection: clear, or load.
LoadEffect(w, u) ==
  IF u.connected = None
    THEN /\ Redraws([u EXCEPT !.keys = {}, !.loading = FALSE])
         /\ UNCHANGED stale
    ELSE /\ ~Active(w)
         /\ Shows(w, Call("load"), [u EXCEPT !.loading = TRUE])
         /\ Starts(w)

\* refresh, called by the answer of w: returns if a load is running.
Refresh(w, u) ==
  IF u.loading
    THEN Shows(w, Idle, u) /\ stale' = TRUE
    ELSE Shows(w, Call("load"), [u EXCEPT !.loading = TRUE]) /\ Starts(w)

\* Another section: Main reads the active connection again.  Not so if the
\* screen comes back from the sign-in screen or from the tutorial.
OpenScreen(w) ==
  /\ ~ui.mounted
  /\ LoadEffect(w, Fresh(ui.connected, TRUE))
  /\ reread' \in {reread} \cup (IF reread = NoRead THEN {[NoRead EXCEPT !.pc = "sent"]} ELSE {})
  /\ UNCHANGED backend

Dialog == ui.createOpen \/ ui.missing # 0 \/ \E i \in Ids : ui.row[i] # None /\ ui.row[i].dialog # "none"

\* Clicks that no dialog covers.
Uncovered == ui.mounted /\ ~Dialog

LeaveScreen ==
  /\ Uncovered
  /\ Redraws(Fresh(ui.connected, FALSE))
  /\ UNCHANGED <<backend, reread, stale>>

\* Connect and Disconnect, on another screen.
Switch(c) ==
  /\ ~ui.mounted /\ reread = NoRead
  /\ active' = c
  /\ Redraws([ui EXCEPT !.connected = c])
  /\ UNCHANGED <<store, used, reread, stale>>

ReadActive ==
  /\ reread.pc = "sent"
  /\ reread' = [pc |-> "read", value |-> active]
  /\ UNCHANGED <<backend, ui, job, stale>>

\* apply_persisted; a setting that was never saved, or an error, changes
\* nothing.
Reread(w) ==
  /\ reread.pc = "read" /\ reread' = NoRead
  /\ LET u == [ui EXCEPT !.connected = reread.value] IN
       IF ui.mounted THEN LoadEffect(w, u) ELSE Redraws(u) /\ UNCHANGED stale
  /\ UNCHANGED backend
-----------------------------------------------------------------------------
(* The user.                                                               *)

Clicked(u) == Redraws(u) /\ UNCHANGED <<backend, reread, stale>>
Sends(w, j, u) == ~Active(w) /\ Shows(w, j, u) /\ UNCHANGED <<backend, reread, stale>>

ClickCreate ==
  /\ Uncovered /\ ui.connected # None
  /\ Clicked([ui EXCEPT !.createOpen = TRUE])

InCreate == ui.createOpen /\ ~ui.creating /\ ui.missing = 0

CancelCreate == InCreate /\ Clicked([ui EXCEPT !.createOpen = FALSE])

SubmitCreate(w, d) ==
  /\ InCreate
  /\ Sends(w, [Call("create") EXCEPT !.dir = d], [ui EXCEPT !.creating = TRUE])

OnRow(i) == Uncovered /\ ui.row[i] # None

ClickCopy(w, i) ==
  /\ OnRow(i) /\ ~ui.row[i].busy
  /\ i \in Copied /\ ui.row[i].timers < MaxTimers
  /\ Sends(w, [Call("copy") EXCEPT !.id = i],
           [ui EXCEPT !.row[i].busy = TRUE, !.row[i].icon = "copy"])

ClickEdit(i) == OnRow(i) /\ Clicked([ui EXCEPT !.row[i].dialog = "edit"])
ClickDelete(i) == OnRow(i) /\ Clicked([ui EXCEPT !.row[i].dialog = "delete"])

InDialog(i, d) ==
  ui.missing = 0 /\ ui.row[i] # None /\ ui.row[i].dialog = d /\ ~ui.row[i].saving

CancelDialog(i) ==
  /\ InDialog(i, "edit") \/ InDialog(i, "delete")
  /\ Clicked([ui EXCEPT !.row[i].dialog = "none"])

\* The inputs are seeded with what the row shows, whatever is stored by now.
SubmitEdit(w, i, d) ==
  /\ InDialog(i, "edit")
  /\ Sends(w, [Call("edit") EXCEPT !.id = i, !.dir = d],
           [ui EXCEPT !.row[i].saving = TRUE])

ConfirmDelete(w, i) ==
  /\ InDialog(i, "delete")
  /\ Sends(w, [Call("delete") EXCEPT !.id = i], [ui EXCEPT !.row[i].dialog = "none"])

CancelMissing == ui.missing # 0 /\ Clicked([ui EXCEPT !.missing = 0])

ConfirmMissing(w) ==
  /\ ui.missing # 0
  /\ Sends(w, [Call("delete") EXCEPT !.id = ui.missing], [ui EXCEPT !.missing = 0])

\* The icon of a copy goes back after a second; an earlier copy's timer does
\* not ask whose it is.
TimerFires(i) ==
  /\ ui.row[i] # None /\ ui.row[i].timers > 0
  /\ Clicked([ui EXCEPT !.row[i].timers = @ - 1, !.row[i].icon = "copy"])
-----------------------------------------------------------------------------
(* The commands.  Each asks for a key of the active connection.            *)

Mine(w) == {k \in store : k.id = job[w].id /\ k.conn = active}
InUse(d) == \E k \in store : k.conn = active /\ k.dir = d

\* A change whose screen, or whose row, is gone is followed by no load.
Answers(w, a, s) ==
  /\ job' = [job EXCEPT ![w].answer = a, ![w].pc =
                IF @ = "sent" /\ job[w].op \in {"copy", "edit"} THEN "checked" ELSE "answered"]
  /\ store' = s
  /\ stale' = (stale \/ (s # store /\ ~job[w].live))
  /\ UNCHANGED <<active, reread, ui>>

Fails(w) ==
  /\ Active(w) /\ job[w].pc \in {"sent", "update", "copy"}
  /\ Answers(w, {None}, store)
  /\ UNCHANGED used

ListKeys(w) ==
  /\ job[w].op = "load" /\ job[w].pc = "sent" /\ active # None
  /\ Answers(w, KeysOf(active), store)
  /\ UNCHANGED used

CreateKey(w, i) ==
  /\ job[w].op = "create" /\ job[w].pc = "sent"
  /\ active # None /\ ~InUse(job[w].dir)
  /\ i \in Ids \ used
  /\ used' = used \cup {i}
  /\ Answers(w, {}, store \cup {[id |-> i, conn |-> active, dir |-> job[w].dir]})

DeleteKey(w) ==
  /\ job[w].op = "delete" /\ job[w].pc = "sent" /\ Mine(w) # {}
  /\ Answers(w, {}, store \ Mine(w))
  /\ UNCHANGED used

\* ssh_key_files_exist, which copy and edit ask first: the answer is empty if
\* the files are there, which somebody may have removed.
FilesExist(w) ==
  /\ job[w].op \in {"copy", "edit"} /\ job[w].pc = "sent" /\ Mine(w) # {}
  /\ \E missing \in {{}, {job[w].id}} : Answers(w, missing, store)
  /\ UNCHANGED used

CopyKey(w) ==
  /\ job[w].pc = "copy" /\ Mine(w) # {}
  /\ Answers(w, {}, store)
  /\ UNCHANGED used

UpdateKey(w) ==
  /\ job[w].pc = "update"
  /\ \E k \in Mine(w) :
       /\ k.dir = job[w].dir \/ ~InUse(job[w].dir)
       /\ Answers(w, {}, (store \ {k}) \cup {[k EXCEPT !.dir = job[w].dir]})
  /\ UNCHANGED used
-----------------------------------------------------------------------------
(* The answers.                                                            *)

Answered(w, op) == job[w].op = op /\ job[w].pc = "answered"
Failed(w) == job[w].answer = {None}

Drops(w) == Shows(w, Idle, ui) /\ UNCHANGED <<backend, reread, stale>>

LoadAnswered(w) ==
  /\ Answered(w, "load")
  /\ IF ~job[w].here THEN Drops(w) ELSE
       /\ Shows(w, Idle, [ui EXCEPT !.loading = FALSE,
                                    !.keys = IF Failed(w) THEN @ ELSE job[w].answer])
       /\ stale' = (stale \/ Failed(w) \/ OtherLoad(w))
       /\ UNCHANGED <<backend, reread>>

CreateAnswered(w) ==
  /\ Answered(w, "create")
  /\ IF ~job[w].here THEN Drops(w)
     ELSE IF Failed(w) THEN Shows(w, Idle, [ui EXCEPT !.creating = FALSE])
                            /\ UNCHANGED <<backend, reread, stale>>
     ELSE /\ Refresh(w, [ui EXCEPT !.creating = FALSE, !.createOpen = FALSE])
          /\ UNCHANGED <<backend, reread>>

DeleteAnswered(w) ==
  /\ Answered(w, "delete")
  /\ IF ~job[w].here \/ Failed(w) THEN Drops(w)
     ELSE Refresh(w, ui) /\ UNCHANGED <<backend, reread>>

\* The row is no longer busy, unless it is no longer there.
Released(w, u) ==
  LET i == job[w].id IN
  IF ~job[w].live THEN u ELSE [u EXCEPT !.row[i].busy = FALSE]

Saved(w, u, dialog) ==
  LET i == job[w].id IN
  IF ~job[w].live THEN u ELSE [u EXCEPT !.row[i].saving = FALSE, !.row[i].dialog = dialog]

Checked(w, op) == job[w].op = op /\ job[w].pc = "checked"

\* Mutant of CopyChecked: an error leaves the button busy.
CopyCheckedBusy(w) ==
  /\ Checked(w, "copy")
  /\ IF Failed(w) THEN Shows(w, Idle, ui)
     ELSE IF job[w].answer = {} THEN Shows(w, [job[w] EXCEPT !.pc = "copy"], ui)
     ELSE Shows(w, Idle, IF job[w].here THEN [Released(w, ui) EXCEPT !.missing = job[w].id] ELSE ui)
  /\ UNCHANGED <<backend, reread, stale>>

CopyChecked(w) ==
  /\ Checked(w, "copy")
  /\ IF Failed(w) THEN Shows(w, Idle, Released(w, ui))
     ELSE IF job[w].answer = {} THEN Shows(w, [job[w] EXCEPT !.pc = "copy"], ui)
     ELSE Shows(w, Idle, IF job[w].here THEN [Released(w, ui) EXCEPT !.missing = job[w].id] ELSE ui)
  /\ UNCHANGED <<backend, reread, stale>>

CopyAnswered(w) ==
  /\ Answered(w, "copy")
  /\ LET i == job[w].id
         u == Released(w, ui) IN
       Shows(w, Idle, IF Failed(w) \/ ~job[w].live THEN u
                      ELSE [u EXCEPT !.row[i].icon = "copied", !.row[i].timers = @ + 1])
  /\ UNCHANGED <<backend, reread, stale>>

EditChecked(w) ==
  /\ Checked(w, "edit")
  /\ IF Failed(w) THEN Shows(w, Idle, Saved(w, ui, "edit"))
     ELSE IF job[w].answer = {} THEN Shows(w, [job[w] EXCEPT !.pc = "update"], ui)
     ELSE Shows(w, Idle, IF job[w].live THEN [Saved(w, ui, "none") EXCEPT !.missing = job[w].id] ELSE ui)
  /\ UNCHANGED <<backend, reread, stale>>

\* on_done lives as long as the row.
EditAnswered(w) ==
  /\ Answered(w, "edit")
  /\ IF Failed(w) \/ ~job[w].live
       THEN Shows(w, Idle, Saved(w, ui, "edit")) /\ UNCHANGED stale
       ELSE Refresh(w, Saved(w, ui, "none"))
  /\ UNCHANGED <<backend, reread>>
-----------------------------------------------------------------------------
KeysNext ==
  \/ LeaveScreen \/ ReadActive
  \/ \E c \in Conns \cup {None} : Switch(c)
  \/ ClickCreate \/ CancelCreate \/ CancelMissing
  \/ \E i \in Ids :
       \/ ClickEdit(i) \/ ClickDelete(i) \/ CancelDialog(i) \/ TimerFires(i)
  \/ \E w \in Workers :
       \/ OpenScreen(w) \/ Reread(w)
       \/ \E d \in Dirs : SubmitCreate(w, d)
       \/ \E i \in Ids :
            \/ ClickCopy(w, i) \/ ConfirmDelete(w, i) \/ CreateKey(w, i)
            \/ \E d \in Dirs : SubmitEdit(w, i, d)
       \/ ConfirmMissing(w)
       \/ Fails(w) \/ ListKeys(w) \/ DeleteKey(w) \/ FilesExist(w) \/ CopyKey(w) \/ UpdateKey(w)
       \/ LoadAnswered(w) \/ CreateAnswered(w) \/ DeleteAnswered(w)
       \/ CopyChecked(w) \/ CopyAnswered(w) \/ EditChecked(w) \/ EditAnswered(w)

KeysSpec == Init /\ [][KeysNext]_vars
-----------------------------------------------------------------------------
(* The inductive invariant.                                                *)
Entries == [id : Ids, dir : Dirs]

Screens ==
  [mounted : BOOLEAN, connected : Conns \cup {None}, keys : SUBSET Entries, loading : BOOLEAN,
   createOpen : BOOLEAN, creating : BOOLEAN, missing : Ids \cup {0},
   row : [Ids -> Rows \cup {None}]]

Stored ==
  /\ active \in Conns \cup {None} /\ stale \in BOOLEAN
  /\ store \subseteq [id : Ids, conn : Conns, dir : Dirs]
  /\ \A k \in store : k.id \in used /\ \A l \in store : l.id = k.id => l = k
  /\ reread \in [pc : {"none", "sent", "read"}, value : Conns \cup {None}]
  /\ reread = NoRead => ui.connected = active
  /\ reread.pc = "read" => reread.value = active

(* The rows are those of the list, unless there is none to show.           *)
Hidden(u, i) ==
  ~u.mounted \/ u.connected = None \/ u.loading \/ \A k \in u.keys : k.id # i

Drawn ==
  /\ ui \in Screens /\ (ui.createOpen => ui.mounted)
  /\ \A i \in Ids : IF Hidden(ui, i) THEN ui.row[i] = None
                    ELSE ui.row[i] # None /\ (ui.row[i].icon = "copied" => ui.row[i].timers > 0)

(* What a call can reach.                                                  *)
Reaches(j) ==
  /\ j = [op |-> j.op, id |-> j.id, dir |-> j.dir, pc |-> j.pc, answer |-> j.answer,
          live |-> j.live, here |-> j.here]
  /\ j.live \in BOOLEAN /\ j.here \in BOOLEAN /\ (j.live => j.here)
  /\ j.op = "idle" => ~j.here
  /\ j.pc = "update" => j.op = "edit"
  /\ j.op \in {"create", "edit"} => j.dir \in Dirs
  /\ IF j.op \in {"copy", "edit"} THEN j.id \in Ids
     ELSE j.live = j.here /\ j.pc \in {"sent", "answered"}
  /\ j.op = "load" /\ j.pc = "answered" /\ j.answer # {None} => j.answer \subseteq Entries

Reached ==
  /\ job = [w \in Workers |-> job[w]]
  /\ \A w \in Workers :
       /\ Reaches(job[w]) /\ (job[w].here => ui.mounted)
       /\ job[w].live /\ job[w].op \in {"copy", "edit"} => ui.row[job[w].id] # None

(* What is disabled has a call that gives it back.                         *)
Running(j, op) == j.op = op /\ j.here
OnRowOf(j, op, i) == j.op = op /\ j.live /\ j.id = i

Waiting ==
  /\ ui.loading => \E w \in Workers : Running(job[w], "load")
  /\ ui.creating => \E w \in Workers : Running(job[w], "create")
  /\ \A i \in Ids : ui.row[i] # None =>
       /\ ui.row[i].busy => \E w \in Workers : OnRowOf(job[w], "copy", i)
       /\ ui.row[i].saving => \E w \in Workers : OnRowOf(job[w], "edit", i)

(* A change that the answer of j will have loaded.                         *)
Pending(j) ==
  j.op \in {"create", "delete", "edit"} /\ j.live /\ j.pc = "answered" /\ j.answer # {None}

UpToDate ==
  \/ \E w \in Workers : Pending(job[w])
  \/ \E w \in Workers : Running(job[w], "load") /\ (job[w].pc = "sent" \/ job[w].answer \in {KeysOf(active), {None}})
  \/ /\ \A w \in Workers : ~Running(job[w], "load")
     /\ ui.keys = KeysOf(active)
     /\ \A i \in Ids : ui.row[i] # None => [id |-> i, dir |-> ui.row[i].dir] \in ui.keys

OneLoad ==
  \A v, w \in Workers : Running(job[v], "load") /\ Running(job[w], "load") => v = w

Settled ==
  ~stale =>
    /\ OneLoad
    /\ ui.mounted /\ ui.connected # None =>
         /\ (\E w \in Workers : Running(job[w], "load")) => ui.loading
         /\ reread = NoRead => UpToDate

Resting == Stored /\ Drawn /\ Reached /\ Waiting /\ Settled
-----------------------------------------------------------------------------
Quiet == reread = NoRead /\ \A w \in Workers : ~Active(w)

OnScreen == {i \in Ids : ui.row[i] # None}

(* With nothing in flight, the rows show the keys of the connection.       *)
RowsSettle ==
  ui.mounted /\ Quiet /\ ~stale =>
    {[id |-> i, dir |-> ui.row[i].dir] : i \in OnScreen} = KeysOf(ui.connected)

(* With nothing in flight, no control is left disabled.                    *)
ControlsComeBack ==
  ui.mounted /\ (\A w \in Workers : ~Active(w)) =>
    /\ ~ui.loading /\ ~ui.creating
    /\ \A i \in OnScreen :
         /\ ~ui.row[i].busy /\ ~ui.row[i].saving
         /\ ui.row[i].timers = 0 => ui.row[i].icon = "copy"
=============================================================================
