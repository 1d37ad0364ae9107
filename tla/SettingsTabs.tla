---------------------------- MODULE SettingsTabs ----------------------------
(***************************************************************************)
(* The settings page (app.rs) and the commands behind its two tabs (lib.rs)*)
(* : the directory of the keys, and the editor of ~/.ssh/config.  A tab    *)
(* loads when it is built and the page is open, and then never again by    *)
(* itself; the file it shows is that of the active connection, which other *)
(* parts of the window change, and which the application itself writes to. *)
(***************************************************************************)
EXTENDS Naturals, Sequences, FiniteSets

CONSTANTS
  Conns, Local,   \* the connections, and the one that is this machine
  Blocks,         \* what a configuration file may hold
  Places,         \* directories below the home directory
  Workers,        \* calls that may be in flight at the same time
  None

SettingsAssumption ==
  /\ Local \in Conns /\ Places # {}
  /\ None \notin Places /\ None \notin [text : SUBSET Blocks]

VARIABLES
  active,    \* the active connection
  file,      \* file[c]: what ~/.ssh/config holds there
  temp,      \* the temporary file of a save on this machine
  dir,       \* key_base_dir of the local target
  made,      \* the directory that was created last
  page,      \* the settings page: open, and its tab
  tab,       \* the signals of the tab that is drawn
  job,       \* job[w]: the call in flight on w
  dirty,     \* history: something was typed or picked since the last answer
  foreign    \* history: something else has happened to what the tab shows

window == <<page, tab>>
vars == <<active, file, temp, dir, made, page, tab, job, dirty, foreign>>
-----------------------------------------------------------------------------
(* Paths, by where they begin and what follows.                            *)

Path(from, rest) == [from |-> from, rest |-> rest]

\* Bound: a path of each kind; the one below ~ is there from the start.
Typed == [from : {"/home", "/", ""}, rest : Places]

\* expand_home_path
Expand(p) == IF p.from = "~" THEN Path("/home", p.rest) ELSE p

IsAbsolute(p) == p.from # ""

\* home_relative_path
HomeRelative(p) == IF Expand(p).from = "/home" THEN Path("~", p.rest) ELSE p

Initially == Path("~", CHOOSE d \in Places : TRUE)
-----------------------------------------------------------------------------
NoTab == [loaded |-> FALSE, loading |-> FALSE, saving |-> FALSE, shown |-> None, saved |-> None]

Idle == [op |-> "idle", tab |-> None, text |-> None, pc |-> "sent", conn |-> None, here |-> FALSE]
Call(op, t, text) == [Idle EXCEPT !.op = op, !.tab = t, !.text = text, !.here = TRUE]

Active(w) == job[w].op # "idle"
Quiet == \A w \in Workers : ~Active(w)
Becomes(w, j) == job' = [job EXCEPT ![w] = j]
Sends(w, j) == ~Active(w) /\ Becomes(w, j)
Answers(w, text) == Becomes(w, [job[w] EXCEPT !.pc = "answered", !.text = text])
Fails(w) == Becomes(w, [job[w] EXCEPT !.pc = "failed"])

Init ==
  /\ active = Local /\ file = [c \in Conns |-> {}]
  /\ temp = None /\ dir = Initially /\ made = Expand(Initially)
  /\ page = [open |-> FALSE, tab |-> "general"] /\ tab = NoTab
  /\ job = [w \in Workers |-> Idle]
  /\ dirty = FALSE /\ foreign = FALSE

\* load_storage_dir, load_config
Loads(w, t) ==
  /\ Sends(w, Call("load", t, None))
  /\ foreign' = ~Quiet /\ dirty' = FALSE

\* The effect of a tab on the page being open.
Shown(w, p, u) ==
  IF p.open /\ p.tab # "general" /\ ~u.loaded
    THEN tab' = [u EXCEPT !.loaded = TRUE, !.loading = TRUE] /\ Loads(w, p.tab)
    ELSE tab' = u /\ UNCHANGED <<job, dirty, foreign>>
-----------------------------------------------------------------------------
(* The page.                                                               *)

OpenSettings(w) ==
  /\ ~page.open /\ page' = [page EXCEPT !.open = TRUE]
  /\ Shown(w, page', tab)
  /\ UNCHANGED <<active, file, temp, dir, made>>

CloseSettings ==
  /\ page.open /\ page' = [page EXCEPT !.open = FALSE]
  /\ UNCHANGED <<active, file, temp, dir, made, tab, job, dirty, foreign>>

\* SettingsTabButton: draws the tab anew, also the one that is there.
ClickTab(w, t) ==
  /\ page.open /\ page' = [page EXCEPT !.tab = t]
  /\ ~Active(w) /\ tab' = IF t = "general" THEN NoTab ELSE [NoTab EXCEPT !.loaded = TRUE, !.loading = TRUE]
  /\ job' = [v \in Workers |->
               IF v = w /\ t # "general" THEN Call("load", t, None) ELSE [job[v] EXCEPT !.here = FALSE]]
  /\ foreign' = ~Quiet /\ dirty' = FALSE
  /\ UNCHANGED <<active, file, temp, dir, made>>

On(t) == page.open /\ page.tab = t

\* reload_config
Reload(w) ==
  /\ On("config") /\ ~tab.loading
  /\ tab' = [tab EXCEPT !.loading = TRUE] /\ Loads(w, "config")
  /\ UNCHANGED <<active, file, temp, dir, made, page>>

\* The input of a tab; the texts of the two are of different kinds.
Type(t, text) ==
  /\ On(t)
  /\ tab' = [tab EXCEPT !.shown = text] /\ dirty' = TRUE
  /\ UNCHANGED <<active, file, temp, dir, made, page, job, foreign>>

\* choose_directory
ChooseDirectory(w) ==
  /\ On("storage") /\ ~tab.saving
  /\ Sends(w, Call("pick", "storage", None))
  /\ foreign' = (foreign \/ ~Quiet)
  /\ UNCHANGED <<active, file, temp, dir, made, window, dirty>>

\* save_directory, save_config
ClickSave(w) ==
  /\ page.open /\ page.tab # "general" /\ ~tab.saving
  /\ tab' = [tab EXCEPT !.saving = TRUE]
  /\ Sends(w, Call("save", page.tab, tab.shown))
  /\ foreign' = (foreign \/ ~Quiet) /\ dirty' = FALSE
  /\ UNCHANGED <<active, file, temp, dir, made, page>>
-----------------------------------------------------------------------------
(* The commands.                                                           *)

Reads(w, op, t) == job[w].op = op /\ job[w].tab = t /\ job[w].pc = "sent"

\* get_ssh_config_file
ReadConfig(w) ==
  /\ Reads(w, "load", "config")
  /\ Answers(w, file[active])
  /\ UNCHANGED <<active, file, temp, dir, made, window, dirty, foreign>>

\* get_ssh_key_storage_dir
ReadDir(w) ==
  /\ Reads(w, "load", "storage")
  /\ dir' = HomeRelative(dir) /\ Answers(w, dir')
  /\ UNCHANGED <<active, file, temp, made, window, dirty, foreign>>

\* A host that cannot be reached, a picker that is cancelled.
CallFails(w) ==
  /\ Active(w) /\ job[w].pc = "sent"
  /\ Fails(w) /\ foreign' = (foreign \/ job[w].op # "pick")
  /\ UNCHANGED <<active, file, temp, dir, made, window, dirty>>

\* The text of an editor that has loaded nothing is empty.
Text(t) == IF t = None THEN {} ELSE t

\* save_ssh_config_file: active_target, and the write on a server.
SaveRemoteConfig(w) ==
  /\ Reads(w, "save", "config") /\ active # Local
  /\ file' = [file EXCEPT ![active] = Text(job[w].text)]
  /\ Answers(w, Text(job[w].text))
  /\ UNCHANGED <<active, temp, dir, made, window, dirty, foreign>>

\* save_local_ssh_config_file writes one temporary file,
WriteTemp(w) ==
  /\ Reads(w, "save", "config") /\ active = Local
  /\ temp' = [text |-> Text(job[w].text)]
  /\ Becomes(w, [job[w] EXCEPT !.pc = "rename"])
  /\ UNCHANGED <<active, file, dir, made, window, dirty, foreign>>

\* and renames it, if another save has not done so.
RenameTemp(w) ==
  /\ Active(w) /\ job[w].pc = "rename"
  /\ IF temp = None THEN Fails(w) /\ UNCHANGED file
     ELSE file' = [file EXCEPT ![Local] = temp.text] /\ Answers(w, Text(job[w].text))
  /\ temp' = None
  /\ UNCHANGED <<active, dir, made, window, dirty, foreign>>

\* set_ssh_key_storage_dir
SaveDir(w) ==
  /\ Reads(w, "save", "storage")
  /\ IF job[w].text # None /\ IsAbsolute(Expand(job[w].text))
       THEN /\ dir' = HomeRelative(Expand(job[w].text))
            /\ made' = Expand(job[w].text)
            /\ Answers(w, dir') /\ UNCHANGED foreign
       ELSE Fails(w) /\ foreign' = TRUE /\ UNCHANGED <<dir, made>>
  /\ UNCHANGED <<active, file, temp, window, dirty>>

\* pick_ssh_key_storage_dir
PickDir(w, p) ==
  /\ Reads(w, "pick", "storage")
  /\ p.from \in {"/home", "/"} /\ Answers(w, p)
  /\ UNCHANGED <<active, file, temp, dir, made, window, dirty, foreign>>
-----------------------------------------------------------------------------
(* The answers, which a tab that is gone does not see.                     *)

Answered(w, op) == job[w].op = op /\ job[w].pc \in {"answered", "failed"} /\ Becomes(w, Idle)

\* Mutant of LoadAnswered: what the file held is noted, and not shown.
LoadAnsweredUnseen(w) ==
  /\ Answered(w, "load")
  /\ tab' = IF ~job[w].here THEN tab
            ELSE IF job[w].pc = "failed" THEN [tab EXCEPT !.loading = FALSE]
            ELSE [tab EXCEPT !.loading = FALSE, !.saved = job[w].text]
  /\ dirty' = (dirty /\ ~(job[w].here /\ job[w].pc = "answered"))
  /\ UNCHANGED <<active, file, temp, dir, made, page, foreign>>

LoadAnswered(w) ==
  /\ Answered(w, "load")
  /\ tab' = IF ~job[w].here THEN tab
            ELSE IF job[w].pc = "failed" THEN [tab EXCEPT !.loading = FALSE]
            ELSE [tab EXCEPT !.loading = FALSE, !.shown = job[w].text, !.saved = job[w].text]
  /\ dirty' = (dirty /\ ~(job[w].here /\ job[w].pc = "answered"))
  /\ UNCHANGED <<active, file, temp, dir, made, page, foreign>>

PickAnswered(w) ==
  /\ Answered(w, "pick")
  /\ tab' = IF job[w].here /\ job[w].pc = "answered" THEN [tab EXCEPT !.shown = job[w].text] ELSE tab
  /\ dirty' = (dirty \/ tab' # tab)
  /\ UNCHANGED <<active, file, temp, dir, made, page, foreign>>

SaveAnswered(w) ==
  /\ Answered(w, "save")
  /\ tab' = IF ~job[w].here THEN tab
            ELSE IF job[w].pc = "failed" THEN [tab EXCEPT !.saving = FALSE]
            ELSE [tab EXCEPT !.saving = FALSE, !.shown = job[w].text, !.saved = job[w].text]
  /\ dirty' = (dirty /\ ~(job[w].here /\ job[w].pc = "answered"))
  /\ UNCHANGED <<active, file, temp, dir, made, page, foreign>>
-----------------------------------------------------------------------------
(* Others.                                                                 *)

\* Binding a key and cloning write a block of their own.
BlockWritten(b) ==
  /\ b \notin file[active]
  /\ file' = [file EXCEPT ![active] = @ \cup {b}] /\ foreign' = TRUE
  /\ UNCHANGED <<active, temp, dir, made, window, job, dirty>>

Connect(c) ==
  /\ ~page.open /\ c # active
  /\ active' = c /\ foreign' = TRUE
  /\ UNCHANGED <<file, temp, dir, made, window, job, dirty>>
-----------------------------------------------------------------------------
SettingsNext ==
  \/ CloseSettings
  \/ \E t \in SUBSET Blocks : Type("config", t)
  \/ \E p \in Typed : Type("storage", p)
  \/ \E b \in Blocks : BlockWritten(b)
  \/ \E c \in Conns : Connect(c)
  \/ \E w \in Workers :
       \/ OpenSettings(w) \/ Reload(w) \/ ChooseDirectory(w) \/ ClickSave(w)
       \/ \E t \in {"general", "storage", "config"} : ClickTab(w, t)
       \/ ReadConfig(w) \/ ReadDir(w) \/ CallFails(w)
       \/ SaveRemoteConfig(w) \/ WriteTemp(w) \/ RenameTemp(w) \/ SaveDir(w)
       \/ \E p \in Typed : PickDir(w, p)
       \/ LoadAnswered(w) \/ PickAnswered(w) \/ SaveAnswered(w)

SettingsSpec == Init /\ [][SettingsNext]_vars
-----------------------------------------------------------------------------
(* The inductive invariant.                                                *)
Paths == [from : {"~", "/home", "/", ""}, rest : Places]

\* What a tab shows, and its calls carry.
Texts(t) == {None} \cup IF t = "config" THEN SUBSET Blocks ELSE Paths

Calls(t) ==
  [op : {"idle", "load", "pick", "save"}, tab : {t}, text : Texts(t),
   pc : {"sent", "rename", "answered", "failed"}, conn : {None}, here : BOOLEAN]

Shapes ==
  /\ active \in Conns /\ file \in [Conns -> SUBSET Blocks]
  /\ temp \in {None} \cup [text : SUBSET Blocks]
  /\ dir \in Paths /\ made \in Paths
  /\ page \in [open : BOOLEAN, tab : {"general", "storage", "config"}]
  /\ tab \in [loaded : BOOLEAN, loading : BOOLEAN, saving : BOOLEAN,
              shown : Texts(page.tab), saved : Texts(page.tab)]
  /\ job = [w \in Workers |-> job[w]] /\ \A w \in Workers : job[w] \in Calls(job[w].tab)
  /\ dirty \in BOOLEAN /\ foreign \in BOOLEAN

(* The calls are of a tab, and those that the tab waits for are its own.   *)
TabsCalls ==
  \A w \in Workers :
    /\ IF Active(w) THEN job[w].tab \in {"storage", "config"} ELSE ~job[w].here
    /\ job[w].here => job[w].tab = page.tab
    /\ job[w].op = "pick" => job[w].tab = "storage"
    /\ job[w].pc = "rename" => job[w].op = "save" /\ job[w].tab = "config"

Awaited(op, w) == job[w].op = op /\ job[w].here

(* It waits for one load and one save at a time, and as long as it says.   *)
Waiting ==
  /\ IF page.tab = "general" THEN ~tab.loading /\ ~tab.saving ELSE tab.loaded
  /\ tab.loading <=> \E w \in Workers : Awaited("load", w)
  /\ tab.saving <=> \E w \in Workers : Awaited("save", w)
  /\ \A op \in {"load", "save"}, v, w \in Workers : Awaited(op, v) /\ Awaited(op, w) => v = w

Current == IF page.tab = "config" THEN file[active] ELSE dir

(* Unless something else happens, one call at a time brings what is saved. *)
Undisturbed ==
  ~foreign =>
    /\ \A v, w \in Workers : Active(v) /\ Active(w) => v = w
    /\ \A w \in Workers : Active(w) =>
         /\ job[w].here
         /\ job[w].pc = "failed" => job[w].op = "pick"
         /\ job[w].pc = "answered" /\ job[w].op # "pick" => job[w].text = Current
         /\ job[w].pc = "rename" => active = Local /\ temp = [text |-> Text(job[w].text)]
    /\ page.tab # "general" /\ ~dirty /\ (\A w \in Workers : job[w].op \in {"idle", "pick"}) =>
         tab.shown = Current

Settling == Shapes /\ TabsCalls /\ Waiting /\ Undisturbed /\ dir = HomeRelative(dir) /\ Expand(dir) = made
-----------------------------------------------------------------------------
(* A tab whose calls are answered shows what is saved, unless the user has *)
(* typed since, or a call failed or met another, or something else changed *)
(* the file or the connection after it was loaded.                         *)
TabSettles ==
  Quiet /\ page.tab # "general" /\ tab.loaded =>
    /\ ~tab.loading /\ ~tab.saving
    /\ ~dirty /\ ~foreign =>
         tab.shown = IF page.tab = "config" THEN file[active] ELSE dir

(* The directory is stored in its short form, which names the directory    *)
(* that was created, however it was typed.                                 *)
DirKeepsItsPlace ==
  /\ dir = HomeRelative(dir)
  /\ Expand(dir) = made
=============================================================================
