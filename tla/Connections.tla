---------------------------- MODULE Connections -----------------------------
(***************************************************************************)
(* The connections: this machine and the servers (the targets table), the  *)
(* SSH passwords in the credential store, the active connection (a         *)
(* setting), and the Connect screen, which shows and changes them through  *)
(* calls that go one await at a time and may overlap.  Aliases are left    *)
(* out: that one is taken is a refusal that may come at any time.          *)
(***************************************************************************)
EXTENDS Naturals, FiniteSets

CONSTANTS
  Hosts,       \* what a server's connection may be edited to
  Workers,     \* calls that may be in flight at the same time
  None,
  Offline,     \* the setting when every connection is offline: ""
  Unset,       \* the setting never written
  MaxTargets,  \* bound: servers added
  MaxRefs,     \* bound: passwords stored
  Faults       \* bound: what may fail

ASSUME ConnectionsAssumption ==
  /\ None \notin Hosts
  /\ {Offline, Unset} \cap 0..MaxTargets = {} /\ Offline # Unset
  /\ MaxTargets \in Nat /\ MaxRefs \in Nat
  /\ Faults \subseteq {"network", "store", "delete", "rows", "alias", "crash"}

VARIABLES
  targets,    \* targets[i]: the row of a server
  local,      \* whether the row of this machine exists
  lastId,     \* the last id AUTOINCREMENT gave
  passwords,  \* references under which a password is stored
  lastRef,    \* references drawn so far
  active,     \* the setting active_connection
  job,        \* job[w]: the call in flight on w
  section,    \* whether the Connect screen is open
  listed,     \* the servers the window knows
  connected,  \* connected_id
  toRead,     \* whether the setting is still to be read for a change of section
  upset       \* history: calls that overlapped or outlived their row, a fault, and
              \* "loose", two calls about one row or a call left half done

rows == <<targets, local, lastId>>
secrets == <<passwords, lastRef>>
window == <<section, listed, connected, toRead>>
vars == <<rows, secrets, active, job, window, upset>>
-----------------------------------------------------------------------------
Ids == 1..MaxTargets
Refs == 1..MaxRefs

\* ref: the password's reference, 0 for a private key; status: the host whose
\* check said Active, None for Unknown.
Target == [host : Hosts, ref : {0} \cup Refs, status : Hosts \cup {None}]

ASSUME NoTarget == None \notin Target

Rows == {i \in Ids : targets[i] # None}

\* Connections: a row's id stands for "target:<id>", 0 for "local".
This == 0

Idle == [op |-> "idle", pc |-> "idle", id |-> 0, host |-> None, ref |-> 0, prev |-> 0,
         secret |-> "no", seen |-> {}, live |-> FALSE]

Active(w) == job[w].op # "idle"
Quiet == ~toRead /\ \A w \in Workers : ~Active(w)

Becomes(w, j) == job' = [job EXCEPT ![w] = j]
Goto(w, pc) == Becomes(w, [job[w] EXCEPT !.pc = pc])
At(w, op, pc) == job[w].op = op /\ job[w].pc = pc
Ends(w) == Becomes(w, Idle)

\* A fault happens at most once, and none once things are loose.
Fault(f) == f \in Faults /\ upset \cap {"fault", "loose"} = {}
Marked(marks) == LET all == upset \cup marks
                 IN  upset' = IF "loose" \in all THEN {"loose"} ELSE all
Faulty == Marked({"fault"})
Halfway == Marked({"loose"})

Call(op, pc) == [Idle EXCEPT !.op = op, !.pc = pc, !.live = TRUE]
Overlap(w) == IF \E v \in Workers \ {w} : Active(v) THEN {"overlap"} ELSE {}

\* A call that checks or changes a row while another one is at it.
RowOps == {"connect", "delete", "edit"}
Doubled(w, j) ==
  IF j.op \in RowOps /\ \E v \in Workers \ {w} : job[v].op \in RowOps /\ job[v].id = j.id
    THEN {"loose"} ELSE {}
Begin(w, j) == /\ ~Active(w)
               /\ Becomes(w, j)
               /\ Marked(Overlap(w) \cup Doubled(w, j))

\* The flags of what is on screen: a row's busy, the list's loading, a dialog's
\* submitting (which covers the screen) and testing.  They are signals of the
\* row or the screen, and go with it.
Live(w, ops) == job[w].op \in ops /\ job[w].live
Busy(i) == \E w \in Workers : Live(w, {"connect", "disconnect", "delete"}) /\ job[w].id = i
Loading == \E w \in Workers : Live(w, {"refresh"})
Submitting == \E w \in Workers : Live(w, {"create", "edit"})
Testing == \E w \in Workers : Live(w, {"test"})
-----------------------------------------------------------------------------
Init ==
  /\ targets = [i \in Ids |-> None]
  /\ local = FALSE
  /\ lastId = 0
  /\ passwords = {} /\ lastRef = 0
  /\ active = Unset
  /\ \E w \in Workers : job = [v \in Workers |-> IF v = w THEN Call("boot", "list") ELSE Idle]
  /\ section = "other"
  /\ listed = {}
  /\ connected = This
  /\ toRead = FALSE
  /\ upset = {}
-----------------------------------------------------------------------------
(* The screen.                                                             *)

\* The calls w go on without the row or the screen that made them.
Lose(lost) ==
  job' = [w \in Workers |-> [job[w] EXCEPT !.live = IF w \in lost THEN FALSE ELSE @]]
Screen == {"connect", "disconnect", "delete", "edit", "create"}

\* The search box, a filter or a page takes the row of a connection away and
\* brings it back idle; a status filter does it when a call is answered, also
\* below a dialog.  Here it may happen at any time.
Recreate(i) ==
  /\ section = "connect"
  /\ LET lost == {w \in Workers : Live(w, Screen \ {"create"}) /\ job[w].id = i}
     IN  lost # {} /\ Lose(lost)
  /\ Marked({"overlap"})
  /\ UNCHANGED <<rows, secrets, active, window>>

\* Every change of section reads the setting, in a call that starts when it can.
\* Row signals die with the screen; the calls and the connection state do not.
LeaveConnect ==
  /\ section = "connect"
  /\ section' = "other"
  /\ toRead' = TRUE
  /\ Lose(Workers)
  /\ Marked(IF \E w \in Workers : Live(w, Screen) THEN {"overlap"} ELSE {})
  /\ UNCHANGED <<rows, secrets, active, listed, connected>>

\* Mounting refreshes the list.
OpenConnect(w) ==
  /\ section = "other"
  /\ section' = "connect"
  /\ toRead' = TRUE
  /\ Begin(w, Call("refresh", "list"))
  /\ UNCHANGED <<rows, secrets, active, listed, connected>>

StartRead(w) ==
  /\ toRead /\ toRead' = FALSE
  /\ ~Active(w)
  /\ Becomes(w, Call("active", "read"))
  /\ Marked(IF \E v \in Workers : Live(v, {"connect", "disconnect"}) THEN {"overlap"} ELSE {})
  /\ UNCHANGED <<rows, secrets, active, section, listed, connected>>

Clickable == section = "connect" /\ ~Submitting

ClickToggle(w, i) ==
  /\ Clickable /\ ~Busy(i)
  /\ i \in listed \cup {This}
  /\ Begin(w, IF connected = i THEN [Call("disconnect", "set") EXCEPT !.id = i]
                               ELSE [Call("connect", "resolve") EXCEPT !.id = i])
  /\ UNCHANGED <<rows, secrets, active, window>>

ClickDelete(w, i) ==
  /\ Clickable /\ ~Busy(i)
  /\ i \in listed /\ connected # i
  /\ Begin(w, [Call("delete", "active") EXCEPT !.id = i])
  /\ UNCHANGED <<rows, secrets, active, window>>

\* secret: a new password, a private key, or (editing) the saved one.  Calls
\* start only within the bounds, so that the bounds stop none that started.
Room == lastId + Cardinality({w \in Workers : job[w].op = "create"}) < MaxTargets
Secrets == IF lastRef + Cardinality({w \in Workers : job[w].secret = "password" /\ job[w].ref = 0})
                < MaxRefs THEN {"password", "key"} ELSE {"key"}

ClickCreate(w) ==
  /\ Clickable /\ Room
  /\ \E h \in Hosts, s \in Secrets :
       Begin(w, [Call("create", "alias") EXCEPT !.host = h, !.secret = s])
  /\ UNCHANGED <<rows, secrets, active, window>>

ClickEdit(w, i) ==
  /\ Clickable /\ ~Busy(i)
  /\ i \in listed
  /\ \E h \in Hosts, s \in Secrets \cup {"no"} :
       Begin(w, [Call("edit", "find") EXCEPT !.id = i, !.host = h, !.secret = s])
  /\ UNCHANGED <<rows, secrets, active, window>>

ClickTest(w) ==
  /\ Clickable /\ ~Testing
  /\ "password" \in Secrets
  /\ Begin(w, [Call("test", "store") EXCEPT !.secret = "password"])
  /\ UNCHANGED <<rows, secrets, active, window>>
-----------------------------------------------------------------------------
(* list_connections and get_active_connection.                             *)
ReadList(w) ==
  /\ job[w].pc = "list"
  /\ Becomes(w, [job[w] EXCEPT !.pc = IF local THEN "seen" ELSE "local", !.seen = Rows])
  /\ UNCHANGED <<rows, secrets, active, window, upset>>

AfterList(w) == IF job[w].op = "boot" THEN Becomes(w, Call("active", "read")) ELSE Ends(w)

\* list_targets creates the row of this machine when its list has none.
CreateLocal(w) ==
  /\ job[w].pc = "local"
  /\ ~local
  /\ local' = TRUE
  /\ Goto(w, "seen")
  /\ UNCHANGED <<targets, lastId, secrets, active, window, upset>>

\* Another list created it (its alias is unique), or the database fails.
ListFails(w) ==
  /\ \/ job[w].pc = "local" /\ local /\ UNCHANGED upset
     \/ job[w].pc = "list" /\ Fault("rows") /\ Halfway
  /\ AfterList(w)
  /\ UNCHANGED <<rows, secrets, active, window>>

\* set_connections: a connection that is gone is no longer connected.
SetConnections(w) ==
  /\ job[w].pc = "seen"
  /\ listed' = job[w].seen
  /\ connected' = IF connected \in job[w].seen \cup {This} THEN connected ELSE Offline
  /\ AfterList(w)
  /\ UNCHANGED <<rows, secrets, active, section, toRead, upset>>

ReadActive(w) ==
  /\ At(w, "active", "read")
  /\ IF active = Unset THEN Ends(w)
                       ELSE Becomes(w, [job[w] EXCEPT !.pc = "apply", !.id = active])
  /\ UNCHANGED <<rows, secrets, active, window, upset>>

Apply(w) ==
  /\ At(w, "active", "apply")
  /\ connected' = job[w].id
  /\ Ends(w)
  /\ UNCHANGED <<rows, secrets, active, section, listed, toRead, upset>>
-----------------------------------------------------------------------------
(* set_active_connection.                                                  *)
Resolve(w) ==
  /\ At(w, "connect", "resolve")
  /\ IF job[w].id = This
       THEN /\ local' = TRUE
            /\ Goto(w, "set")
       ELSE /\ IF job[w].id \in Rows THEN Goto(w, "find") ELSE Ends(w)
            /\ UNCHANGED local
  /\ UNCHANGED <<targets, lastId, secrets, active, window, upset>>

\* check_target finds the row again and runs a command on its host.
FindTarget(w) ==
  /\ At(w, "connect", "find")
  /\ IF job[w].id \in Rows
       THEN Becomes(w, [job[w] EXCEPT !.pc = "check", !.host = targets[job[w].id].host])
       ELSE Ends(w)
  /\ UNCHANGED <<rows, secrets, active, window, upset>>

Checked(w) ==
  /\ At(w, "connect", "check")
  /\ \/ Goto(w, "status") /\ UNCHANGED upset
     \/ Fault("network") /\ Ends(w) /\ Faulty
  /\ UNCHANGED <<rows, secrets, active, window>>

\* UPDATE of status; of a row deleted since it changes nothing.
SaveStatus(w) ==
  /\ At(w, "connect", "status")
  /\ targets' = [targets EXCEPT ![job[w].id] =
                   IF @ = None THEN None ELSE [@ EXCEPT !.status = job[w].host]]
  /\ Goto(w, "set")
  /\ UNCHANGED <<local, lastId, secrets, active, window, upset>>

SetActive(w) ==
  /\ job[w].op \in {"connect", "disconnect"} /\ job[w].pc = "set"
  /\ \/ /\ active' = IF job[w].op = "connect" THEN job[w].id ELSE Offline
        /\ Goto(w, "answer")
        /\ UNCHANGED upset
     \/ Fault("rows") /\ Ends(w) /\ Faulty /\ UNCHANGED active
  /\ UNCHANGED <<rows, secrets, window>>

Toggled(w) ==
  /\ job[w].op \in {"connect", "disconnect"} /\ job[w].pc = "answer"
  /\ connected' = IF job[w].op = "connect" THEN job[w].id
                  ELSE IF connected = job[w].id THEN Offline ELSE connected
  /\ Ends(w)
  /\ UNCHANGED <<rows, secrets, active, section, listed, toRead, upset>>
-----------------------------------------------------------------------------
(* create_remote_target, update_remote_target, delete_remote_target.       *)

\* The validation, and the alias that may be taken.
CheckAlias(w) ==
  /\ At(w, "create", "alias")
  /\ \/ Goto(w, IF job[w].secret = "password" THEN "store" ELSE "insert") /\ UNCHANGED upset
     \/ Fault("alias") /\ Ends(w) /\ Faulty
  /\ UNCHANGED <<rows, secrets, active, window>>

\* Under a random reference.
StorePassword(w) ==
  /\ job[w].pc = "store"
  /\ \/ /\ lastRef < MaxRefs /\ lastRef' = lastRef + 1
        /\ passwords' = passwords \cup {lastRef'}
        /\ Becomes(w, [job[w] EXCEPT !.ref = lastRef',
             !.pc = CASE job[w].op = "create" -> "insert"
                      [] job[w].op = "edit" -> "update"
                      [] job[w].op = "test" -> "check"])
        /\ UNCHANGED upset
     \/ Fault("store") /\ Ends(w) /\ Faulty /\ UNCHANGED secrets
  /\ UNCHANGED <<rows, active, window>>

\* Mutant of Refresh: the list is left as it is.
RefreshNever(w) == Ends(w)

\* A call that succeeded refreshes the list, unless a refresh is under way or
\* the screen is gone.
Refresh(w) == IF job[w].live /\ ~Loading THEN Becomes(w, Call("refresh", "list")) ELSE Ends(w)

\* Mutant of InsertTarget: a refused row leaves its password.
InsertTargetLeaves(w) ==
  /\ At(w, "create", "insert")
  /\ \/ /\ lastId < MaxTargets /\ lastId' = lastId + 1
        /\ targets' = [targets EXCEPT ![lastId'] =
                         [host |-> job[w].host, ref |-> job[w].ref, status |-> None]]
        /\ Refresh(w)
        /\ UNCHANGED <<passwords, upset>>
     \/ Fault("alias") /\ Ends(w) /\ Faulty /\ UNCHANGED <<targets, lastId, passwords>>
  /\ UNCHANGED <<local, lastRef, active, window>>

\* The new password is deleted when the row is refused.
InsertTarget(w) ==
  /\ At(w, "create", "insert")
  /\ \/ /\ lastId < MaxTargets /\ lastId' = lastId + 1
        /\ targets' = [targets EXCEPT ![lastId'] =
                         [host |-> job[w].host, ref |-> job[w].ref, status |-> None]]
        /\ Refresh(w)
        /\ UNCHANGED <<passwords, upset>>
     \/ /\ Fault("alias") /\ Faulty
        /\ passwords' = passwords \ {job[w].ref}
        /\ Ends(w)
        /\ UNCHANGED <<targets, lastId>>
  /\ UNCHANGED <<local, lastRef, active, window>>

\* A kept secret needs a saved one of the same method.
FindEdited(w) ==
  /\ At(w, "edit", "find")
  /\ IF job[w].id \notin Rows THEN Ends(w)
     ELSE LET ref == targets[job[w].id].ref
          IN  Becomes(w, [job[w] EXCEPT !.prev = ref,
                !.ref = IF job[w].secret = "no" THEN ref ELSE 0,
                !.pc = IF job[w].secret = "password" THEN "store" ELSE "update"])
  /\ UNCHANGED <<rows, secrets, active, window, upset>>

\* Mutant of UpdateTarget: the row keeps its status.
UpdateTargetChecked(w) ==
  /\ At(w, "edit", "update")
  /\ \/ /\ targets' = [targets EXCEPT ![job[w].id] =
             IF @ = None THEN None ELSE [@ EXCEPT !.host = job[w].host, !.ref = job[w].ref]]
        /\ IF job[w].prev \notin {0, job[w].ref} THEN Goto(w, "drop") ELSE Refresh(w)
        /\ UNCHANGED <<passwords, upset>>
     \/ /\ Fault("alias") /\ Faulty
        /\ passwords' = IF job[w].ref # job[w].prev THEN passwords \ {job[w].ref} ELSE passwords
        /\ Ends(w)
        /\ UNCHANGED targets
  /\ UNCHANGED <<local, lastId, lastRef, active, window>>

\* UPDATE, which resets the status; refused, the new password is deleted.
UpdateTarget(w) ==
  /\ At(w, "edit", "update")
  /\ \/ /\ targets' = [targets EXCEPT ![job[w].id] =
             IF @ = None THEN None
             ELSE [host |-> job[w].host, ref |-> job[w].ref, status |-> None]]
        /\ IF job[w].prev \notin {0, job[w].ref} THEN Goto(w, "drop") ELSE Refresh(w)
        /\ UNCHANGED <<passwords, upset>>
     \/ /\ Fault("alias") /\ Faulty
        /\ passwords' = IF job[w].ref # job[w].prev THEN passwords \ {job[w].ref} ELSE passwords
        /\ Ends(w)
        /\ UNCHANGED targets
  /\ UNCHANGED <<local, lastId, lastRef, active, window>>

\* The password the row no longer refers to: best effort.
DropPrevious(w) ==
  /\ job[w].op \in {"edit", "delete"} /\ job[w].pc = "drop"
  /\ \/ passwords' = passwords \ {job[w].prev} /\ UNCHANGED upset
     \/ Fault("delete") /\ Halfway /\ UNCHANGED passwords
  /\ Refresh(w)
  /\ UNCHANGED <<rows, lastRef, active, window>>

\* Mutant of CheckActive: left to the disabled button.
CheckActiveInWindow(w) ==
  /\ At(w, "delete", "active")
  /\ Goto(w, "find")
  /\ UNCHANGED <<rows, secrets, active, window, upset>>

\* delete_connection: not the active one.
CheckActive(w) ==
  /\ At(w, "delete", "active")
  /\ IF active = job[w].id THEN Ends(w) ELSE Goto(w, "find")
  /\ UNCHANGED <<rows, secrets, active, window, upset>>

FindDeleted(w) ==
  /\ At(w, "delete", "find")
  /\ IF job[w].id \notin Rows THEN Ends(w)
     ELSE Becomes(w, [job[w] EXCEPT !.pc = "row", !.prev = targets[job[w].id].ref])
  /\ UNCHANGED <<rows, secrets, active, window, upset>>

DeleteRow(w) ==
  /\ At(w, "delete", "row")
  /\ \/ /\ targets' = [targets EXCEPT ![job[w].id] = None]
        /\ IF job[w].prev # 0 THEN Goto(w, "drop") ELSE Refresh(w)
        /\ UNCHANGED upset
     \/ Fault("rows") /\ Ends(w) /\ Faulty /\ UNCHANGED targets
  /\ UNCHANGED <<local, lastId, secrets, active, window>>

\* test_remote_target_config: the temporary password goes, whatever the check
\* says.
TestDone(w) ==
  /\ At(w, "test", "check")
  /\ passwords' = passwords \ {job[w].ref}
  /\ Ends(w)
  /\ UNCHANGED <<rows, lastRef, active, window, upset>>
-----------------------------------------------------------------------------
\* The application ends at any step and starts again.
Restart ==
  /\ Fault("crash")
  /\ \E w \in Workers : job' = [v \in Workers |-> IF v = w THEN Call("boot", "list") ELSE Idle]
  /\ section' = "other"
  /\ listed' = {}
  /\ connected' = This
  /\ toRead' = FALSE
  /\ IF Quiet THEN Faulty ELSE Halfway
  /\ UNCHANGED <<rows, secrets, active>>

Click(w) ==
  \/ OpenConnect(w) \/ StartRead(w) \/ ClickCreate(w) \/ ClickTest(w)
  \/ \E i \in listed \cup {This} : ClickToggle(w, i)
  \/ \E i \in listed : ClickDelete(w, i) \/ ClickEdit(w, i)

Step(w) ==
  \/ ReadList(w) \/ CreateLocal(w) \/ ListFails(w) \/ SetConnections(w)
  \/ ReadActive(w) \/ Apply(w)
  \/ Resolve(w) \/ FindTarget(w) \/ Checked(w) \/ SaveStatus(w) \/ SetActive(w) \/ Toggled(w)
  \/ CheckAlias(w) \/ StorePassword(w) \/ InsertTarget(w)
  \/ FindEdited(w) \/ UpdateTarget(w) \/ DropPrevious(w)
  \/ CheckActive(w) \/ FindDeleted(w) \/ DeleteRow(w) \/ TestDone(w)

Next ==
  \/ Restart \/ LeaveConnect \/ \E i \in Ids \cup {This} : Recreate(i)
  \/ \E w \in Workers : Click(w) \/ Step(w)

Spec == Init /\ [][Next]_vars
-----------------------------------------------------------------------------
(* Properties.                                                             *)

\* Rows, references and jobs keep their shapes.
TypeOK ==
  /\ targets \in [Ids -> Target \cup {None}]
  /\ local \in BOOLEAN
  /\ lastId \in 0..MaxTargets /\ lastRef \in 0..MaxRefs
  /\ passwords \subseteq Refs
  /\ active \in Ids \cup {This, Offline, Unset}
  /\ \A w \in Workers : job[w].id \in Ids \cup {0, This, Offline} /\ job[w].seen \subseteq Ids
  /\ section \in {"connect", "other"}
  /\ listed \subseteq Ids
  /\ connected \in Ids \cup {This, Offline} /\ toRead \in BOOLEAN
  /\ upset \subseteq {"overlap", "fault", "loose"}

Steady == Quiet /\ "loose" \notin upset

\* The active connection exists, whatever the calls, the rows and the screens
\* do: the command checks and deletes in two steps, the connect looks the server
\* up and makes it active in others.  Two calls at one row are excepted.
ActiveExists == Steady => active \in Rows \cup {This, Offline, Unset}

\* The credential store holds the passwords of the connections and no others,
\* whichever calls overlapped, unless at one row, and whichever one was refused.
PasswordsOfTheRows == Steady => passwords = {targets[i].ref : i \in Rows} \ {0}

\* A connection marked Active was checked at the host it has now, unless two
\* calls were at its row.
StatusOfThisHost == Steady => \A i \in Rows : targets[i].status \in {None, targets[i].host}

\* Calls made one after the other leave the window showing the setting as the
\* connected connection, and the rows as the list.
WindowSettles ==
  Quiet /\ upset \subseteq {"fault"} =>
    /\ connected = IF active = Unset THEN This ELSE active
    /\ section = "connect" => listed = Rows
=============================================================================
