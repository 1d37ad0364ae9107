---------------------------- MODULE SshKeyStore -----------------------------
(***************************************************************************)
(* SshKeyService (deploykeys-core/src/services/ssh_key_service.rs): the    *)
(* ssh_keys rows of one target and the key directories on its disk.  A key *)
(* is created, renamed and deleted in several awaited steps on files and   *)
(* rows, which share no transaction.  The target is this machine or a      *)
(* server, where each step is a shell script run over SSH.                 *)
(***************************************************************************)
EXTENDS Naturals, Sequences, FiniteSets

CONSTANTS
  Dirs,         \* directory names
  Algs,         \* algorithms: the file name of a pair is id_<algorithm>
  Workers,      \* commands that may be in flight
  None,
  Places,       \* whether the target may be a server: a subset of BOOLEAN
  MaxInFlight,  \* bound: how many commands at the same time
  MaxKeys,      \* bound: key pairs ever generated
  Faults        \* bound: the calls that may fail

AllFaults == {"insert", "update", "late", "files", "unheard", "crash", "removed"}

ASSUME SshKeyStoreAssumption ==
  /\ None \notin Dirs \cup Algs
  /\ Places \subseteq BOOLEAN
  /\ MaxInFlight \in Nat /\ MaxKeys \in Nat
  /\ Faults \subseteq AllFaults

VARIABLES
  onServer,  \* the target is a server, not this machine
  target,    \* the target exists in the targets table
  rows,      \* ssh_keys rows of the target
  made,      \* key directories that exist below the base directory
  disk,      \* key pairs on disk
  nextKey,   \* the next pair to be generated
  job,       \* job[w]: the command worker w is executing
  stray,     \* history: pairs that a named event, or the overlap of two commands,
             \* may have parted from their rows
  removed    \* history: pairs whose files the user removed

vars == <<onServer, target, rows, made, disk, nextKey, job, stray, removed>>
files == <<made, disk>>
-----------------------------------------------------------------------------
Keys == 1..MaxKeys

Row == [key : Keys, dir : Dirs, alg : Algs]
Pair == [path : Seq(Dirs), alg : Algs, key : Keys]

PairIn(d, a, k) == [path |-> <<d>>, alg |-> a, key |-> k]

(* pc values: slot  about to look the directory up;  mkdir, gen, insert the *)
(* rest of a creation;  files, dup, look, move, update, back  a rename;     *)
(* remove, rmdir, drop  a deletion.                                         *)
Idle == [pc |-> "idle", op |-> "none", key |-> 0, dir |-> None, alg |-> None, new |-> None]

Active(w) == job[w].pc # "idle"
Room == Cardinality({w \in Workers : Active(w)}) < MaxInFlight
Quiet == \A w \in Workers : ~Active(w)

Becomes(w, j) == job' = [job EXCEPT ![w] = j]
Goto(w, pc) == Becomes(w, [job[w] EXCEPT !.pc = pc])
Ends(w) == Becomes(w, Idle)

Rowed == {r.key : r \in rows}
InDir(d) == {p \in disk : Head(p.path) = d}

(* The directories once d is removed, if what is left on disk leaves d     *)
(* empty.                                                                  *)
Swept(d, left) == IF {p \in left : Head(p.path) = d} = {} THEN made \ {d} ELSE made

(* ensure_key_files_exist and read paths look for a pair at its path.      *)
Found(d, a) == \E p \in disk : p.path = <<d>> /\ p.alg = a

(* A directory moves with what is in it.                                   *)
Moved(p, to) == [p EXCEPT !.path = to \o Tail(p.path)]
MovedTo(old, to) == {IF Head(p.path) = old THEN Moved(p, to) ELSE p : p \in disk}
-----------------------------------------------------------------------------
Init ==
  /\ onServer \in Places
  /\ target = TRUE /\ rows = {} /\ made = {} /\ disk = {} /\ nextKey = 1
  /\ job = [w \in Workers |-> Idle]
  /\ stray = {} /\ removed = {}

(* Commands that overlap may part files and rows: their pairs are marked.   *)
Crowd(key) == stray' = stray \cup (IF Quiet THEN {} ELSE
  {key} \cup {job[w].key : w \in {v \in Workers : Active(v)}})

(* create_key_for_target.                                                  *)
StartCreate(w) ==
  /\ ~Active(w) /\ Room /\ target
  /\ nextKey <= MaxKeys
  /\ \E d \in Dirs, a \in Algs :
       Becomes(w, [Idle EXCEPT !.pc = "slot", !.op = "create", !.key = nextKey,
                               !.dir = d, !.alg = a])
  /\ nextKey' = nextKey + 1
  /\ Crowd(nextKey)
  /\ UNCHANGED <<onServer, target, rows, files, removed>>

(* An error before any effect: a query that fails, a directory that has a  *)
(* row, key files that are missing.                                        *)
GiveUp(w) ==
  /\ job[w].pc \in {"slot", "mkdir", "files", "dup", "look", "move", "remove"}
  /\ Ends(w)
  /\ UNCHANGED <<onServer, target, rows, files, nextKey, stray, removed>>

CheckSlot(w) ==
  /\ job[w].pc = "slot"
  /\ \A r \in rows : r.dir # job[w].dir
  /\ Goto(w, "mkdir")
  /\ UNCHANGED <<onServer, target, rows, files, nextKey, stray, removed>>

(* create_dir is exclusive.                                                *)
MakeDir(w) ==
  /\ ~onServer /\ job[w].pc = "mkdir"
  /\ job[w].dir \notin made
  /\ made' = made \cup {job[w].dir}
  /\ Goto(w, "gen")
  /\ UNCHANGED <<onServer, target, rows, disk, nextKey, stray, removed>>

(* Mutant of Generate: overwrites a file in its way.                       *)
GenerateOver(w) ==
  /\ job[w].pc = "gen"
  /\ job[w].dir \in made
  /\ disk' = disk \cup {PairIn(job[w].dir, job[w].alg, job[w].key)}
  /\ Goto(w, "insert")
  /\ UNCHANGED <<onServer, target, rows, made, nextKey, stray, removed>>

(* LocalKeyGenerator::generate.                                            *)
Generate(w) ==
  /\ job[w].pc = "gen"
  /\ job[w].dir \in made /\ ~Found(job[w].dir, job[w].alg)
  /\ disk' = disk \cup {PairIn(job[w].dir, job[w].alg, job[w].key)}
  /\ Goto(w, "insert")
  /\ UNCHANGED <<onServer, target, rows, made, nextKey, stray, removed>>

(* remove_dir removes an empty directory only.  If set_permissions is what *)
(* failed, the directory stays.                                            *)
GenerateFails(w) ==
  /\ job[w].pc = "gen"
  /\ made' \in {made, Swept(job[w].dir, disk)}
  /\ Ends(w)
  /\ UNCHANGED <<onServer, target, rows, disk, nextKey, stray, removed>>

(* RSA: the files are written, and reading them back fails.                *)
GenerateFailsLate(w) ==
  /\ "late" \in Faults
  /\ job[w].pc = "gen"
  /\ job[w].dir \in made /\ ~Found(job[w].dir, job[w].alg)
  /\ disk' = disk \cup {PairIn(job[w].dir, job[w].alg, job[w].key)}
  /\ stray' = stray \cup {job[w].key}
  /\ Ends(w)
  /\ UNCHANGED <<onServer, target, rows, made, nextKey, removed>>

(* On a server one script makes the directory and the pair, or cleans up.  *)
CreateScript(w) ==
  /\ onServer /\ job[w].pc = "mkdir"
  /\ job[w].dir \notin made
  /\ made' = made \cup {job[w].dir}
  /\ disk' = disk \cup {PairIn(job[w].dir, job[w].alg, job[w].key)}
  /\ \/ Goto(w, "insert") /\ UNCHANGED stray
     \/ "unheard" \in Faults /\ Ends(w) /\ stray' = stray \cup {job[w].key}
  /\ UNCHANGED <<onServer, target, rows, nextKey, removed>>

(* idx_ssh_keys_target_directory is unique; target_id is a foreign key.    *)
Insert(w) ==
  /\ job[w].pc = "insert"
  /\ target /\ \A r \in rows : r.dir # job[w].dir
  /\ rows' = rows \cup {[key |-> job[w].key, dir |-> job[w].dir, alg |-> job[w].alg]}
  /\ Ends(w)
  /\ UNCHANGED <<onServer, target, files, nextKey, stray, removed>>

(* The row is refused: the files stay, and so does the directory.          *)
InsertFails(w) ==
  /\ job[w].pc = "insert"
  /\ "insert" \in Faults \/ ~target \/ \E r \in rows : r.dir = job[w].dir
  /\ stray' = stray \cup {job[w].key}
  /\ Ends(w)
  /\ UNCHANGED <<onServer, target, rows, files, nextKey, removed>>
-----------------------------------------------------------------------------
(* update_key reads the row; the directory may stay the same.              *)
StartUpdate(w) ==
  /\ ~Active(w) /\ Room
  /\ \E r \in rows, d \in Dirs :
       /\ Becomes(w, [pc |-> "files", op |-> "update", key |-> r.key, dir |-> r.dir,
                      alg |-> r.alg, new |-> d])
       /\ Crowd(r.key)
  /\ UNCHANGED <<onServer, target, rows, files, nextKey, removed>>

CheckFiles(w) ==
  /\ job[w].pc = "files"
  /\ Found(job[w].dir, job[w].alg)
  /\ Goto(w, IF job[w].new = job[w].dir THEN "update" ELSE "dup")
  /\ UNCHANGED <<onServer, target, rows, files, nextKey, stray, removed>>

CheckDuplicate(w) ==
  /\ job[w].pc = "dup"
  /\ \A r \in rows : r.dir # job[w].new
  /\ Goto(w, IF onServer THEN "move" ELSE "look")
  /\ UNCHANGED <<onServer, target, rows, files, nextKey, stray, removed>>

LookForDir(w) ==
  /\ job[w].pc = "look"
  /\ job[w].new \notin made
  /\ Goto(w, "move")
  /\ UNCHANGED <<onServer, target, rows, files, nextKey, stray, removed>>

(* rename(2) replaces an empty directory and refuses another one.  mv puts *)
(* the directory inside the one in its way, unless that holds one of the   *)
(* name already; the "test ! -e" before it does not stop the script.       *)
CanMove(old, new) ==
  /\ old \in made
  /\ IF onServer THEN \A p \in InDir(new) : Len(p.path) > 1 => p.path[2] # old
                 ELSE InDir(new) = {}

Place(old, new) == IF onServer /\ new \in made THEN <<new, old>> ELSE <<new>>

Move(old, new) ==
  /\ CanMove(old, new)
  /\ made' = (made \ {old}) \cup {new}
  /\ disk' = MovedTo(old, Place(old, new))

MoveDir(w) ==
  /\ job[w].pc = "move"
  /\ Move(job[w].dir, job[w].new)
  /\ \/ Goto(w, "update") /\ UNCHANGED stray
     \/ onServer /\ "unheard" \in Faults /\ Ends(w) /\ stray' = stray \cup {job[w].key}
  /\ UNCHANGED <<onServer, target, rows, nextKey, removed>>

WithDir(k, d) == {IF r.key = k THEN [r EXCEPT !.dir = d] ELSE r : r \in rows}

(* UPDATE ssh_keys ... WHERE id: no row, no change.                        *)
UpdateRow(w) ==
  /\ job[w].pc = "update"
  /\ \A r \in rows : r.dir = job[w].new => r.key = job[w].key
  /\ rows' = WithDir(job[w].key, job[w].new)
  /\ Ends(w)
  /\ UNCHANGED <<onServer, target, files, nextKey, stray, removed>>

UpdateFails(w) ==
  /\ job[w].pc = "update"
  /\ "update" \in Faults \/ \E r \in rows : r.dir = job[w].new /\ r.key # job[w].key
  /\ IF job[w].new = job[w].dir THEN Ends(w) ELSE Goto(w, "back")
  /\ UNCHANGED <<onServer, target, rows, files, nextKey, stray, removed>>

(* Mutant of MoveBack: the rename is not undone.                           *)
StayMoved(w) ==
  /\ job[w].pc = "back"
  /\ Ends(w)
  /\ UNCHANGED <<onServer, target, rows, files, nextKey, stray, removed>>

(* "Roll back the on-disk rename so the DB and filesystem stay in sync."   *)
MoveBack(w) ==
  /\ job[w].pc = "back"
  /\ Move(job[w].new, job[w].dir)
  /\ Ends(w)
  /\ UNCHANGED <<onServer, target, rows, nextKey, stray, removed>>

(* The result of the way back is ignored.                                  *)
MoveBackFails(w) ==
  /\ job[w].pc = "back"
  /\ "files" \in Faults \/ ~CanMove(job[w].new, job[w].dir)
  /\ stray' = stray \cup {job[w].key}
  /\ Ends(w)
  /\ UNCHANGED <<onServer, target, rows, files, nextKey, removed>>
-----------------------------------------------------------------------------
(* delete_key reads the row.                                               *)
StartDelete(w) ==
  /\ ~Active(w) /\ Room
  /\ \E r \in rows :
       /\ Becomes(w, [Idle EXCEPT !.pc = "remove", !.op = "delete", !.key = r.key,
                                  !.dir = r.dir, !.alg = r.alg])
       /\ Crowd(r.key)
  /\ UNCHANGED <<onServer, target, rows, files, nextKey, removed>>

At(d, a) == {p \in disk : p.path = <<d>> /\ p.alg = a}

(* Mutant of RemoveFiles: leaves the private key.                          *)
RemovePublicOnly(w) ==
  /\ job[w].pc = "remove"
  /\ Goto(w, IF onServer THEN "drop" ELSE "rmdir")
  /\ UNCHANGED <<onServer, target, rows, files, nextKey, stray, removed>>

(* The two files, by the paths that were read.  On a server the script     *)
(* removes the directory as well, if it is empty.                          *)
RemoveFiles(w) ==
  /\ job[w].pc = "remove"
  /\ disk' = disk \ At(job[w].dir, job[w].alg)
  /\ IF onServer
       THEN made' = Swept(job[w].dir, disk') /\ Goto(w, "drop")
       ELSE Goto(w, "rmdir") /\ UNCHANGED made
  /\ UNCHANGED <<onServer, target, rows, nextKey, stray, removed>>

(* Errors are ignored.                                                     *)
RemoveFilesFails(w) ==
  /\ "files" \in Faults
  /\ job[w].pc = "remove"
  /\ Goto(w, IF onServer THEN "drop" ELSE "rmdir")
  /\ stray' = stray \cup {job[w].key}
  /\ UNCHANGED <<onServer, target, rows, files, nextKey, removed>>

RemoveDir(w) ==
  /\ job[w].pc = "rmdir"
  /\ made' = Swept(job[w].dir, disk)
  /\ Goto(w, "drop")
  /\ UNCHANGED <<onServer, target, rows, disk, nextKey, stray, removed>>

DropRow(w) ==
  /\ job[w].pc = "drop"
  /\ rows' = {r \in rows : r.key # job[w].key}
  /\ Ends(w)
  /\ UNCHANGED <<onServer, target, files, nextKey, stray, removed>>

(* The row stays behind without its files.                                 *)
DropFails(w) ==
  /\ "update" \in Faults
  /\ job[w].pc = "drop"
  /\ stray' = stray \cup {job[w].key}
  /\ Ends(w)
  /\ UNCHANGED <<onServer, target, rows, files, nextKey, removed>>
-----------------------------------------------------------------------------
(* delete_connection cascades to the rows; the directories stay.           *)
DeleteConnection ==
  /\ onServer /\ target
  /\ target' = FALSE /\ rows' = {}
  /\ stray' = stray \cup Rowed
  /\ UNCHANGED <<onServer, files, nextKey, job, removed>>

(* The same server under a new target id: calls for the old one are over.  *)
Reconnect ==
  /\ ~target /\ Quiet
  /\ target' = TRUE
  /\ UNCHANGED <<onServer, rows, files, nextKey, job, stray, removed>>

UserRemoves(d) ==
  /\ "removed" \in Faults
  /\ d \in made
  /\ made' = made \ {d} /\ disk' = disk \ InDir(d)
  /\ removed' = removed \cup {p.key : p \in InDir(d)}
  /\ UNCHANGED <<onServer, target, rows, nextKey, job, stray>>

Crash ==
  /\ "crash" \in Faults
  /\ ~Quiet
  /\ stray' = stray \cup {job[w].key : w \in {v \in Workers :
                job[v].pc \in {"insert", "update", "back", "rmdir", "drop"}}}
  /\ job' = [w \in Workers |-> Idle]
  /\ UNCHANGED <<onServer, target, rows, files, nextKey, removed>>
-----------------------------------------------------------------------------
Create(w) ==
  \/ StartCreate(w) \/ CheckSlot(w) \/ MakeDir(w) \/ CreateScript(w)
  \/ Generate(w) \/ GenerateFails(w) \/ GenerateFailsLate(w)
  \/ Insert(w) \/ InsertFails(w)

Update(w) ==
  \/ StartUpdate(w) \/ CheckFiles(w) \/ CheckDuplicate(w) \/ LookForDir(w) \/ MoveDir(w)
  \/ UpdateRow(w) \/ UpdateFails(w) \/ MoveBack(w) \/ MoveBackFails(w)

Delete(w) ==
  \/ StartDelete(w) \/ RemoveFiles(w) \/ RemoveFilesFails(w) \/ RemoveDir(w)
  \/ DropRow(w) \/ DropFails(w)

Next ==
  \/ \E w \in Workers : Create(w) \/ Update(w) \/ Delete(w) \/ GiveUp(w)
  \/ \E d \in Dirs : UserRemoves(d)
  \/ DeleteConnection \/ Reconnect \/ Crash

Spec == Init /\ [][Next]_vars
-----------------------------------------------------------------------------
Jobs ==
  [pc : {"slot", "mkdir", "gen", "insert"}, op : {"create"}, key : Keys,
   dir : Dirs, alg : Algs, new : {None}]
    \cup [pc : {"files", "dup", "look", "move", "update", "back"}, op : {"update"},
          key : Keys, dir : Dirs, alg : Algs, new : Dirs]
    \cup [pc : {"remove", "rmdir", "drop"}, op : {"delete"}, key : Keys,
          dir : Dirs, alg : Algs, new : {None}]

TypeOK ==
  /\ onServer \in Places
  /\ target \in BOOLEAN /\ (~target => rows = {})
  /\ rows \subseteq Row
  /\ made \subseteq Dirs
  /\ \A p \in disk : p \in Pair /\ p.path # <<>> /\ Head(p.path) \in made
  /\ nextKey \in 1..(MaxKeys + 1)
  /\ job \in [Workers -> Jobs \cup {Idle}]
  /\ stray \subseteq Keys /\ removed \subseteq Keys

(* With no command in flight, the files of a row are where it says they    *)
(* are, unless a named event (a failed rollback, a crash, two commands at  *)
(* once ...) parted them.                                                  *)
RowHasItsFiles ==
  Quiet => \A r \in rows :
    r.key \in stray \cup removed \/ PairIn(r.dir, r.alg, r.key) \in disk

(* The same of the keys of this machine, where nothing is nested.          *)
RowHasItsFilesHere == ~onServer => RowHasItsFiles

(* Every key pair on disk has a row or belongs to a command about to write *)
(* it, or a named event left it behind, or a rename on a server put its    *)
(* directory inside another.                                               *)
FilesAccountedFor ==
  \A p \in disk :
    \/ p.key \in Rowed \/ p.key \in stray \/ Len(p.path) > 1
    \/ \E w \in Workers : job[w].pc = "insert" /\ job[w].key = p.key

(* A file holds one key.                                                   *)
OnePairPerPath ==
  \A p, q \in disk : p.path = q.path /\ p.alg = q.alg => p = q
=============================================================================
