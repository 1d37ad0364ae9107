----------------------------- MODULE KeyBinding -----------------------------
(***************************************************************************)
(* KeyBindingService (deploykeys-core/src/services/key_binding_service.rs) *)
(* with the tables it writes, the key pairs on disk and GitHub's deploy    *)
(* keys.  Three side effects -- the key pair, the deploy key on GitHub and *)
(* the key_bindings row -- cannot share a transaction, so every call is a  *)
(* sequence of awaited steps with hand-written rollback.  One action is    *)
(* one awaited call; calls of several workers (concurrent IPC commands)    *)
(* interleave, any call can fail, and the application can crash.           *)
(***************************************************************************)
EXTENDS Naturals, FiniteSets

CONSTANTS
  Repos,          \* repositories rows (row ids are never reused)
  Targets,        \* targets rows
  SshKeys,        \* ssh_keys rows; a row also names its key pair on disk
  Paths,          \* key_path arguments of create_and_upload_key
  KeyTarget,      \* the target an ssh_keys row belongs to
  Workers,        \* calls that may be in flight at the same time
  None,
  Jobs,           \* bound: the calls an instance makes, a subset of AllJobs
  PageSize,       \* deploy keys GitHub lists in one answer (30 by default)
  MaxDeployKeys   \* bound: deploy keys GitHub ever creates

(* "rsa" is create_and_upload_key for an RSA key, which ssh-keygen makes;   *)
(* "generate" is the same call for the algorithms written by the program.  *)
AllJobs == {"bind", "generate", "rsa", "verify"}

ASSUME KeyBindingAssumption ==
  /\ KeyTarget \in [SshKeys -> Targets]
  /\ SshKeys \cap Paths = {}
  /\ None \notin Repos \cup Targets \cup SshKeys \cup Paths
  /\ Jobs \subseteq AllJobs
  /\ PageSize \in Nat
  /\ MaxDeployKeys \in Nat

VARIABLES
  repos, targets, sshKeys,  \* rows present in the three parent tables
  files,                    \* key pairs present on disk
  bindings, nextRow,        \* key_bindings rows and its AUTOINCREMENT counter
  remote, nextKey,          \* deploy keys on GitHub and the next id it assigns
  op,                       \* op[w]: the call worker w is executing
  untracked,                \* history: ids that fell out of the app's books
  raced                     \* history: paths where a pair was begun beside ssh-keygen

vars == <<repos, targets, sshKeys, files, bindings, nextRow, remote, nextKey,
          op, untracked, raced>>
tables == <<repos, targets, sshKeys>>
github == <<remote, nextKey>>
-----------------------------------------------------------------------------
Pairs == SshKeys \cup Paths
Statuses == {"active", "drifted", "orphaned_remote"}

Binding == [id : Nat, repo : Repos, target : Targets, deploy : Nat,
            pair : Pairs, status : Statuses]

DeployKey == [id : Nat, repo : Repos, pair : Pairs]

(* pc values: where a call is between two awaits.                          *)
(*   slot     about to look up the row of (repo, target)                   *)
(*   check    a row exists: about to list the deploy keys on GitHub        *)
(*   pair     about to read (bind) or generate the key pair                *)
(*   keygen   no key file was there: ssh-keygen is about to run            *)
(*   clean    ssh-keygen failed: about to remove what it may have written  *)
(*   post     about to create the deploy key                               *)
(*   save     the deploy key exists, its row does not                      *)
(*   config   the row exists, the SSH config block does not                *)
(*   undoRow, undoKey, undoFiles   rolling back                            *)
(*   vlist, vfile, vsave           the three awaits of verify_key          *)
(*   ok       returned Ok;  idle  returned Err, or nothing started yet     *)
Steps == {"slot", "check", "pair", "keygen", "clean", "post", "save", "config",
          "undoRow", "undoKey", "undoFiles", "vlist", "vfile", "vsave"}

Call(pc, job, r, t, p) ==
  [pc |-> pc, job |-> job, repo |-> r, target |-> t, pair |-> p,
   stale |-> 0, staleKey |-> 0, whole |-> TRUE, deploy |-> 0, row |-> 0, verdict |-> "active"]

Returned(pc) == Call(pc, "bind", None, None, None)

Calls == [pc : Steps, job : AllJobs, repo : Repos, target : Targets, pair : Pairs,
          stale : Nat, staleKey : Nat,   \* the row to replace, 0 for none
          whole : BOOLEAN,               \* the listing had every deploy key
          deploy : Nat, row : Nat,       \* what this call created so far
          verdict : Statuses]

Op == Calls \cup {Returned("idle"), Returned("ok")}

Running(w) == op[w].pc \notin {"idle", "ok"}

(* A call that owns a deploy key GitHub created and no row accounts for.   *)
Holding(w) == op[w].pc \in {"save", "undoRow", "undoKey"}

Generates(w) == op[w].job \in {"generate", "rsa"}

RemoteIds == {k.id : k \in remote}
DeployKeysOf(r) == {k.id : k \in {d \in remote : d.repo = r}}

(* list_deploy_keys is one GET without a page: of a repository with more   *)
(* deploy keys than a page has, GitHub lists some, which ones is its own.  *)
FitsOnePage(r) == Cardinality(DeployKeysOf(r)) <= PageSize
Listings(r) ==
  IF FitsOnePage(r) THEN {DeployKeysOf(r)}
  ELSE {page \in SUBSET DeployKeysOf(r) : Cardinality(page) = PageSize}

SignedIn == repos # {}  \* sign_out is the only deletion of repositories

Becomes(w, call) == op' = [op EXCEPT ![w] = call]
Goto(w, pc) == Becomes(w, [op[w] EXCEPT !.pc = pc])
Return(w, pc) == Becomes(w, Returned(pc))
-----------------------------------------------------------------------------
TypeOK ==
  /\ repos \subseteq Repos
  /\ targets \subseteq Targets
  /\ sshKeys \subseteq SshKeys
  /\ files \subseteq Pairs
  /\ bindings \subseteq Binding
  /\ nextRow \in Nat \ {0}
  /\ remote \subseteq DeployKey
  /\ nextKey \in Nat \ {0}
  /\ op \in [Workers -> Op]
  /\ untracked \subseteq Nat
  /\ raced \subseteq Pairs

Init ==
  /\ repos = Repos /\ targets = Targets /\ sshKeys = SshKeys
  /\ files = SshKeys
  /\ bindings = {} /\ nextRow = 1
  /\ remote = {} /\ nextKey = 1
  /\ op = [w \in Workers |-> Returned("idle")]
  /\ untracked = {} /\ raced = {}
-----------------------------------------------------------------------------
(* upload_existing_key: the repository, ssh key and target rows are read   *)
(* first; a missing one returns NotFound without any effect.               *)
StartBind(w) ==
  /\ "bind" \in Jobs /\ ~Running(w)
  /\ \E r \in repos, k \in sshKeys :
       /\ KeyTarget[k] \in targets
       /\ Becomes(w, Call("slot", "bind", r, KeyTarget[k], k))
  /\ UNCHANGED <<tables, files, bindings, nextRow, github, untracked, raced>>

(* create_and_upload_key: only the account and its token are looked up.    *)
StartGenerate(w) ==
  /\ ~Running(w)
  /\ SignedIn
  /\ \E job \in Jobs \cap {"generate", "rsa"}, r \in Repos, t \in Targets, p \in Paths :
       Becomes(w, Call("slot", job, r, t, p))
  /\ UNCHANGED <<tables, files, bindings, nextRow, github, untracked, raced>>

(* An early return before the first side effect: a failed query, a failed  *)
(* listing, unreadable key files, a key file that already exists.          *)
GiveUp(w) ==
  /\ op[w].pc \in {"slot", "check", "pair", "keygen", "vlist", "vfile", "vsave"}
  /\ Return(w, "idle")
  /\ UNCHANGED <<tables, files, bindings, nextRow, github, untracked, raced>>

(* stale_binding_slot: the row of this repository and target, if any.      *)
ReadSlot(w) ==
  /\ op[w].pc = "slot"
  /\ LET slot == {b \in bindings : b.repo = op[w].repo /\ b.target = op[w].target}
     IN  \/ slot = {} /\ Goto(w, "pair")
         \/ \E b \in slot :
              Becomes(w, [op[w] EXCEPT !.pc = "check",
                                       !.stale = b.id, !.staleKey = b.deploy])
  /\ UNCHANGED <<tables, files, bindings, nextRow, github, untracked, raced>>

(* Mutant of CheckRemote: the listing on GitHub is not consulted.          *)
CheckRemoteSkipped(w) ==
  /\ op[w].pc = "check"
  /\ Goto(w, "pair")
  /\ UNCHANGED <<tables, files, bindings, nextRow, github, untracked, raced>>

(* remote_binding_exists: a row whose deploy key is in the listing makes   *)
(* the call fail with AlreadyExists; otherwise the row will be replaced.   *)
CheckRemote(w) ==
  /\ op[w].pc = "check"
  /\ \E listed \in Listings(op[w].repo) :
       IF op[w].staleKey \in listed
         THEN Return(w, "idle")
         ELSE Becomes(w, [op[w] EXCEPT !.pc = "pair", !.whole = FitsOnePage(op[w].repo)])
  /\ UNCHANGED <<tables, files, bindings, nextRow, github, untracked, raced>>

(* read_target_public_key: both key files must be there.                   *)
ReadPair(w) ==
  /\ op[w].pc = "pair" /\ op[w].job = "bind"
  /\ op[w].pair \in files
  /\ Goto(w, "post")
  /\ UNCHANGED <<tables, files, bindings, nextRow, github, untracked, raced>>

(* Another call's ssh-keygen is still to run, or to be cleaned up after, at *)
(* the path where this call begins to make its pair.                       *)
BesideKeygen(w) ==
  \E v \in Workers \ {w} : op[v].pc \in {"keygen", "clean"} /\ op[v].pair = op[w].pair

BeginPair(w) == raced' = raced \cup (IF BesideKeygen(w) THEN {op[w].pair} ELSE {})

(* LocalKeyGenerator::generate creates both files exclusively.             *)
GeneratePair(w) ==
  /\ op[w].pc = "pair" /\ op[w].job = "generate"
  /\ op[w].pair \notin files
  /\ files' = files \cup {op[w].pair}
  /\ BeginPair(w)
  /\ Goto(w, "post")
  /\ UNCHANGED <<tables, bindings, nextRow, github, untracked>>

(* Mutant of GenerateRefused: an RSA call runs ssh-keygen over the files.  *)
GenerateUnrefused(w) ==
  /\ op[w].pc = "pair" /\ Generates(w)
  /\ op[w].pair \in files
  /\ IF op[w].job = "rsa" THEN Goto(w, "keygen") ELSE Return(w, "idle")
  /\ UNCHANGED <<tables, files, bindings, nextRow, github, untracked, raced>>

(* Generation that finds a file in its way returns at once: the files are  *)
(* not this call's to remove.                                              *)
GenerateRefused(w) ==
  /\ op[w].pc = "pair" /\ Generates(w)
  /\ op[w].pair \in files
  /\ Return(w, "idle")
  /\ UNCHANGED <<tables, files, bindings, nextRow, github, untracked, raced>>

(* An RSA key: that no file is there is seen before ssh-keygen is run.     *)
SeeNoFiles(w) ==
  /\ op[w].pc = "pair" /\ op[w].job = "rsa"
  /\ op[w].pair \notin files
  /\ BeginPair(w)
  /\ Goto(w, "keygen")
  /\ UNCHANGED <<tables, files, bindings, nextRow, github, untracked>>

(* ssh-keygen writes the pair.  It looks for files itself and would ask;   *)
(* written after that look, they are overwritten.                          *)
Keygen(w) ==
  /\ op[w].pc = "keygen"
  /\ files' = files \cup {op[w].pair}
  /\ Goto(w, "post")
  /\ UNCHANGED <<tables, bindings, nextRow, github, untracked, raced>>

(* The pair is there, but reading it back or taking the fingerprint fails, *)
(* and the error returns before any cleanup.                               *)
KeygenUnread(w) ==
  /\ op[w].pc = "keygen"
  /\ files' = files \cup {op[w].pair}
  /\ Return(w, "idle")
  /\ UNCHANGED <<tables, bindings, nextRow, github, untracked, raced>>

(* ssh-keygen ends with an error, a file in its way for one (there is no   *)
(* terminal to ask on), or its .pub file cannot be renamed.                *)
KeygenFailed(w) ==
  /\ op[w].pc = "keygen"
  /\ files' \in {files, files \cup {op[w].pair}}
  /\ Goto(w, "clean")
  /\ UNCHANGED <<tables, bindings, nextRow, github, untracked, raced>>

(* cleanup_key_files removes what is at the path, and ignores errors.      *)
CleanKeygen(w) ==
  /\ op[w].pc = "clean"
  /\ files' \in {files, files \ {op[w].pair}}
  /\ Return(w, "idle")
  /\ UNCHANGED <<tables, bindings, nextRow, github, untracked, raced>>

(* What a call does when creating the deploy key returned an error.        *)
AfterFailedPost(w) ==
  IF Generates(w) THEN Goto(w, "undoFiles") ELSE Return(w, "idle")

(* GitHub accepts an existing key pair once only ("key is already in use").*)
Accepts(w) == op[w].job = "bind" => \A k \in remote : k.pair # op[w].pair

Created(w) == [id |-> nextKey, repo |-> op[w].repo, pair |-> op[w].pair]

PostCreated(w) ==
  /\ op[w].pc = "post"
  /\ nextKey <= MaxDeployKeys
  /\ Accepts(w)
  /\ remote' = remote \cup {Created(w)}
  /\ nextKey' = nextKey + 1
  /\ Becomes(w, [op[w] EXCEPT !.pc = "save", !.deploy = nextKey])
  /\ UNCHANGED <<tables, files, bindings, nextRow, untracked, raced>>

(* The 30 s request timeout, a dropped connection or an unreadable body:   *)
(* GitHub created the key, the call sees an error and never learns its id. *)
PostReplyLost(w) ==
  /\ op[w].pc = "post"
  /\ nextKey <= MaxDeployKeys
  /\ Accepts(w)
  /\ remote' = remote \cup {Created(w)}
  /\ nextKey' = nextKey + 1
  /\ untracked' = untracked \cup {nextKey}
  /\ AfterFailedPost(w)
  /\ UNCHANGED <<tables, files, bindings, nextRow, raced>>

PostRefused(w) ==
  /\ op[w].pc = "post"
  /\ AfterFailedPost(w)
  /\ UNCHANGED <<tables, files, bindings, nextRow, github, untracked, raced>>

NewBinding(w, id) ==
  [id |-> id, repo |-> op[w].repo, target |-> op[w].target,
   deploy |-> op[w].deploy, pair |-> op[w].pair, status |-> "active"]

(* create_and_upload_key is done once the row is saved; upload_existing_key *)
(* still has to write the SSH config.                                       *)
AfterSave(w, id) ==
  IF Generates(w)
    THEN Return(w, "ok")
    ELSE Becomes(w, [op[w] EXCEPT !.pc = "config", !.row = id])

(* UPDATE key_bindings ... WHERE id = stale: succeeds with zero rows when  *)
(* the row is gone.  What the row said before is no longer tracked, nor is *)
(* the new key when no row was updated.                                    *)
SaveReplace(w) ==
  /\ op[w].pc = "save" /\ op[w].stale # 0
  /\ LET old == {b \in bindings : b.id = op[w].stale}
     IN  /\ bindings' = (bindings \ old) \cup {NewBinding(w, b.id) : b \in old}
         /\ untracked' = untracked \cup {b.deploy : b \in old}
                           \cup (IF old = {} THEN {op[w].deploy} ELSE {})
  /\ AfterSave(w, op[w].stale)
  /\ UNCHANGED <<tables, files, nextRow, github, raced>>

(* INSERT: UNIQUE(repo_id, target_id) and both foreign keys must hold.     *)
SaveCreate(w) ==
  /\ op[w].pc = "save" /\ op[w].stale = 0
  /\ op[w].repo \in repos /\ op[w].target \in targets
  /\ \A b \in bindings : ~(b.repo = op[w].repo /\ b.target = op[w].target)
  /\ bindings' = bindings \cup {NewBinding(w, nextRow)}
  /\ nextRow' = nextRow + 1
  /\ AfterSave(w, nextRow)
  /\ UNCHANGED <<tables, files, github, untracked, raced>>

(* Mutant of SaveFailed: returns without deleting the deploy key.          *)
SaveFailedForgets(w) ==
  /\ op[w].pc = "save"
  /\ Return(w, "idle")
  /\ UNCHANGED <<tables, files, bindings, nextRow, github, untracked, raced>>

(* The constraint is violated, or the database fails for its own reasons.  *)
SaveFailed(w) ==
  /\ op[w].pc = "save"
  /\ Goto(w, "undoKey")
  /\ UNCHANGED <<tables, files, bindings, nextRow, github, untracked, raced>>

ConfigWritten(w) ==
  /\ op[w].pc = "config"
  /\ Return(w, "ok")
  /\ UNCHANGED <<tables, files, bindings, nextRow, github, untracked, raced>>

(* Mutant of ConfigFailed: starts over from the save.                      *)
ConfigFailedSavesAgain(w) ==
  /\ op[w].pc = "config"
  /\ Goto(w, "save")
  /\ UNCHANGED <<tables, files, bindings, nextRow, github, untracked, raced>>

ConfigFailed(w) ==
  /\ op[w].pc = "config"
  /\ Goto(w, "undoRow")
  /\ UNCHANGED <<tables, files, bindings, nextRow, github, untracked, raced>>

(* Rollback of the row is DELETE ... WHERE id = row, whoever's key it      *)
(* carries by now.  When it fails the error is logged and rollback goes on.*)
UndoRow(w) ==
  /\ op[w].pc = "undoRow"
  /\ LET gone == {b \in bindings : b.id = op[w].row}
     IN  \/ /\ bindings' = bindings \ gone
            /\ untracked' = untracked \cup ({b.deploy : b \in gone} \ {op[w].deploy})
         \/ UNCHANGED <<bindings, untracked>>
  /\ Goto(w, "undoKey")
  /\ UNCHANGED <<tables, files, nextRow, github, raced>>

AfterUndoKey(w) ==
  IF Generates(w) THEN Goto(w, "undoFiles") ELSE Return(w, "idle")

UndoKey(w) ==
  /\ op[w].pc = "undoKey"
  /\ remote' = {k \in remote : k.id # op[w].deploy}
  /\ AfterUndoKey(w)
  /\ UNCHANGED <<tables, files, bindings, nextRow, nextKey, untracked, raced>>

(* "Rollback failed; deploy key is orphaned": logged, not retried.         *)
UndoKeyFailed(w) ==
  /\ op[w].pc = "undoKey"
  /\ untracked' = untracked \cup {op[w].deploy}
  /\ AfterUndoKey(w)
  /\ UNCHANGED <<tables, files, bindings, nextRow, github, raced>>

(* remove_local_key_files ignores errors.                                  *)
UndoFiles(w) ==
  /\ op[w].pc = "undoFiles"
  /\ files' \in {files, files \ {op[w].pair}}
  /\ Return(w, "idle")
  /\ UNCHANGED <<tables, bindings, nextRow, github, untracked, raced>>
-----------------------------------------------------------------------------
(* verify_key reads the row and its parents, then judges what it read.     *)
StartVerify(w) ==
  /\ "verify" \in Jobs /\ ~Running(w)
  /\ \E b \in bindings :
       Becomes(w, [Call("vlist", "verify", b.repo, b.target, b.pair)
                     EXCEPT !.row = b.id, !.deploy = b.deploy])
  /\ UNCHANGED <<tables, files, bindings, nextRow, github, untracked, raced>>

VerifyList(w) ==
  /\ op[w].pc = "vlist"
  /\ \E listed \in Listings(op[w].repo) :
       Becomes(w, [op[w] EXCEPT !.pc = "vfile",
                     !.verdict = IF op[w].deploy \in listed THEN "active" ELSE "drifted"])
  /\ UNCHANGED <<tables, files, bindings, nextRow, github, untracked, raced>>

(* target_private_key_exists(..).unwrap_or(false): an error means missing. *)
VerifyFile(w) ==
  /\ op[w].pc = "vfile"
  /\ op[w].target \in targets
  /\ \E found \in {op[w].pair \in files, FALSE} :
       Becomes(w, [op[w] EXCEPT !.pc = "vsave",
                     !.verdict = IF @ = "active" /\ ~found
                                   THEN "orphaned_remote" ELSE @])
  /\ UNCHANGED <<tables, files, bindings, nextRow, github, untracked, raced>>

(* Mutant of VerifySave: writes back the whole row as it was read.         *)
VerifySaveWholeRow(w) ==
  /\ op[w].pc = "vsave"
  /\ bindings' = {IF b.id = op[w].row
                    THEN [b EXCEPT !.status = op[w].verdict, !.deploy = op[w].deploy]
                    ELSE b : b \in bindings}
  /\ Return(w, "ok")
  /\ UNCHANGED <<tables, files, nextRow, github, untracked, raced>>

VerifySave(w) ==
  /\ op[w].pc = "vsave"
  /\ bindings' = {IF b.id = op[w].row THEN [b EXCEPT !.status = op[w].verdict]
                                      ELSE b : b \in bindings}
  /\ Return(w, "ok")
  /\ UNCHANGED <<tables, files, nextRow, github, untracked, raced>>
-----------------------------------------------------------------------------
(* sign_out deletes the accounts; the delete cascades to repositories and  *)
(* from there to key_bindings.                                             *)
SignOut ==
  /\ SignedIn
  /\ repos' = {} /\ bindings' = {}
  /\ untracked' = untracked \cup {b.deploy : b \in bindings}
  /\ UNCHANGED <<targets, sshKeys, files, nextRow, github, op, raced>>

(* delete_connection: the delete cascades to ssh_keys and key_bindings.    *)
DeleteTarget(t) ==
  /\ t \in targets
  /\ targets' = targets \ {t}
  /\ sshKeys' = {k \in sshKeys : KeyTarget[k] # t}
  /\ bindings' = {b \in bindings : b.target # t}
  /\ untracked' = untracked \cup {b.deploy : b \in bindings \ bindings'}
  /\ UNCHANGED <<repos, files, nextRow, github, op, raced>>

(* SshKeyService::delete_key removes the files and the row, and leaves the *)
(* bindings made from the key alone (module SshKeyStore has its steps).    *)
DeleteSshKey(k) ==
  /\ k \in sshKeys
  /\ sshKeys' = sshKeys \ {k}
  /\ files' \in {files, files \ {k}}
  /\ UNCHANGED <<repos, targets, bindings, nextRow, github, op, untracked, raced>>

(* Somebody deletes a deploy key on github.com.                            *)
UserDeletesDeployKey(k) ==
  /\ k \in remote
  /\ remote' = remote \ {k}
  /\ UNCHANGED <<tables, files, bindings, nextRow, nextKey, op, untracked, raced>>

(* The process ends between two steps: nothing rolls back.  ssh-keygen, a  *)
(* process of its own, may still write its pair (here: at once).           *)
Crash ==
  /\ \E w \in Workers : Running(w)
  /\ \E late \in SUBSET {op[w].pair : w \in {v \in Workers : op[v].pc = "keygen"}} :
       files' = files \cup late
  /\ op' = [w \in Workers |-> Returned("idle")]
  /\ untracked' = untracked \cup {op[w].deploy : w \in {v \in Workers : Holding(v)}}
  /\ UNCHANGED <<tables, bindings, nextRow, github, raced>>
-----------------------------------------------------------------------------
Advance(w) ==
  \/ GiveUp(w) \/ ReadSlot(w) \/ CheckRemote(w)
  \/ ReadPair(w) \/ GeneratePair(w) \/ GenerateRefused(w)
  \/ SeeNoFiles(w) \/ Keygen(w) \/ KeygenUnread(w) \/ KeygenFailed(w) \/ CleanKeygen(w)
  \/ PostCreated(w) \/ PostReplyLost(w) \/ PostRefused(w)
  \/ SaveReplace(w) \/ SaveCreate(w) \/ SaveFailed(w)
  \/ ConfigWritten(w) \/ ConfigFailed(w)
  \/ UndoRow(w) \/ UndoKey(w) \/ UndoKeyFailed(w) \/ UndoFiles(w)
  \/ VerifyList(w) \/ VerifyFile(w) \/ VerifySave(w)

Start(w) == StartBind(w) \/ StartGenerate(w) \/ StartVerify(w)

Environment ==
  \/ SignOut \/ Crash
  \/ \E t \in Targets : DeleteTarget(t)
  \/ \E k \in SshKeys : DeleteSshKey(k)
  \/ \E k \in remote : UserDeletesDeployKey(k)

Next ==
  \/ \E w \in Workers : Start(w) \/ Advance(w)
  \/ Environment

Spec == Init /\ [][Next]_vars
-----------------------------------------------------------------------------
(* Every deploy key the application created on GitHub is referenced by a   *)
(* row, or owned by a call that will save or delete it, or is one of the   *)
(* keys a named event untracked.  No return path forgets a key.            *)
KeysAccountedFor ==
  \A k \in remote :
    \/ \E b \in bindings : b.deploy = k.id
    \/ \E w \in Workers : Holding(w) /\ op[w].deploy = k.id
    \/ k.id \in untracked

(* A deploy key belongs to at most one row, and a call never holds a key   *)
(* that a row or another call already claims (verify_key only reads).      *)
NoSharedDeployKey ==
  /\ \A b, c \in bindings : b.deploy = c.deploy => b = c
  /\ \A w \in Workers : op[w].pc = "save" =>
       /\ \A b \in bindings : b.deploy # op[w].deploy
       /\ \A v \in Workers : op[v].pc = "save" /\ op[v].deploy = op[w].deploy => v = w

(* A call that is going to overwrite a row, and saw the deploy keys of the *)
(* repository on one page, has seen that the row's deploy key, as it read  *)
(* it, is not on GitHub -- and it stays that way.  Of more than a page     *)
(* nothing of the kind holds.                                              *)
ReplacedKeyIsGone ==
  \A w \in Workers :
    op[w].pc \in {"pair", "keygen", "post", "save"} /\ op[w].stale # 0 /\ op[w].whole =>
      op[w].staleKey \notin RemoteIds

(* What makes the three invariants above inductive: ids handed out by      *)
(* GitHub are fresh, and a row or a call names the repository its deploy   *)
(* key is on.                                                              *)
IdsAreFresh ==
  /\ \A b \in bindings : b.deploy < nextKey
  /\ \A k \in remote : k.id < nextKey
  /\ \A w \in Workers : op[w].deploy < nextKey /\ op[w].staleKey < nextKey

RepoAgrees ==
  \A k \in remote :
    /\ \A b \in bindings : b.deploy = k.id => b.repo = k.repo
    /\ \A w \in Workers :
         /\ op[w].pc = "save" /\ op[w].deploy = k.id => op[w].repo = k.repo
         /\ op[w].pc = "check" /\ op[w].staleKey = k.id => op[w].repo = k.repo

(* Nothing is known about the slot before it is looked up.                 *)
SlotUnread == \A w \in Workers : op[w].pc = "slot" => op[w].stale = 0

IInv ==
  /\ TypeOK /\ IdsAreFresh /\ RepoAgrees /\ SlotUnread
  /\ KeysAccountedFor /\ NoSharedDeployKey /\ ReplacedKeyIsGone

(* No step removes the key files of a saved create_and_upload_key binding, *)
(* whatever calls for the same path are rolled back, refused or cleaned up *)
(* after, unless a pair was begun there while the ssh-keygen of another    *)
(* call was under way.                                                     *)
GeneratedFilesKept ==
  [][\A b \in bindings \cap bindings' :
       b.pair \in Paths \ raced /\ b.pair \in files => b.pair \in files']_vars

(* A generation that meets the key files of a saved binding says           *)
(* AlreadyExists and leaves them, whatever the algorithm.                  *)
ExistingFilesKept ==
  [][\A b \in bindings \cap bindings' :
       b.pair \in Paths /\ b.pair \in files => b.pair \in files']_vars

(* Rebinding a slot persists the new key: when saving reports success, a   *)
(* row refers to the deploy key that was just uploaded.                    *)
SavedMeansPersisted ==
  [][\A w \in Workers :
       op[w].pc = "save" /\ op'[w].pc \in {"config", "ok"} =>
         \E b \in bindings' : b.deploy = op[w].deploy]_vars

(* A row whose deploy key is on GitHub is never overwritten by another     *)
(* call's key: a duplicate binding is rejected.                            *)
LiveBindingNotReplaced ==
  [][\A b \in bindings, c \in bindings' :
       b.id = c.id /\ b.deploy # c.deploy => b.deploy \notin RemoteIds]_vars

(* The status verify_key writes is a verdict on the deploy key the row     *)
(* refers to at that moment.                                               *)
VerdictMatchesRow ==
  [][\A w \in Workers :
       op[w].pc = "vsave" /\ op'[w].pc = "ok" =>
         \A b \in bindings : b.id = op[w].row => b.deploy = op[w].deploy]_vars

(* The abstract life of deploy key d, read off the detailed state.  A key  *)
(* is held while some call could still save or withdraw it.                *)
LifeOf(d) ==
  IF d >= nextKey THEN "unborn"
  ELSE IF \E b \in bindings : b.deploy = d THEN "bound"
  ELSE IF \E w \in Workers : op[w].deploy = d
             /\ op[w].pc \in {"save", "config", "undoRow", "undoKey"} THEN "held"
  ELSE IF d \in RemoteIds THEN "stray" ELSE "gone"

Life == INSTANCE DeployKeyLife WITH
          Ids <- 1..MaxDeployKeys, life <- [d \in 1..MaxDeployKeys |-> LifeOf(d)]

(* The service implements DeployKeyLife.                                   *)
ImplementsLife == Life!Spec
=============================================================================
