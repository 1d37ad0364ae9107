-------------------------- MODULE KeyBindingProofs --------------------------
(***************************************************************************)
(* Proofs about KeyBinding for every set of repositories, targets, keys,   *)
(* paths and workers, every set of jobs and every bound.                   *)
(***************************************************************************)
EXTENDS KeyBinding, TLAPS

(* The records a call can be, and the edits the actions make to them. *)
LEMMA CallType ==
  ASSUME NEW pc \in Steps, NEW job \in AllJobs, NEW r \in Repos,
         NEW t \in Targets, NEW p \in Pairs
  PROVE  Call(pc, job, r, t, p) \in Calls
BY DEF Call, Calls, Statuses

LEMMA EditType ==
  ASSUME NEW o \in Calls, NEW pc \in Steps, NEW i \in Nat, NEW d \in Nat, NEW s \in Statuses
  PROVE  /\ [o EXCEPT !.pc = pc] \in Calls
         /\ [o EXCEPT !.pc = pc, !.deploy = d] \in Calls
         /\ [o EXCEPT !.pc = pc, !.row = i] \in Calls
         /\ [o EXCEPT !.row = i, !.deploy = d] \in Calls
         /\ [o EXCEPT !.pc = pc, !.stale = i, !.staleKey = d] \in Calls
         /\ [o EXCEPT !.pc = pc, !.verdict = s] \in Calls
         /\ \A f \in BOOLEAN : [o EXCEPT !.pc = pc, !.whole = f] \in Calls
BY DEF Calls

(* A call between two awaits is a full record. *)
LEMMA RunningType ==
  ASSUME TypeOK, NEW w \in Workers, op[w].pc \in Steps
  PROVE  op[w] \in Calls
BY DEF TypeOK, Op, Returned, Call, Steps

(* A call that moves on without learning anything keeps the type of op. *)
LEMMA GotoType ==
  ASSUME TypeOK, NEW w \in Workers, op[w].pc \in Steps, NEW pc \in Steps, Goto(w, pc)
  PROVE  op' \in [Workers -> Op]
<1>1. op[w] \in Calls BY RunningType
<1>2. [op[w] EXCEPT !.pc = pc] \in Calls BY <1>1, EditType DEF Statuses
<1> QED BY <1>2 DEF TypeOK, Goto, Becomes, Op

LEMMA ReturnType ==
  ASSUME TypeOK, NEW w \in Workers, Return(w, "idle") \/ Return(w, "ok")
  PROVE  op' \in [Workers -> Op]
BY DEF TypeOK, Return, Becomes, Op

(* Every step of a call keeps every variable in its type. *)
LEMMA AdvanceType ==
  ASSUME TypeOK, NEW w \in Workers, Advance(w) PROVE TypeOK'
<1> DEFINE OpOK == op' \in [Workers -> Op]
<1> USE DEF TypeOK, tables, github
<1>0. ASSUME op[w].pc \in Steps
      PROVE  /\ op[w] \in Calls
             /\ \A o \in Calls : Becomes(w, o) => OpOK
             /\ op[w].deploy \in Nat /\ op[w].verdict \in Statuses /\ op[w].stale \in Nat
             /\ op[w].pair \in Pairs /\ op[w].repo \in Repos /\ op[w].target \in Targets
  <2>1. op[w] \in Calls BY <1>0, RunningType
  <2> QED BY <2>1 DEF Calls, Becomes, Op
<1>1. CASE GiveUp(w) BY <1>1, ReturnType DEF GiveUp
<1>2. CASE ReadSlot(w)
  <2>0. op[w].pc \in Steps BY <1>2 DEF ReadSlot, Steps
  <2>1. OpOK
    <3>1. CASE Goto(w, "pair") BY <2>0, <3>1, GotoType DEF Steps
    <3>2. ASSUME NEW b \in bindings,
                 Becomes(w, [op[w] EXCEPT !.pc = "check", !.stale = b.id, !.staleKey = b.deploy])
          PROVE OpOK
      <4>1. b.id \in Nat /\ b.deploy \in Nat BY DEF Binding
      <4>2. [op[w] EXCEPT !.pc = "check", !.stale = b.id, !.staleKey = b.deploy] \in Calls
        BY <2>0, <1>0, <4>1, EditType DEF Steps, Statuses
      <4> QED BY <3>2, <4>2, <2>0, <1>0
    <3> QED BY <1>2, <3>1, <3>2 DEF ReadSlot
  <2> QED BY <1>2, <2>1 DEF ReadSlot
<1>3. CASE CheckRemote(w)
  <2>0. op[w].pc \in Steps BY <1>3 DEF CheckRemote, Steps
  <2>1. \A f \in BOOLEAN : [op[w] EXCEPT !.pc = "pair", !.whole = f] \in Calls
    BY <2>0, <1>0, EditType DEF Steps, Statuses
  <2>2. FitsOnePage(op[w].repo) \in BOOLEAN BY DEF FitsOnePage
  <2>3. OpOK
    <3> HIDE DEF FitsOnePage
    <3> QED BY <1>3, <2>0, <2>1, <2>2, <1>0, ReturnType DEF CheckRemote
  <2> QED BY <1>3, <2>3 DEF CheckRemote
<1>4. CASE ReadPair(w) BY <1>4, GotoType DEF ReadPair, Steps
<1>5. CASE GeneratePair(w) \/ SeeNoFiles(w)
  <2>1. op[w].pair \in Pairs BY <1>5, <1>0 DEF GeneratePair, SeeNoFiles, Steps
  <2>2. OpOK BY <1>5, GotoType DEF GeneratePair, SeeNoFiles, Steps
  <2>3. raced' \subseteq Pairs BY <1>5, <2>1 DEF GeneratePair, SeeNoFiles, BeginPair
  <2> QED BY <1>5, <2>1, <2>2, <2>3 DEF GeneratePair, SeeNoFiles
<1>6. CASE Keygen(w) \/ KeygenUnread(w) \/ KeygenFailed(w) \/ CleanKeygen(w)
  <2>1. op[w].pair \in Pairs
    BY <1>6, <1>0 DEF Keygen, KeygenUnread, KeygenFailed, CleanKeygen, Steps
  <2>2. OpOK
    BY <1>6, GotoType, ReturnType DEF Keygen, KeygenUnread, KeygenFailed, CleanKeygen, Steps
  <2> QED BY <1>6, <2>1, <2>2 DEF Keygen, KeygenUnread, KeygenFailed, CleanKeygen
<1>7. CASE GenerateRefused(w) BY <1>7, ReturnType DEF GenerateRefused
<1>8. CASE PostCreated(w)
  <2>0. op[w].pc \in Steps BY <1>8 DEF PostCreated, Steps
  <2>1. [op[w] EXCEPT !.pc = "save", !.deploy = nextKey] \in Calls
    BY <2>0, <1>0, EditType DEF Steps, Statuses
  <2>2. OpOK BY <1>8, <2>0, <2>1, <1>0 DEF PostCreated
  <2>3. Created(w) \in DeployKey BY <2>0, <1>0 DEF Created, DeployKey
  <2> QED BY <1>8, <2>2, <2>3 DEF PostCreated
<1>9. CASE PostReplyLost(w)
  <2>0. op[w].pc \in Steps BY <1>9 DEF PostReplyLost, Steps
  <2>1. OpOK BY <1>9, <2>0, GotoType, ReturnType DEF PostReplyLost, AfterFailedPost, Steps
  <2>2. Created(w) \in DeployKey BY <2>0, <1>0 DEF Created, DeployKey
  <2> QED BY <1>9, <2>1, <2>2 DEF PostReplyLost
<1>10. CASE PostRefused(w)
  BY <1>10, GotoType, ReturnType DEF PostRefused, AfterFailedPost, Steps
<1>11. ASSUME NEW id \in Nat, op[w].pc = "save", AfterSave(w, id) PROVE OpOK
  <2>0. op[w].pc \in Steps BY <1>11 DEF Steps
  <2>1. [op[w] EXCEPT !.pc = "config", !.row = id] \in Calls
    BY <2>0, <1>0, EditType DEF Steps, Statuses
  <2> QED BY <1>11, <2>0, <2>1, <1>0, ReturnType DEF AfterSave
<1>12. ASSUME NEW id \in Nat, op[w].pc = "save" PROVE NewBinding(w, id) \in Binding
  BY <1>12, <1>0 DEF NewBinding, Binding, Steps, Statuses
<1>13. CASE SaveReplace(w)
  <2>1. op[w].stale \in Nat /\ op[w].deploy \in Nat BY <1>13, <1>0 DEF SaveReplace, Steps
  <2>2. OpOK BY <1>13, <2>1, <1>11 DEF SaveReplace
  <2>3. \A b \in bindings : NewBinding(w, b.id) \in Binding /\ b.deploy \in Nat
    BY <1>13, <1>12 DEF SaveReplace, Binding
  <2> QED BY <1>13, <2>1, <2>2, <2>3 DEF SaveReplace
<1>14. CASE SaveCreate(w) BY <1>14, <1>11, <1>12 DEF SaveCreate
<1>15. CASE SaveFailed(w) BY <1>15, GotoType DEF SaveFailed, Steps
<1>16. CASE ConfigWritten(w) BY <1>16, ReturnType DEF ConfigWritten
<1>17. CASE ConfigFailed(w) BY <1>17, GotoType DEF ConfigFailed, Steps
<1>18. CASE UndoRow(w)
  <2>1. OpOK BY <1>18, GotoType DEF UndoRow, Steps
  <2> QED BY <1>18, <2>1 DEF UndoRow, Binding
<1>19. CASE UndoKey(w)
  <2>1. OpOK BY <1>19, GotoType, ReturnType DEF UndoKey, AfterUndoKey, Steps
  <2> QED BY <1>19, <2>1 DEF UndoKey
<1>20. CASE UndoKeyFailed(w)
  <2>1. OpOK BY <1>20, GotoType, ReturnType DEF UndoKeyFailed, AfterUndoKey, Steps
  <2>2. op[w].deploy \in Nat BY <1>20, <1>0 DEF UndoKeyFailed, Steps
  <2> QED BY <1>20, <2>1, <2>2 DEF UndoKeyFailed
<1>21. CASE UndoFiles(w) BY <1>21, ReturnType DEF UndoFiles
<1>22. CASE VerifyList(w)
  <2>0. op[w].pc \in Steps BY <1>22 DEF VerifyList, Steps
  <2>1. \A s \in Statuses : [op[w] EXCEPT !.pc = "vfile", !.verdict = s] \in Calls
    BY <2>0, <1>0, EditType DEF Steps
  <2>2. OpOK
    <3>1. PICK s \in Statuses : Becomes(w, [op[w] EXCEPT !.pc = "vfile", !.verdict = s])
      BY <1>22 DEF VerifyList, Statuses
    <3> QED BY <2>0, <2>1, <3>1, <1>0
  <2> QED BY <1>22, <2>2 DEF VerifyList
<1>23. CASE VerifyFile(w)
  <2>0. op[w].pc \in Steps BY <1>23 DEF VerifyFile, Steps
  <2>1. \A s \in Statuses : [op[w] EXCEPT !.pc = "vsave", !.verdict = s] \in Calls
    BY <2>0, <1>0, EditType DEF Steps
  <2>2. OpOK BY <1>23, <2>0, <2>1, <1>0 DEF VerifyFile, Statuses
  <2> QED BY <1>23, <2>2 DEF VerifyFile
<1>24. CASE VerifySave(w)
  <2>1. OpOK BY <1>24, ReturnType DEF VerifySave
  <2>2. op[w].verdict \in Statuses BY <1>24, <1>0 DEF VerifySave, Steps
  <2> QED BY <1>24, <2>1, <2>2 DEF VerifySave, Binding
<1> QED BY <1>1, <1>2, <1>3, <1>4, <1>5, <1>6, <1>7, <1>8, <1>9, <1>10, <1>13, <1>14, <1>15,
           <1>16, <1>17, <1>18, <1>19, <1>20, <1>21, <1>22, <1>23, <1>24 DEF Advance

LEMMA StartType ==
  ASSUME TypeOK, NEW w \in Workers, Start(w) PROVE TypeOK'
<1> USE KeyBindingAssumption DEF TypeOK, tables, github
<1>0. ASSUME NEW o \in Calls, Becomes(w, o) PROVE op' \in [Workers -> Op]
  BY <1>0 DEF Becomes, Op
<1>1. CASE StartBind(w)
  <2>1. PICK r \in repos, k \in sshKeys : Becomes(w, Call("slot", "bind", r, KeyTarget[k], k))
    BY <1>1 DEF StartBind
  <2>2. Call("slot", "bind", r, KeyTarget[k], k) \in Calls
    BY CallType DEF Steps, AllJobs, Pairs
  <2> QED BY <1>1, <2>1, <2>2, <1>0 DEF StartBind
<1>2. CASE StartGenerate(w)
  <2>1. PICK job \in {"generate", "rsa"}, r \in Repos, t \in Targets, p \in Paths :
          Becomes(w, Call("slot", job, r, t, p))
    BY <1>2 DEF StartGenerate
  <2>2. Call("slot", job, r, t, p) \in Calls
    BY CallType DEF Steps, AllJobs, Pairs
  <2> QED BY <1>2, <2>1, <2>2, <1>0 DEF StartGenerate
<1>3. CASE StartVerify(w)
  <2> DEFINE C(b) == Call("vlist", "verify", b.repo, b.target, b.pair)
  <2>1. PICK b \in bindings : Becomes(w, [C(b) EXCEPT !.row = b.id, !.deploy = b.deploy])
    BY <1>3 DEF StartVerify
  <2>2. b \in Binding OBVIOUS
  <2>3. C(b) \in Calls
    BY <2>2, CallType DEF Binding, Steps, AllJobs
  <2> HIDE DEF C
  <2>4. [C(b) EXCEPT !.row = b.id, !.deploy = b.deploy] \in Calls
    <3>1. b.id \in Nat /\ b.deploy \in Nat /\ "slot" \in Steps /\ "active" \in Statuses
      BY <2>2 DEF Binding, Steps, Statuses
    <3> QED BY <2>3, <3>1, EditType
  <2> QED BY <1>3, <2>1, <2>4, <1>0 DEF StartVerify
<1> QED BY <1>1, <1>2, <1>3 DEF Start

LEMMA EnvironmentType == ASSUME TypeOK, Environment PROVE TypeOK'
<1> USE DEF TypeOK, tables, github
<1>1. CASE SignOut BY <1>1 DEF SignOut, Binding
<1>2. CASE Crash
  <2>1. \A w \in Workers : Holding(w) => op[w].deploy \in Nat
    BY RunningType DEF Holding, Steps, Calls
  <2>2. \A w \in Workers : op[w].pc = "keygen" => op[w].pair \in Pairs
    BY RunningType DEF Steps, Calls
  <2>3. files' \subseteq Pairs BY <1>2, <2>2 DEF Crash
  <2> QED BY <1>2, <2>1, <2>3 DEF Crash, Op
<1>3. ASSUME NEW t \in Targets, DeleteTarget(t) PROVE TypeOK'
  BY <1>3 DEF DeleteTarget, Binding
<1>4. ASSUME NEW k \in SshKeys, DeleteSshKey(k) PROVE TypeOK'
  BY <1>4 DEF DeleteSshKey
<1>5. ASSUME NEW k \in remote, UserDeletesDeployKey(k) PROVE TypeOK'
  BY <1>5 DEF UserDeletesDeployKey
<1> QED BY <1>1, <1>2, <1>3, <1>4, <1>5 DEF Environment

LEMMA TypeStep == TypeOK /\ [Next]_vars => TypeOK'
<1>1. CASE UNCHANGED vars BY <1>1 DEF TypeOK, vars, tables, github
<1> QED BY <1>1, StartType, AdvanceType, EnvironmentType DEF Next

(* Rows, deploy keys, calls and counters keep their types in every         *)
(* instance: no step of any call leaves a half-built record behind.        *)
THEOREM TypeCorrect == Spec => []TypeOK
<1>1. Init => TypeOK BY KeyBindingAssumption DEF Init, TypeOK, Pairs, Op
<1> QED BY <1>1, TypeStep, PTL DEF Spec
-----------------------------------------------------------------------------
(* The inductive invariant without the types.                              *)
Safe == /\ IdsAreFresh /\ RepoAgrees /\ SlotUnread
        /\ KeysAccountedFor /\ NoSharedDeployKey /\ ReplacedKeyIsGone

(* What a step does to the calls: only w's record changes.                 *)
OnlyCall(w) == \A v \in Workers \ {w} : op'[v] = op[v]

LEMMA CallFacts ==
  ASSUME TypeOK, NEW w \in Workers, op[w].pc \in Steps
  PROVE  /\ op[w].deploy \in Nat /\ op[w].stale \in Nat /\ op[w].staleKey \in Nat
         /\ op[w].row \in Nat
         /\ op[w].repo \in Repos /\ op[w].target \in Targets /\ op[w].pair \in Pairs
BY RunningType DEF Calls

LEMMA BecomesFacts ==
  ASSUME TypeOK, NEW w \in Workers, NEW c, Becomes(w, c)
  PROVE  op'[w] = c /\ OnlyCall(w)
BY DEF TypeOK, Becomes, OnlyCall

(* Going on changes the program counter alone.                             *)
LEMMA GotoFacts ==
  ASSUME TypeOK, NEW w \in Workers, op[w].pc \in Steps, NEW pc, Goto(w, pc)
  PROVE  /\ OnlyCall(w) /\ op'[w].pc = pc
         /\ op'[w].deploy = op[w].deploy /\ op'[w].repo = op[w].repo
         /\ op'[w].stale = op[w].stale /\ op'[w].staleKey = op[w].staleKey
         /\ op'[w].whole = op[w].whole
<1>1. op[w] \in Calls BY RunningType
<1>2. op'[w] = [op[w] EXCEPT !.pc = pc] /\ OnlyCall(w) BY BecomesFacts DEF Goto
<1> QED BY <1>1, <1>2 DEF Calls

(* A call that returned holds nothing.                                     *)
LEMMA ReturnFacts ==
  ASSUME TypeOK, NEW w \in Workers, NEW pc \in {"idle", "ok"}, Return(w, pc)
  PROVE  /\ OnlyCall(w) /\ op'[w].pc = pc
         /\ op'[w].deploy = 0 /\ op'[w].stale = 0 /\ op'[w].staleKey = 0
BY BecomesFacts DEF Return, Returned, Call

(* A step that leaves rows, deploy keys and history alone is safe when the *)
(* call's new record is: it still holds what it held, takes no new key to  *)
(* save, and has checked what it claims to have checked.                   *)
LEMMA QuietStep ==
  ASSUME TypeOK, Safe, NEW w \in Workers,
         UNCHANGED <<bindings, remote, nextKey, untracked>>,
         OnlyCall(w),
         op'[w].deploy < nextKey, op'[w].staleKey < nextKey,
         op'[w].pc # "save",
         op'[w].pc = "slot" => op'[w].stale = 0,
         Holding(w) => Holding(w)' /\ op'[w].deploy = op[w].deploy,
         op'[w].pc = "check" =>
           \A k \in remote : op'[w].staleKey = k.id => op'[w].repo = k.repo,
         op'[w].pc \in {"pair", "keygen", "post"} /\ op'[w].stale # 0 /\ op'[w].whole =>
           op'[w].staleKey \notin RemoteIds
  PROVE  Safe'
<1>1. IdsAreFresh' BY DEF Safe, IdsAreFresh, OnlyCall
<1>2. RepoAgrees' BY DEF Safe, RepoAgrees, OnlyCall
<1>3. SlotUnread' BY DEF Safe, SlotUnread, OnlyCall
<1>4. KeysAccountedFor'
  <2>1. \A v \in Workers : Holding(v) => Holding(v)' /\ op'[v].deploy = op[v].deploy
    BY DEF Holding, OnlyCall
  <2> HIDE DEF Holding
  <2> QED BY <2>1 DEF Safe, KeysAccountedFor
<1>5. NoSharedDeployKey' BY DEF Safe, NoSharedDeployKey, OnlyCall
<1>6. ReplacedKeyIsGone' BY DEF Safe, ReplacedKeyIsGone, OnlyCall, RemoteIds
<1> QED BY <1>1, <1>2, <1>3, <1>4, <1>5, <1>6 DEF Safe

(* Starting a call, and every step of one that touches neither GitHub nor  *)
(* the rows.                                                               *)
LEMMA StartSafe ==
  ASSUME TypeOK, Safe, NEW w \in Workers, Start(w) PROVE Safe'
<1>1. UNCHANGED <<bindings, remote, nextKey, untracked>>
  BY DEF Start, StartBind, StartGenerate, StartVerify, github
<1>2. ~Holding(w)
  BY DEF Start, StartBind, StartGenerate, StartVerify, Running, Holding
<1>3. 0 < nextKey BY DEF TypeOK
<1>4. CASE StartBind(w)
  <2>1. OnlyCall(w) /\ op'[w].pc = "slot" /\ op'[w].stale = 0
        /\ op'[w].staleKey = 0 /\ op'[w].deploy = 0
    BY <1>4, BecomesFacts DEF StartBind, Call
  <2> QED BY <1>1, <1>2, <1>3, <2>1, QuietStep
<1>5. CASE StartGenerate(w)
  <2>1. OnlyCall(w) /\ op'[w].pc = "slot" /\ op'[w].stale = 0
        /\ op'[w].staleKey = 0 /\ op'[w].deploy = 0
    BY <1>5, BecomesFacts DEF StartGenerate, Call
  <2> QED BY <1>1, <1>2, <1>3, <2>1, QuietStep
<1>6. CASE StartVerify(w)
  <2>1. PICK b \in bindings :
          Becomes(w, [Call("vlist", "verify", b.repo, b.target, b.pair)
                        EXCEPT !.row = b.id, !.deploy = b.deploy])
    BY <1>6 DEF StartVerify
  <2>2. OnlyCall(w) /\ op'[w].pc = "vlist" /\ op'[w].stale = 0
        /\ op'[w].staleKey = 0 /\ op'[w].deploy = b.deploy
    <3> DEFINE c == Call("vlist", "verify", b.repo, b.target, b.pair)
    <3>1. c \in Calls /\ c.pc = "vlist" /\ c.stale = 0 /\ c.staleKey = 0
      BY CallType DEF Call, TypeOK, Binding, Steps, AllJobs
    <3> HIDE DEF c
    <3>2. op'[w] = [c EXCEPT !.row = b.id, !.deploy = b.deploy] /\ OnlyCall(w)
      BY <2>1, BecomesFacts DEF c
    <3> QED BY <3>1, <3>2 DEF Calls
  <2>3. b.deploy < nextKey BY DEF Safe, IdsAreFresh
  <2> QED BY <1>1, <1>2, <1>3, <2>2, <2>3, QuietStep
<1> QED BY <1>4, <1>5, <1>6 DEF Start

Quiet(w) ==
  \/ GiveUp(w) \/ ReadSlot(w) \/ CheckRemote(w)
  \/ ReadPair(w) \/ GeneratePair(w) \/ GenerateRefused(w)
  \/ SeeNoFiles(w) \/ Keygen(w) \/ KeygenUnread(w) \/ KeygenFailed(w) \/ CleanKeygen(w)
  \/ PostRefused(w) \/ SaveFailed(w) \/ ConfigWritten(w) \/ ConfigFailed(w)
  \/ UndoFiles(w) \/ VerifyList(w) \/ VerifyFile(w)

LEMMA QuietSafe ==
  ASSUME TypeOK, Safe, NEW w \in Workers, Quiet(w) PROVE Safe'
<1>1. UNCHANGED <<bindings, remote, nextKey, untracked>>
  BY DEF Quiet, GiveUp, ReadSlot, CheckRemote, ReadPair, GeneratePair,
         GenerateRefused, SeeNoFiles, Keygen, KeygenUnread, KeygenFailed, CleanKeygen,
         PostRefused, SaveFailed, ConfigWritten, ConfigFailed, UndoFiles,
         VerifyList, VerifyFile, github
<1>2. op[w].pc \in Steps
  BY DEF Quiet, GiveUp, ReadSlot, CheckRemote, ReadPair, GeneratePair,
         GenerateRefused, SeeNoFiles, Keygen, KeygenUnread, KeygenFailed, CleanKeygen,
         PostRefused, SaveFailed, ConfigWritten, ConfigFailed, UndoFiles,
         VerifyList, VerifyFile, Steps
<1>3. 0 < nextKey /\ op[w].deploy < nextKey /\ op[w].staleKey < nextKey
  BY DEF TypeOK, Safe, IdsAreFresh
<1>4. ASSUME ~Holding(w), NEW pc \in {"idle", "ok"}, Return(w, pc) PROVE Safe'
  BY <1>1, <1>3, <1>4, ReturnFacts, QuietStep
<1>5. ASSUME NEW pc \in Steps \ {"save", "slot", "check", "pair", "keygen", "post"}, Goto(w, pc),
             Holding(w) => pc \in {"undoRow", "undoKey"}
      PROVE  Safe'
  <2>1. Holding(w) => Holding(w)' /\ op'[w].deploy = op[w].deploy
    BY <1>2, <1>5, GotoFacts DEF Holding
  <2> QED BY <1>1, <1>2, <1>3, <1>5, <2>1, GotoFacts, QuietStep
<1>6. CASE GiveUp(w) BY <1>6, <1>4 DEF GiveUp, Holding
<1>7. CASE ReadSlot(w)
  <2>0. ~Holding(w) /\ op[w].stale = 0
    BY <1>7 DEF ReadSlot, Holding, Safe, SlotUnread
  <2>1. CASE Goto(w, "pair") BY <1>1, <1>2, <1>3, <2>0, <2>1, GotoFacts, QuietStep
  <2>2. ASSUME NEW b \in bindings, b.repo = op[w].repo,
               Becomes(w, [op[w] EXCEPT !.pc = "check", !.stale = b.id,
                                        !.staleKey = b.deploy])
        PROVE  Safe'
    <3>1. op[w] \in Calls BY <1>2, RunningType
    <3>2. op'[w] = [op[w] EXCEPT !.pc = "check", !.stale = b.id, !.staleKey = b.deploy]
          /\ OnlyCall(w)
      BY <2>2, BecomesFacts
    <3>3. op'[w].pc = "check" /\ op'[w].staleKey = b.deploy /\ op'[w].repo = b.repo
          /\ op'[w].deploy = op[w].deploy
      BY <2>2, <3>1, <3>2 DEF Calls
    <3>4. b.deploy < nextKey /\ \A k \in remote : b.deploy = k.id => b.repo = k.repo
      BY DEF Safe, IdsAreFresh, RepoAgrees
    <3> QED BY <1>1, <1>3, <2>0, <3>2, <3>3, <3>4, QuietStep
  <2> QED BY <1>7, <2>1, <2>2 DEF ReadSlot
<1>8. CASE CheckRemote(w)
  <2>0. ~Holding(w) BY <1>8 DEF CheckRemote, Holding
  <2>1. CASE Return(w, "idle") BY <2>0, <2>1, <1>4
  <2>2. ASSUME NEW listed \in Listings(op[w].repo), op[w].staleKey \notin listed,
               Becomes(w, [op[w] EXCEPT !.pc = "pair", !.whole = FitsOnePage(op[w].repo)])
        PROVE  Safe'
    <3>1. op[w] \in Calls BY <1>2, RunningType
    <3>2. PICK f : f = FitsOnePage(op[w].repo) OBVIOUS
    <3>3. op'[w] = [op[w] EXCEPT !.pc = "pair", !.whole = f] /\ OnlyCall(w)
      BY <2>2, <3>2, BecomesFacts
    <3>4. /\ op'[w].pc = "pair" /\ op'[w].whole = f /\ op'[w].deploy = op[w].deploy
          /\ op'[w].staleKey = op[w].staleKey
      BY <3>1, <3>3 DEF Calls
    <3>5. f => op[w].staleKey \notin RemoteIds
      <4>1. \A k \in remote : op[w].staleKey = k.id => op[w].repo = k.repo
        BY <1>8 DEF CheckRemote, Safe, RepoAgrees
      <4>2. op[w].staleKey \in RemoteIds => op[w].staleKey \in DeployKeysOf(op[w].repo)
        BY <4>1 DEF RemoteIds, DeployKeysOf
      <4>3. f => listed = DeployKeysOf(op[w].repo) BY <2>2, <3>2 DEF Listings
      <4> QED BY <2>2, <4>2, <4>3
    <3> QED BY <1>1, <1>3, <2>0, <3>3, <3>4, <3>5, QuietStep
  <2> QED BY <1>8, <2>1, <2>2 DEF CheckRemote
<1>9. ASSUME op[w].pc \in {"pair", "keygen"}, Goto(w, "post") \/ Goto(w, "keygen") PROVE Safe'
  <2>1. ~Holding(w) /\ (op[w].stale # 0 /\ op[w].whole => op[w].staleKey \notin RemoteIds)
    BY <1>9 DEF Holding, Safe, ReplacedKeyIsGone
  <2> QED BY <1>1, <1>2, <1>3, <1>9, <2>1, GotoFacts, QuietStep
<1>10. CASE ReadPair(w) BY <1>9, <1>10 DEF ReadPair
<1>11. CASE GeneratePair(w) \/ SeeNoFiles(w) \/ Keygen(w)
  BY <1>9, <1>11 DEF GeneratePair, SeeNoFiles, Keygen
<1>12. CASE GenerateRefused(w) \/ KeygenUnread(w) \/ CleanKeygen(w)
  BY <1>4, <1>12 DEF GenerateRefused, KeygenUnread, CleanKeygen, Holding
<1>21. CASE KeygenFailed(w) BY <1>5, <1>21 DEF KeygenFailed, Holding, Steps
<1>13. CASE PostRefused(w)
  BY <1>4, <1>5, <1>13 DEF PostRefused, AfterFailedPost, Holding, Steps
<1>14. CASE SaveFailed(w) BY <1>5, <1>14 DEF SaveFailed, Steps
<1>15. CASE ConfigWritten(w) BY <1>4, <1>15 DEF ConfigWritten, Holding
<1>16. CASE ConfigFailed(w) BY <1>5, <1>16 DEF ConfigFailed, Steps
<1>17. CASE UndoFiles(w) BY <1>4, <1>17 DEF UndoFiles, Holding
<1>18. ASSUME NEW pc \in {"vfile", "vsave"}, NEW s, ~Holding(w),
              Becomes(w, [op[w] EXCEPT !.pc = pc, !.verdict = s])
       PROVE  Safe'
  <2>1. op[w] \in Calls BY <1>2, RunningType
  <2>2. op'[w] = [op[w] EXCEPT !.pc = pc, !.verdict = s] /\ OnlyCall(w)
    BY <1>18, BecomesFacts
  <2>3. op'[w].pc = pc /\ op'[w].deploy = op[w].deploy /\ op'[w].staleKey = op[w].staleKey
    BY <2>1, <2>2 DEF Calls
  <2> QED BY <1>1, <1>3, <1>18, <2>2, <2>3, QuietStep
<1>19. CASE VerifyList(w)
  <2>1. PICK s : Becomes(w, [op[w] EXCEPT !.pc = "vfile", !.verdict = s])
    BY <1>19 DEF VerifyList
  <2> QED BY <1>18, <1>19, <2>1 DEF VerifyList, Holding
<1>20. CASE VerifyFile(w) BY <1>18, <1>20 DEF VerifyFile, Holding
<1> QED BY <1>6, <1>7, <1>8, <1>10, <1>11, <1>12, <1>13, <1>14, <1>15, <1>16, <1>17,
           <1>19, <1>20, <1>21 DEF Quiet

(* GitHub assigns a fresh id: no row and no other call can refer to it.    *)
LEMMA PostSafe ==
  ASSUME TypeOK, Safe, NEW w \in Workers, PostCreated(w) \/ PostReplyLost(w)
  PROVE  Safe'
<1> USE DEF Safe
<1>1. /\ bindings' = bindings /\ nextKey' = nextKey + 1 /\ nextKey \in Nat
      /\ remote' = remote \cup {Created(w)}
      /\ Created(w).id = nextKey /\ Created(w).repo = op[w].repo
      /\ untracked \subseteq untracked'
  BY DEF PostCreated, PostReplyLost, Created, TypeOK
<1>2. op[w].pc = "post" /\ op[w].pc \in Steps
  BY DEF PostCreated, PostReplyLost, Steps
<1>3. /\ OnlyCall(w)
      /\ \/ /\ op'[w].pc = "save" /\ op'[w].deploy = nextKey /\ op'[w].repo = op[w].repo
            /\ op'[w].stale = op[w].stale /\ op'[w].staleKey = op[w].staleKey
            /\ op'[w].whole = op[w].whole
         \/ /\ op'[w].pc \in {"idle", "undoFiles"} /\ nextKey \in untracked'
            /\ op'[w].deploy \in {0, op[w].deploy}
            /\ op'[w].staleKey \in {0, op[w].staleKey}
  <2>1. CASE PostCreated(w)
    <3>1. op[w] \in Calls BY <1>2, RunningType
    <3>2. op'[w] = [op[w] EXCEPT !.pc = "save", !.deploy = nextKey] /\ OnlyCall(w)
      BY <2>1, BecomesFacts DEF PostCreated
    <3> QED BY <3>1, <3>2 DEF Calls
  <2>2. CASE PostReplyLost(w)
    BY <2>2, <1>2, GotoFacts, ReturnFacts DEF PostReplyLost, AfterFailedPost
  <2> QED BY <2>1, <2>2
<1> DEFINE fresh == Created(w)
<1> HIDE DEF fresh
<1>4. IdsAreFresh'
  <2>1. 0 < nextKey BY DEF TypeOK
  <2>2. \A v \in Workers : op'[v].deploy < nextKey + 1 /\ op'[v].staleKey < nextKey + 1
    <3>1. \A v \in Workers : /\ op[v].deploy < nextKey /\ op[v].staleKey < nextKey
      BY DEF IdsAreFresh
    <3>2. \A v \in Workers : op[v].deploy \in Nat /\ op[v].staleKey \in Nat
      BY DEF TypeOK, Op, Calls, Returned, Call
    <3> QED BY <1>1, <1>3, <2>1, <3>1, <3>2 DEF OnlyCall
  <2>3. \A b \in bindings : b.deploy < nextKey + 1
    BY <1>1 DEF IdsAreFresh, TypeOK, Binding
  <2>4. \A k \in remote' : k.id < nextKey + 1
    BY <1>1 DEF IdsAreFresh, TypeOK, DeployKey
  <2> QED BY <1>1, <2>2, <2>3, <2>4 DEF IdsAreFresh
<1>5. RepoAgrees'
  <2>1. ASSUME NEW k \in remote'
        PROVE  /\ \A b \in bindings' : b.deploy = k.id => b.repo = k.repo
               /\ \A v \in Workers :
                    /\ op'[v].pc = "save" /\ op'[v].deploy = k.id => op'[v].repo = k.repo
                    /\ op'[v].pc = "check" /\ op'[v].staleKey = k.id => op'[v].repo = k.repo
    <3>1. CASE k \in remote BY <1>1, <1>2, <1>3, <3>1 DEF RepoAgrees, IdsAreFresh, OnlyCall
    <3>2. CASE k = Created(w)
      BY <1>1, <1>2, <1>3, <3>2 DEF IdsAreFresh, OnlyCall
    <3> QED BY <1>1, <3>1, <3>2
  <2> QED BY <2>1 DEF RepoAgrees
<1>6. SlotUnread' BY <1>3 DEF SlotUnread, OnlyCall
<1>7. KeysAccountedFor'
  <2>1. \A v \in Workers : Holding(v) => Holding(v)' /\ op'[v].deploy = op[v].deploy
    BY <1>2, <1>3 DEF Holding, OnlyCall
  <2>2. nextKey \in untracked' \/ (Holding(w)' /\ op'[w].deploy = nextKey)
    BY <1>3 DEF Holding
  <2> HIDE DEF Holding
  <2> QED BY <1>1, <2>1, <2>2 DEF KeysAccountedFor
<1>8. NoSharedDeployKey'
  BY <1>1, <1>2, <1>3 DEF NoSharedDeployKey, OnlyCall, IdsAreFresh
<1>9. ReplacedKeyIsGone'
  <2>1. RemoteIds' = RemoteIds \cup {nextKey} BY <1>1 DEF RemoteIds
  <2>2. \A v \in Workers : op[v].staleKey # nextKey
    BY <1>1 DEF IdsAreFresh
  <2> HIDE DEF RemoteIds
  <2> QED BY <1>2, <1>3, <2>1, <2>2 DEF ReplacedKeyIsGone, OnlyCall
<1> QED BY <1>4, <1>5, <1>6, <1>7, <1>8, <1>9

(* Saving moves the key from the call to the row, whichever row it is.     *)
LEMMA SaveSafe ==
  ASSUME TypeOK, Safe, NEW w \in Workers, SaveReplace(w) \/ SaveCreate(w)
  PROVE  Safe'
<1> USE DEF Safe
<1>1. /\ remote' = remote /\ nextKey' = nextKey /\ op[w].pc = "save" /\ op[w].pc \in Steps
      /\ untracked \subseteq untracked'
  BY DEF SaveReplace, SaveCreate, github, Steps
<1>2. PICK n : /\ n.deploy = op[w].deploy /\ n.repo = op[w].repo
               /\ \A b \in bindings' : b \in bindings \/ b = n
               /\ \A b \in bindings : b \in bindings' \/ b.deploy \in untracked'
               /\ n \in bindings' \/ op[w].deploy \in untracked'
  <2>1. CASE SaveReplace(w)
    <3> DEFINE n == NewBinding(w, op[w].stale)
               old == {b \in bindings : b.id = op[w].stale}
    <3>1. bindings' = (bindings \ old) \cup {NewBinding(w, b.id) : b \in old}
          /\ untracked' = untracked \cup {b.deploy : b \in old}
                            \cup (IF old = {} THEN {op[w].deploy} ELSE {})
      BY <2>1 DEF SaveReplace
    <3>2. n.deploy = op[w].deploy /\ n.repo = op[w].repo BY DEF NewBinding
    <3>3. \A b \in old : NewBinding(w, b.id) = n OBVIOUS
    <3> HIDE DEF n
    <3> QED BY <3>1, <3>2, <3>3
  <2>2. CASE SaveCreate(w)
    <3>1. NewBinding(w, nextRow).deploy = op[w].deploy /\ NewBinding(w, nextRow).repo = op[w].repo
      BY DEF NewBinding
    <3> QED BY <2>2, <3>1 DEF SaveCreate
  <2> QED BY <2>1, <2>2
<1>3. /\ OnlyCall(w) /\ op'[w].pc \in {"config", "ok"}
      /\ op'[w].deploy \in {0, op[w].deploy} /\ op'[w].staleKey \in {0, op[w].staleKey}
  <2>1. ASSUME NEW id, AfterSave(w, id)
        PROVE  /\ OnlyCall(w) /\ op'[w].pc \in {"config", "ok"}
               /\ op'[w].deploy \in {0, op[w].deploy}
               /\ op'[w].staleKey \in {0, op[w].staleKey}
    <3>1. CASE Return(w, "ok") BY <3>1, ReturnFacts
    <3>2. CASE Becomes(w, [op[w] EXCEPT !.pc = "config", !.row = id])
      <4>1. op[w] \in Calls BY <1>1, RunningType
      <4>2. op'[w] = [op[w] EXCEPT !.pc = "config", !.row = id] /\ OnlyCall(w)
        BY <3>2, BecomesFacts
      <4> QED BY <4>1, <4>2 DEF Calls
    <3> QED BY <2>1, <3>1, <3>2 DEF AfterSave
  <2> QED BY <2>1 DEF SaveReplace, SaveCreate
<1>4. IdsAreFresh'
  <2>1. 0 < nextKey BY DEF TypeOK
  <2>2. \A v \in Workers : op'[v].deploy < nextKey /\ op'[v].staleKey < nextKey
    BY <1>3, <2>1 DEF IdsAreFresh, OnlyCall
  <2>3. \A b \in bindings' : b.deploy < nextKey BY <1>2 DEF IdsAreFresh
  <2> QED BY <1>1, <2>2, <2>3 DEF IdsAreFresh
<1>5. RepoAgrees' BY <1>1, <1>2, <1>3 DEF RepoAgrees, OnlyCall
<1>6. SlotUnread' BY <1>3 DEF SlotUnread, OnlyCall
<1>7. KeysAccountedFor'
  <2>1. \A v \in Workers \ {w} : Holding(v) => Holding(v)' /\ op'[v].deploy = op[v].deploy
    BY <1>3 DEF Holding, OnlyCall
  <2> HIDE DEF Holding
  <2> QED BY <1>1, <1>2, <2>1 DEF KeysAccountedFor
<1>8. NoSharedDeployKey' BY <1>1, <1>2, <1>3 DEF NoSharedDeployKey, OnlyCall
<1>9. ReplacedKeyIsGone' BY <1>1, <1>3 DEF ReplacedKeyIsGone, OnlyCall, RemoteIds
<1> QED BY <1>4, <1>5, <1>6, <1>7, <1>8, <1>9

(* A step that takes rows and deploy keys away is safe when what loses its *)
(* row, and what a call lets go of, is deleted or remembered as untracked, *)
(* and no call takes up anything.                                          *)
LEMMA LosingStep ==
  ASSUME TypeOK, Safe, nextKey' = nextKey,
         remote' \subseteq remote, untracked \subseteq untracked',
         \A c \in bindings' : \E b \in bindings :
           b.id = c.id /\ b.deploy = c.deploy /\ b.repo = c.repo,
         \A b, c \in bindings' : b.deploy = c.deploy => b = c,
         \A k \in remote', b \in bindings : k.id = b.deploy =>
           \/ \E c \in bindings' : c.deploy = b.deploy
           \/ \E w \in Workers : Holding(w)' /\ op'[w].deploy = b.deploy
           \/ b.deploy \in untracked',
         \A w \in Workers :
           \/ op'[w] = op[w]
           \/ /\ op'[w].pc \notin {"slot", "check", "pair", "keygen", "post", "save"}
              /\ op'[w].deploy \in {0, op[w].deploy} /\ op'[w].staleKey \in {0, op[w].staleKey}
              /\ Holding(w) =>
                   \/ Holding(w)' /\ op'[w].deploy = op[w].deploy
                   \/ op[w].deploy \in untracked'
                   \/ \A k \in remote' : k.id # op[w].deploy
  PROVE  Safe'
<1> USE DEF Safe
<1>1. IdsAreFresh'
  <2>1. 0 < nextKey BY DEF TypeOK
  <2>2. \A w \in Workers : op'[w].deploy < nextKey /\ op'[w].staleKey < nextKey
    BY <2>1 DEF IdsAreFresh
  <2>3. \A b \in bindings' : b.deploy < nextKey BY DEF IdsAreFresh
  <2> QED BY <2>2, <2>3 DEF IdsAreFresh
<1>2. RepoAgrees' BY DEF RepoAgrees
<1>3. SlotUnread' BY DEF SlotUnread
<1>4. KeysAccountedFor'
  <2> SUFFICES ASSUME NEW k \in remote'
               PROVE  \/ \E b \in bindings' : b.deploy = k.id
                      \/ \E w \in Workers : Holding(w)' /\ op'[w].deploy = k.id
                      \/ k.id \in untracked'
    BY DEF KeysAccountedFor
  <2>1. CASE \E b \in bindings : b.deploy = k.id BY <2>1
  <2>2. ASSUME NEW w \in Workers, Holding(w), op[w].deploy = k.id
        PROVE  (Holding(w)' /\ op'[w].deploy = k.id) \/ k.id \in untracked'
    <3>1. CASE op'[w] = op[w] BY <2>2, <3>1 DEF Holding
    <3> HIDE DEF Holding
    <3> QED BY <2>2, <3>1
  <2> HIDE DEF Holding
  <2> QED BY <2>1, <2>2 DEF KeysAccountedFor
<1>5. NoSharedDeployKey'
  <2>1. \A w \in Workers : op'[w].pc = "save" => op'[w] = op[w] OBVIOUS
  <2> QED BY <2>1 DEF NoSharedDeployKey
<1>6. ReplacedKeyIsGone' BY DEF ReplacedKeyIsGone, RemoteIds
<1> QED BY <1>1, <1>2, <1>3, <1>4, <1>5, <1>6

LEMMA UndoSafe ==
  ASSUME TypeOK, Safe, NEW w \in Workers,
         UndoRow(w) \/ UndoKey(w) \/ UndoKeyFailed(w) \/ VerifySave(w)
  PROVE  Safe'
<1>1. \A b, c \in bindings : b.deploy = c.deploy => b = c BY DEF Safe, NoSharedDeployKey
<1>2. op[w].pc \in Steps BY DEF UndoRow, UndoKey, UndoKeyFailed, VerifySave, Steps
<1>3. ASSUME AfterUndoKey(w)
      PROVE  /\ OnlyCall(w) /\ op'[w].pc \in {"idle", "undoFiles"}
             /\ op'[w].deploy \in {0, op[w].deploy} /\ op'[w].staleKey \in {0, op[w].staleKey}
  BY <1>2, <1>3, GotoFacts, ReturnFacts DEF AfterUndoKey
<1>4. CASE UndoRow(w)
  <2>1. /\ nextKey' = nextKey /\ remote' = remote /\ untracked \subseteq untracked'
        /\ bindings' \subseteq bindings
        /\ \A b \in bindings : b \in bindings' \/ b.deploy \in untracked' \cup {op[w].deploy}
    BY <1>4 DEF UndoRow, github
  <2>2. OnlyCall(w) /\ op'[w].pc = "undoKey" /\ op'[w].deploy = op[w].deploy
        /\ op'[w].staleKey = op[w].staleKey
    BY <1>2, <1>4, GotoFacts DEF UndoRow
  <2>3. Holding(w)' BY <2>2 DEF Holding
  <2> HIDE DEF Holding
  <2> QED BY <1>1, <2>1, <2>2, <2>3, LosingStep DEF OnlyCall
<1>5. CASE UndoKey(w)
  <2>1. nextKey' = nextKey /\ untracked' = untracked /\ bindings' = bindings
        /\ remote' = {k \in remote : k.id # op[w].deploy}
    BY <1>5 DEF UndoKey
  <2>2. AfterUndoKey(w) BY <1>5 DEF UndoKey
  <2> QED BY <1>1, <1>3, <2>1, <2>2, LosingStep DEF OnlyCall
<1>6. CASE UndoKeyFailed(w)
  <2>1. nextKey' = nextKey /\ bindings' = bindings /\ remote' = remote
        /\ untracked' = untracked \cup {op[w].deploy}
    BY <1>6 DEF UndoKeyFailed, github
  <2>2. AfterUndoKey(w) BY <1>6 DEF UndoKeyFailed
  <2> QED BY <1>1, <1>3, <2>1, <2>2, LosingStep DEF OnlyCall
<1>7. CASE VerifySave(w)
  <2> DEFINE judged(b) == IF b.id = op[w].row THEN [b EXCEPT !.status = op[w].verdict] ELSE b
  <2>1. nextKey' = nextKey /\ remote' = remote /\ untracked' = untracked
        /\ bindings' = {judged(b) : b \in bindings}
    BY <1>7 DEF VerifySave, github
  <2>2. \A b \in bindings : judged(b).id = b.id /\ judged(b).deploy = b.deploy
                           /\ judged(b).repo = b.repo
    BY DEF TypeOK, Binding
  <2>3. OnlyCall(w) /\ op'[w].pc = "ok" /\ op'[w].deploy = 0 /\ op'[w].staleKey = 0
    BY <1>7, ReturnFacts DEF VerifySave
  <2>4. ~Holding(w) BY <1>7 DEF VerifySave, Holding
  <2> HIDE DEF judged, Holding
  <2>5. \A c \in bindings' : \E b \in bindings :
          b.id = c.id /\ b.deploy = c.deploy /\ b.repo = c.repo
    BY <2>1, <2>2
  <2>6. \A b, c \in bindings' : b.deploy = c.deploy => b = c
    BY <1>1, <2>1, <2>2
  <2>7. \A b \in bindings : \E c \in bindings' : c.deploy = b.deploy
    BY <2>1, <2>2
  <2> QED BY <2>1, <2>3, <2>4, <2>5, <2>6, <2>7, LosingStep DEF OnlyCall
<1> QED BY <1>4, <1>5, <1>6, <1>7

LEMMA EnvironmentSafe == ASSUME TypeOK, Safe, Environment PROVE Safe'
<1>1. \A b, c \in bindings : b.deploy = c.deploy => b = c BY DEF Safe, NoSharedDeployKey
<1>2. ASSUME nextKey' = nextKey, op' = op, remote' \subseteq remote, bindings' \subseteq bindings,
             untracked \subseteq untracked',
             \A b \in bindings : b \in bindings' \/ b.deploy \in untracked'
      PROVE  Safe'
  BY <1>1, <1>2, LosingStep
<1>3. CASE SignOut BY <1>2, <1>3 DEF SignOut, github
<1>4. CASE Crash
  <2>1. /\ nextKey' = nextKey /\ remote' = remote /\ bindings' = bindings
        /\ untracked \subseteq untracked'
        /\ \A w \in Workers : Holding(w) => op[w].deploy \in untracked'
    BY <1>4 DEF Crash, github
  <2>2. \A w \in Workers : op'[w].pc = "idle" /\ op'[w].deploy = 0 /\ op'[w].staleKey = 0
    BY <1>4 DEF Crash, Returned, Call
  <2> QED BY <1>1, <2>1, <2>2, LosingStep
<1>5. ASSUME NEW t \in Targets, DeleteTarget(t) PROVE Safe'
  BY <1>2, <1>5 DEF DeleteTarget, github
<1>6. ASSUME NEW k \in SshKeys, DeleteSshKey(k) PROVE Safe'
  BY <1>2, <1>6 DEF DeleteSshKey, github
<1>7. ASSUME NEW k \in remote, UserDeletesDeployKey(k) PROVE Safe'
  BY <1>2, <1>7 DEF UserDeletesDeployKey
<1> QED BY <1>3, <1>4, <1>5, <1>6, <1>7 DEF Environment

LEMMA InvariantStep == IInv /\ [Next]_vars => IInv'
<1> SUFFICES ASSUME IInv, [Next]_vars PROVE IInv'
  OBVIOUS
<1>1. TypeOK /\ Safe BY DEF IInv, Safe
<1>2. TypeOK' BY <1>1, TypeStep
<1>3. Safe'
  <2>1. CASE UNCHANGED vars
    BY <1>1, <2>1 DEF vars, tables, github, Safe, IdsAreFresh, RepoAgrees, SlotUnread,
         KeysAccountedFor, NoSharedDeployKey, ReplacedKeyIsGone, Holding, RemoteIds
  <2>2. ASSUME NEW w \in Workers, Advance(w) PROVE Safe'
    BY <1>1, <2>2, QuietSafe, PostSafe, SaveSafe, UndoSafe DEF Advance, Quiet
  <2> QED BY <1>1, <2>1, <2>2, StartSafe, EnvironmentSafe DEF Next
<1> QED BY <1>2, <1>3 DEF IInv, Safe

LEMMA InvariantInit == Init => IInv
<1>1. Init => TypeOK BY KeyBindingAssumption DEF Init, TypeOK, Pairs, Op
<1>2. Init => Safe
  BY DEF Init, Safe, IdsAreFresh, RepoAgrees, SlotUnread, KeysAccountedFor,
     NoSharedDeployKey, ReplacedKeyIsGone, Returned, Call
<1> QED BY <1>1, <1>2 DEF IInv, Safe

LEMMA Invariant == Spec => []IInv
BY InvariantInit, InvariantStep, PTL DEF Spec

(* No return path of the service forgets a deploy key it put on GitHub.    *)
THEOREM NoKeyForgotten == Spec => []KeysAccountedFor
<1>1. IInv => KeysAccountedFor BY DEF IInv
<1> QED BY <1>1, Invariant, PTL

(* Two rows, or a row and a call about to save, never claim one key.       *)
THEOREM DeployKeysNotShared == Spec => []NoSharedDeployKey
<1>1. IInv => NoSharedDeployKey BY DEF IInv
<1> QED BY <1>1, Invariant, PTL

(* Only a row whose deploy key, as the call read it, is not on GitHub is   *)
(* going to be overwritten.                                                *)
THEOREM OnlyGoneKeysReplaced == Spec => []ReplacedKeyIsGone
<1>1. IInv => ReplacedKeyIsGone BY DEF IInv
<1> QED BY <1>1, Invariant, PTL
-----------------------------------------------------------------------------
(* What protects the files of a generated key: a call names a path exactly *)
(* when it generates, and then has no row to take back; ...                *)
Fits(o) == o.pc \in Steps \ {"vlist", "vfile", "vsave"} =>
             \/ /\ o.job \in {"generate", "rsa"} /\ o.pair \in Paths
                /\ o.pc \notin {"config", "undoRow"}
             \/ o.job = "bind" /\ o.pair \in SshKeys /\ o.pc \notin {"keygen", "clean"}

(* ... one that has begun to make a pair and not saved its row is, where   *)
(* nobody raced, the only one to know the pair; ...                        *)
Working(o) == /\ o.job \in {"generate", "rsa"}
              /\ o.pc \in {"keygen", "clean", "post", "save", "undoKey", "undoFiles"}

(* ... and the pair is there once the call has gone on to GitHub.          *)
Made(o) == Working(o) /\ o.pc \notin {"keygen", "clean"}

Alone(p) == p \in Paths \ raced

Generated ==
  /\ \A w \in Workers : Fits(op[w])
  /\ \A b \in bindings : Alone(b.pair) => b.pair \in files
  /\ \A w \in Workers : Working(op[w]) /\ Alone(op[w].pair) =>
       /\ Made(op[w]) => op[w].pair \in files
       /\ \A b \in bindings : b.pair # op[w].pair
       /\ \A v \in Workers : Working(op[v]) /\ op[v].pair = op[w].pair => v = w

LEMMA GotoPair ==
  ASSUME TypeOK, NEW w \in Workers, op[w].pc \in Steps, NEW pc, Goto(w, pc)
  PROVE  /\ OnlyCall(w) /\ op'[w].pc = pc
         /\ op'[w].job = op[w].job /\ op'[w].pair = op[w].pair
<1>1. op[w] \in Calls BY RunningType
<1>2. op'[w] = [op[w] EXCEPT !.pc = pc] /\ OnlyCall(w) BY BecomesFacts DEF Goto
<1> QED BY <1>1, <1>2 DEF Calls

LEMMA ReturnPair ==
  ASSUME TypeOK, NEW w \in Workers, NEW pc \in {"idle", "ok"}, Return(w, pc)
  PROVE  OnlyCall(w) /\ Fits(op'[w]) /\ ~Working(op'[w])
<1>1. OnlyCall(w) /\ op'[w].pc = pc BY ReturnFacts
<1> QED BY <1>1 DEF Fits, Working, Steps

LEMMA WorksOnPath ==
  ASSUME NEW o, Fits(o), Working(o) PROVE o.pair \in Paths
BY KeyBindingAssumption DEF Fits, Working, Steps

(* A step that brings no pair into the rows and begins none is harmless.   *)
LEMMA PairsStay ==
  ASSUME Generated, NEW w \in Workers, OnlyCall(w), files \subseteq files',
         raced \subseteq raced',
         \A c \in bindings' : \E b \in bindings : b.pair = c.pair,
         Fits(op'[w]),
         Working(op'[w]) => Working(op[w]) /\ op'[w].pair = op[w].pair,
         Made(op'[w]) => Made(op[w]) \/ op[w].pair \in files'
  PROVE  Generated'
<1>1. \A v \in Workers : Fits(op'[v]) BY DEF Generated, Alone, OnlyCall
<1>2. \A v \in Workers : Working(op'[v]) => Working(op[v]) /\ op'[v].pair = op[v].pair
  BY DEF OnlyCall
<1>3. \A v \in Workers : Made(op'[v]) => Made(op[v]) \/ op[v].pair \in files'
  BY DEF OnlyCall
<1>4. \A p : Alone(p)' => Alone(p) BY DEF Alone
<1> HIDE DEF Fits, Made, Working
<1>5. \A c \in bindings' : Alone(c.pair)' => c.pair \in files' BY <1>4 DEF Generated, Alone
<1>6. ASSUME NEW v \in Workers, Working(op'[v]), op'[v].pair \in Paths \ raced'
      PROVE  /\ Made(op'[v]) => op'[v].pair \in files'
             /\ \A c \in bindings' : c.pair # op'[v].pair
             /\ \A u \in Workers : Working(op'[u]) /\ op'[u].pair = op'[v].pair => u = v
  <2>1. Working(op[v]) /\ op'[v].pair = op[v].pair /\ Alone(op[v].pair)
    BY <1>2, <1>6 DEF Alone
  <2> QED BY <1>2, <1>3, <2>1 DEF Generated, Alone
<1> QED BY <1>1, <1>5, <1>6 DEF Generated, Alone

(* Going on without making a pair, and returning.                          *)
LEMMA GoingOn ==
  ASSUME TypeOK, Generated, NEW w \in Workers, op[w].pc \in Steps,
         op[w].pc \notin {"vlist", "vfile", "vsave"},
         files \subseteq files', bindings' = bindings, raced' = raced, NEW pc, Goto(w, pc),
         pc \notin {"config", "keygen"}, pc = "undoRow" => op[w].pc = "config",
         pc = "clean" => op[w].pc = "keygen",
         pc \in {"post", "save", "undoKey", "undoFiles"} =>
           \/ op[w].job \notin {"generate", "rsa"}
           \/ op[w].pc \in {"post", "save", "undoKey", "undoFiles"}
           \/ op[w].pc = "keygen" /\ op[w].pair \in files'
  PROVE  Generated'
<1>1. OnlyCall(w) /\ op'[w].pc = pc /\ op'[w].job = op[w].job /\ op'[w].pair = op[w].pair
  BY GotoPair
<1>2. Fits(op'[w]) BY <1>1 DEF Generated, Fits
<1>3. Working(op'[w]) => Working(op[w]) BY <1>1 DEF Working
<1>4. Made(op'[w]) => Made(op[w]) \/ op[w].pair \in files' BY <1>1 DEF Made, Working
<1> HIDE DEF Fits, Made, Working
<1> QED BY <1>1, <1>2, <1>3, <1>4, PairsStay

LEMMA Returning ==
  ASSUME TypeOK, Generated, NEW w \in Workers, Return(w, "idle") \/ Return(w, "ok"),
         files \subseteq files', bindings' = bindings, raced' = raced
  PROVE  Generated'
<1>1. OnlyCall(w) /\ Fits(op'[w]) /\ ~Working(op'[w]) BY ReturnPair
<1>2. ~Made(op'[w]) BY <1>1 DEF Made
<1> HIDE DEF Fits, Made, Working
<1> QED BY <1>1, <1>2, PairsStay

LEMMA StartsFit ==
  ASSUME TypeOK, Generated, NEW w \in Workers, Start(w) PROVE Generated'
<1> USE KeyBindingAssumption
<1>1. ASSUME NEW c, Becomes(w, c), Fits(c), ~Working(c), files' = files,
             bindings' = bindings, raced' = raced
      PROVE  Generated'
  <2>1. op'[w] = c /\ OnlyCall(w) BY <1>1, BecomesFacts
  <2>2. ~Made(c) BY <1>1 DEF Made
  <2> HIDE DEF Fits, Made, Working
  <2> QED BY <1>1, <2>1, <2>2, PairsStay
<1>2. CASE StartBind(w)
  <2>1. PICK r \in repos, k \in sshKeys : Becomes(w, Call("slot", "bind", r, KeyTarget[k], k))
    BY <1>2 DEF StartBind
  <2>2. Fits(Call("slot", "bind", r, KeyTarget[k], k))
    BY DEF Fits, Call, TypeOK
  <2>3. ~Working(Call("slot", "bind", r, KeyTarget[k], k)) BY DEF Working, Call
  <2> QED BY <1>1, <1>2, <2>1, <2>2, <2>3 DEF StartBind
<1>3. CASE StartGenerate(w)
  <2>1. PICK job \in {"generate", "rsa"}, r \in Repos, t \in Targets, p \in Paths :
          Becomes(w, Call("slot", job, r, t, p))
    BY <1>3 DEF StartGenerate
  <2>2. Fits(Call("slot", job, r, t, p)) BY DEF Fits, Call
  <2>3. ~Working(Call("slot", job, r, t, p)) BY DEF Working, Call
  <2> QED BY <1>1, <1>3, <2>1, <2>2, <2>3 DEF StartGenerate
<1>4. CASE StartVerify(w)
  <2> DEFINE C(b) == [Call("vlist", "verify", b.repo, b.target, b.pair)
                        EXCEPT !.row = b.id, !.deploy = b.deploy]
  <2>1. PICK b \in bindings : Becomes(w, C(b)) BY <1>4 DEF StartVerify
  <2>2. C(b).pc = "vlist" /\ C(b).job = "verify" BY DEF Call
  <2>3. Fits(C(b)) /\ ~Working(C(b)) BY <2>2 DEF Fits, Working
  <2> QED BY <1>1, <1>4, <2>1, <2>3 DEF StartVerify
<1> QED BY <1>2, <1>3, <1>4 DEF Start

(* A call that begins a pair sees no file there.  Unless an ssh-keygen is   *)
(* under way for the path -- which the history notes -- no row and no other *)
(* call has the pair.                                                       *)
LEMMA BeginningFits ==
  ASSUME TypeOK, Generated, NEW w \in Workers, GeneratePair(w) \/ SeeNoFiles(w)
  PROVE  Generated'
<1> DEFINE p == op[w].pair
<1>1. /\ op[w].pc = "pair" /\ p \notin files /\ op[w].job \in {"generate", "rsa"}
      /\ files \subseteq files' /\ bindings' = bindings /\ BeginPair(w)
      /\ op[w].pc \in Steps
  BY DEF GeneratePair, SeeNoFiles, Steps
<1>2. p \in Paths BY <1>1, KeyBindingAssumption DEF Generated, Fits, Steps
<1>3. /\ OnlyCall(w) /\ op'[w].job = op[w].job /\ op'[w].pair = p
      /\ \/ op'[w].pc = "post" /\ p \in files'
         \/ op'[w].pc = "keygen"
  <2>1. CASE Goto(w, "post") /\ p \in files' BY <1>1, <2>1, GotoPair
  <2>2. CASE Goto(w, "keygen") BY <1>1, <2>2, GotoPair
  <2> QED BY <2>1, <2>2 DEF GeneratePair, SeeNoFiles
<1>4. raced \subseteq raced' /\ (p \notin raced' => ~BesideKeygen(w))
  BY <1>1 DEF BeginPair
<1>5. \A v \in Workers : Fits(op'[v])
  <2>1. Fits(op'[w]) BY <1>1, <1>2, <1>3 DEF Fits
  <2> QED BY <1>3, <2>1 DEF Generated, OnlyCall
<1>6. \A q : Alone(q)' => Alone(q) BY <1>4 DEF Alone
<1>7. \A b \in bindings' : Alone(b.pair)' => b.pair \in files'
  BY <1>1, <1>6 DEF Generated, Alone
<1>8. ASSUME p \in Paths \ raced'
      PROVE  /\ \A b \in bindings : b.pair # p
             /\ \A v \in Workers \ {w} : ~(Working(op[v]) /\ op[v].pair = p)
  <2>1. \A b \in bindings : b.pair # p BY <1>1, <1>4, <1>8 DEF Generated, Alone
  <2>2. ASSUME NEW v \in Workers \ {w}, Working(op[v]), op[v].pair = p PROVE FALSE
    <3>1. CASE op[v].pc \in {"keygen", "clean"}
      BY <1>4, <1>8, <2>2, <3>1 DEF BesideKeygen, Alone
    <3>2. CASE Made(op[v]) BY <1>1, <1>4, <1>8, <2>2, <3>2 DEF Generated, Alone
    <3> QED BY <2>2, <3>1, <3>2 DEF Made
  <2> QED BY <2>1, <2>2
<1>9. Made(op'[w]) => p \in files' BY <1>3 DEF Made
<1>10. ASSUME NEW v \in Workers, Working(op'[v]), op'[v].pair \in Paths \ raced'
       PROVE  /\ Made(op'[v]) => op'[v].pair \in files'
              /\ \A b \in bindings' : b.pair # op'[v].pair
              /\ \A u \in Workers : Working(op'[u]) /\ op'[u].pair = op'[v].pair => u = v
  <2> HIDE DEF p, Working, Made
  <2>1. CASE v = w
    <3>1. op'[v].pair = p BY <1>3, <2>1
    <3>2. \A u \in Workers \ {w} : op'[u] = op[u] BY <1>3 DEF OnlyCall
    <3> QED BY <1>1, <1>8, <1>9, <1>10, <2>1, <3>1, <3>2 DEF Alone
  <2>2. CASE v # w
    <3>1. op'[v] = op[v] /\ \A u \in Workers \ {w} : op'[u] = op[u]
      BY <1>3, <2>2 DEF OnlyCall
    <3>2. op[v].pair # p BY <1>8, <1>10, <2>2, <3>1 DEF Alone
    <3>3. Working(op[v]) /\ Alone(op[v].pair) BY <1>4, <1>10, <3>1 DEF Alone
    <3>4. op'[w].pair = p BY <1>3
    <3>5. op[v].pair \in files => op[v].pair \in files' BY <1>1
    <3> QED BY <1>1, <3>1, <3>2, <3>3, <3>4, <3>5 DEF Generated, Alone
  <2> QED BY <2>1, <2>2
<1> QED BY <1>5, <1>7, <1>10 DEF Generated, Alone

(* Saving hands the pair over to a row: the call that made it returns.     *)
LEMMA SavingFits ==
  ASSUME TypeOK, Generated, NEW w \in Workers, SaveReplace(w) \/ SaveCreate(w)
  PROVE  Generated'
<1>1. op[w].pc = "save" /\ op[w].pc \in Steps /\ files' = files /\ raced' = raced
  BY DEF SaveReplace, SaveCreate, Steps
<1>2. \A c \in bindings' : c.pair = op[w].pair \/ \E b \in bindings : b.pair = c.pair
  BY DEF SaveReplace, SaveCreate, NewBinding
<1>3. \/ op[w].job \in {"generate", "rsa"} /\ op[w].pair \in Paths
      \/ op[w].job = "bind" /\ op[w].pair \in SshKeys
  BY <1>1 DEF Generated, Fits, Steps
<1>4. PICK id : AfterSave(w, id) BY DEF SaveReplace, SaveCreate
<1>5. \A q : Alone(q)' = Alone(q) BY <1>1 DEF Alone
<1>6. CASE op[w].job \in {"generate", "rsa"}
  <2>1. OnlyCall(w) /\ Fits(op'[w]) /\ ~Working(op'[w])
    BY <1>4, <1>6, ReturnPair DEF AfterSave, Generates
  <2>2. Made(op[w]) /\ Working(op[w]) BY <1>1, <1>6 DEF Made, Working
  <2>3. \A v \in Workers : Fits(op'[v]) BY <2>1 DEF Generated, OnlyCall
  <2>4. \A v \in Workers : Working(op'[v]) => v # w /\ Working(op[v]) /\ op'[v] = op[v]
    BY <2>1 DEF OnlyCall
  <2>5. \A v \in Workers : Working(op'[v]) /\ Alone(op[v].pair) => op[v].pair # op[w].pair
    <3> HIDE DEF Working, Alone
    <3> QED BY <2>2, <2>4 DEF Generated
  <2>6. \A c \in bindings' : Alone(c.pair) => c.pair \in files
    <3> HIDE DEF Working, Made, Alone
    <3> QED BY <1>2, <2>2 DEF Generated
  <2> HIDE DEF Fits, Made, Working, Alone
  <2> QED BY <1>1, <1>2, <1>5, <2>3, <2>4, <2>5, <2>6 DEF Generated
<1>7. CASE op[w].job = "bind"
  <2>1. PICK c : c = [op[w] EXCEPT !.pc = "config", !.row = id] OBVIOUS
  <2>2. op'[w] = c /\ OnlyCall(w) BY <1>4, <1>7, <2>1, BecomesFacts DEF AfterSave, Generates
  <2>3. op[w] \in Calls BY <1>1, RunningType
  <2>4. c.pc = "config" /\ c.job = "bind" /\ c.pair = op[w].pair
    BY <1>7, <2>1, <2>3 DEF Calls
  <2>5. Fits(c) /\ ~Working(c) BY <1>3, <1>7, <2>4 DEF Fits, Working
  <2>6. op[w].pair \notin Paths BY <1>3, <1>7, KeyBindingAssumption
  <2>7. \A v \in Workers : Fits(op'[v]) BY <2>2, <2>5 DEF Generated, OnlyCall
  <2>8. \A v \in Workers : Working(op'[v]) => v # w /\ Working(op[v]) /\ op'[v] = op[v]
    BY <2>2, <2>5 DEF OnlyCall
  <2>9. \A v \in Workers : Working(op[v]) => op[v].pair \in Paths
    <3> HIDE DEF Fits, Working
    <3> QED BY WorksOnPath DEF Generated
  <2>10. ~Alone(op[w].pair) BY <2>6 DEF Alone
  <2> HIDE DEF Fits, Made, Working, Alone
  <2> QED BY <1>1, <1>2, <1>5, <2>6, <2>7, <2>8, <2>9, <2>10 DEF Generated
<1> QED BY <1>3, <1>6, <1>7

(* What is kept of the files when a pair is taken back or cleaned up.      *)
RowsKeepFiles == \A b \in bindings : Alone(b.pair) /\ b.pair \in files => b.pair \in files'

(* Taking a generated pair back, or cleaning up after ssh-keygen, removes  *)
(* a file no row and no other call knows, where nobody raced.              *)
LEMMA UndoingFits ==
  ASSUME TypeOK, Generated, NEW w \in Workers, UndoFiles(w) \/ CleanKeygen(w)
  PROVE  Generated' /\ RowsKeepFiles
<1>1. /\ op[w].pc \in {"undoFiles", "clean"} /\ op[w].pc \in Steps
      /\ bindings' = bindings /\ raced' = raced
      /\ files \ {op[w].pair} \subseteq files'
  BY DEF UndoFiles, CleanKeygen, Steps
<1>2. OnlyCall(w) /\ Fits(op'[w]) /\ ~Working(op'[w])
  BY ReturnPair DEF UndoFiles, CleanKeygen
<1>3. \/ Working(op[w])
      \/ op[w].pair \in SshKeys /\ op[w].pair \notin Paths
  BY <1>1, KeyBindingAssumption DEF Generated, Fits, Steps, Working
<1>4. \A v \in Workers : Fits(op'[v]) BY <1>2 DEF Generated, OnlyCall
<1>5. \A v \in Workers : Working(op'[v]) => v # w /\ Working(op[v]) /\ op'[v] = op[v]
  BY <1>2 DEF OnlyCall
<1>6. \A q : Alone(q)' = Alone(q) BY <1>1 DEF Alone
<1>7. \A b \in bindings : Alone(b.pair) => b.pair # op[w].pair
  <2>1. CASE Working(op[w])
    <3> HIDE DEF Working, Alone
    <3> QED BY <2>1 DEF Generated
  <2>2. CASE op[w].pair \notin Paths BY <2>2 DEF Alone
  <2> QED BY <1>3, <2>1, <2>2
<1>8. \A v \in Workers : Working(op'[v]) /\ Alone(op[v].pair) => op[v].pair # op[w].pair
  <2>1. CASE Working(op[w])
    <3> HIDE DEF Working, Alone
    <3> QED BY <1>5, <2>1 DEF Generated
  <2>2. CASE op[w].pair \notin Paths BY <2>2 DEF Alone
  <2> QED BY <1>3, <2>1, <2>2
<1> HIDE DEF Fits, Made, Working, Alone
<1>9. RowsKeepFiles BY <1>1, <1>7 DEF RowsKeepFiles
<1>10. \A b \in bindings' : Alone(b.pair)' => b.pair \in files'
  BY <1>1, <1>6, <1>7 DEF Generated
<1> QED BY <1>1, <1>4, <1>5, <1>6, <1>8, <1>9, <1>10 DEF Generated

(* The other steps of a call neither make, save nor remove a pair.         *)
LEMMA AdvanceFits ==
  ASSUME TypeOK, Generated, NEW w \in Workers, Advance(w) PROVE Generated'
<1>1. CASE GiveUp(w) BY <1>1, Returning DEF GiveUp
<1>2. CASE ReadSlot(w)
  <2>0. op[w].pc = "slot" /\ op[w].pc \in Steps BY <1>2 DEF ReadSlot, Steps
  <2>1. CASE Goto(w, "pair") BY <1>2, <2>0, <2>1, GoingOn DEF ReadSlot
  <2>2. ASSUME NEW b \in bindings,
               Becomes(w, [op[w] EXCEPT !.pc = "check", !.stale = b.id, !.staleKey = b.deploy])
        PROVE  Generated'
    <3>1. PICK c : c = [op[w] EXCEPT !.pc = "check", !.stale = b.id, !.staleKey = b.deploy]
      OBVIOUS
    <3>2. op'[w] = c /\ OnlyCall(w) BY <2>2, <3>1, BecomesFacts
    <3>3. op[w] \in Calls BY <2>0, RunningType
    <3>4. c.pc = "check" /\ c.job = op[w].job /\ c.pair = op[w].pair BY <3>1, <3>3 DEF Calls
    <3>5. Fits(c) /\ ~Working(c) BY <2>0, <3>4 DEF Generated, Fits, Working
    <3>6. files' = files /\ bindings' = bindings /\ raced' = raced BY <1>2 DEF ReadSlot
    <3>7. ~Made(c) BY <3>5 DEF Made
    <3> HIDE DEF Fits, Made, Working
    <3> QED BY <3>2, <3>5, <3>6, <3>7, PairsStay
  <2> QED BY <1>2, <2>1, <2>2 DEF ReadSlot
<1>3. CASE CheckRemote(w)
  <2>0. op[w].pc = "check" /\ op[w].pc \in Steps BY <1>3 DEF CheckRemote, Steps
  <2>1. CASE Return(w, "idle") BY <1>3, <2>1, Returning DEF CheckRemote
  <2>2. ASSUME NEW f, Becomes(w, [op[w] EXCEPT !.pc = "pair", !.whole = f])
        PROVE  Generated'
    <3>1. PICK c : c = [op[w] EXCEPT !.pc = "pair", !.whole = f] OBVIOUS
    <3>2. op'[w] = c /\ OnlyCall(w) BY <2>2, <3>1, BecomesFacts
    <3>3. op[w] \in Calls BY <2>0, RunningType
    <3>4. c.pc = "pair" /\ c.job = op[w].job /\ c.pair = op[w].pair BY <3>1, <3>3 DEF Calls
    <3>5. Fits(c) /\ ~Working(c) BY <2>0, <3>4 DEF Generated, Fits, Working
    <3>6. files' = files /\ bindings' = bindings /\ raced' = raced BY <1>3 DEF CheckRemote
    <3>7. ~Made(c) BY <3>5 DEF Made
    <3> HIDE DEF Fits, Made, Working
    <3> QED BY <3>2, <3>5, <3>6, <3>7, PairsStay
  <2> QED BY <1>3, <2>1, <2>2 DEF CheckRemote
<1>4. CASE ReadPair(w) BY <1>4, GoingOn DEF ReadPair, Steps
<1>5. CASE GenerateRefused(w) \/ KeygenUnread(w)
  BY <1>5, Returning DEF GenerateRefused, KeygenUnread
<1>15. CASE Keygen(w) BY <1>15, GoingOn DEF Keygen, Steps
<1>16. CASE KeygenFailed(w) BY <1>16, GoingOn DEF KeygenFailed, Steps
<1>6. CASE PostCreated(w)
  <2>0. op[w].pc = "post" /\ op[w].pc \in Steps BY <1>6 DEF PostCreated, Steps
  <2>1. PICK c : c = [op[w] EXCEPT !.pc = "save", !.deploy = nextKey] OBVIOUS
  <2>2. op'[w] = c /\ OnlyCall(w) BY <1>6, <2>1, BecomesFacts DEF PostCreated
  <2>3. op[w] \in Calls BY <2>0, RunningType
  <2>4. c.pc = "save" /\ c.job = op[w].job /\ c.pair = op[w].pair BY <2>1, <2>3 DEF Calls
  <2>5. Fits(c) /\ (Working(c) => Working(op[w])) /\ (Made(c) => Made(op[w]))
    BY <2>0, <2>4 DEF Generated, Fits, Made, Working
  <2>6. files' = files /\ bindings' = bindings /\ raced' = raced BY <1>6 DEF PostCreated
  <2> HIDE DEF Fits, Made, Working
  <2> QED BY <2>2, <2>4, <2>5, <2>6, PairsStay
<1>7. CASE PostReplyLost(w) \/ PostRefused(w)
  BY <1>7, GoingOn, Returning DEF PostReplyLost, PostRefused, AfterFailedPost, Generates, Steps
<1>8. CASE SaveFailed(w) \/ ConfigWritten(w) \/ ConfigFailed(w)
  BY <1>8, GoingOn, Returning DEF SaveFailed, ConfigWritten, ConfigFailed, Steps
<1>9. CASE UndoKey(w) \/ UndoKeyFailed(w)
  BY <1>9, GoingOn, Returning DEF UndoKey, UndoKeyFailed, AfterUndoKey, Generates, Steps
<1>10. CASE UndoRow(w)
  <2>0. op[w].pc = "undoRow" /\ op[w].pc \in Steps BY <1>10 DEF UndoRow, Steps
  <2>1. OnlyCall(w) /\ op'[w].pc = "undoKey" /\ op'[w].job = op[w].job
        /\ op'[w].pair = op[w].pair
    BY <1>10, <2>0, GotoPair DEF UndoRow
  <2>2. op[w].job = "bind" BY <2>0 DEF Generated, Fits
  <2>3. Fits(op'[w]) /\ ~Working(op'[w]) BY <2>0, <2>1, <2>2 DEF Generated, Fits, Working
  <2>4. /\ files' = files /\ raced' = raced
        /\ \A c \in bindings' : c \in bindings
    BY <1>10 DEF UndoRow
  <2>5. ~Made(op'[w]) BY <2>3 DEF Made
  <2> HIDE DEF Fits, Made, Working
  <2> QED BY <2>1, <2>3, <2>4, <2>5, PairsStay
<1>11. ASSUME NEW pc \in {"vfile", "vsave"}, NEW s, op[w].pc \in Steps,
              Becomes(w, [op[w] EXCEPT !.pc = pc, !.verdict = s]),
              files' = files, bindings' = bindings, raced' = raced
       PROVE  Generated'
  <2>1. PICK c : c = [op[w] EXCEPT !.pc = pc, !.verdict = s] OBVIOUS
  <2>2. op'[w] = c /\ OnlyCall(w) BY <1>11, <2>1, BecomesFacts
  <2>3. op[w] \in Calls BY <1>11, RunningType
  <2>4. c.pc = pc BY <2>1, <2>3 DEF Calls
  <2>5. Fits(c) /\ ~Working(c) BY <2>4 DEF Fits, Working
  <2>6. ~Made(c) BY <2>5 DEF Made
  <2> HIDE DEF Fits, Made, Working
  <2> QED BY <1>11, <2>2, <2>5, <2>6, PairsStay
<1>12. CASE VerifyList(w)
  <2>1. op[w].pc \in Steps BY <1>12 DEF VerifyList, Steps
  <2>2. PICK s : Becomes(w, [op[w] EXCEPT !.pc = "vfile", !.verdict = s])
    BY <1>12 DEF VerifyList
  <2> QED BY <1>11, <1>12, <2>1, <2>2 DEF VerifyList
<1>14. CASE VerifyFile(w)
  <2>1. op[w].pc \in Steps BY <1>14 DEF VerifyFile, Steps
  <2>2. PICK s : Becomes(w, [op[w] EXCEPT !.pc = "vsave", !.verdict = s])
    BY <1>14 DEF VerifyFile
  <2> QED BY <1>11, <1>14, <2>1, <2>2 DEF VerifyFile
<1>13. CASE VerifySave(w)
  <2>1. OnlyCall(w) /\ Fits(op'[w]) /\ ~Working(op'[w]) BY <1>13, ReturnPair DEF VerifySave
  <2>2. \A b \in bindings : [b EXCEPT !.status = op[w].verdict].pair = b.pair
    BY DEF TypeOK, Binding
  <2>3. \A c \in bindings' : \E b \in bindings : b.pair = c.pair
    BY <1>13, <2>2 DEF VerifySave
  <2>4. files' = files /\ raced' = raced BY <1>13 DEF VerifySave
  <2>5. ~Made(op'[w]) BY <2>1 DEF Made
  <2> HIDE DEF Fits, Made, Working
  <2> QED BY <2>1, <2>3, <2>4, <2>5, PairsStay
<1> QED BY <1>1, <1>2, <1>3, <1>4, <1>5, <1>6, <1>7, <1>8, <1>9, <1>10, <1>11, <1>12,
           <1>13, <1>14, <1>15, <1>16, BeginningFits, SavingFits, UndoingFits DEF Advance

(* Nothing else removes a file under a path of a call; the end of the      *)
(* process leaves its files to nobody.                                     *)
LEMMA OthersFit ==
  ASSUME TypeOK, Generated, Environment
  PROVE  Generated' /\ RowsKeepFiles
<1> USE KeyBindingAssumption
<1>1. ASSUME op' = op, bindings' \subseteq bindings, raced' = raced,
             \A p \in Paths : p \in files => p \in files'
      PROVE  Generated'
  <2>1. \A w \in Workers : Working(op[w]) => op[w].pair \in Paths
    <3> HIDE DEF Fits, Working
    <3> QED BY WorksOnPath DEF Generated
  <2>2. \A p : Alone(p)' = Alone(p) /\ (Alone(p) => p \in Paths) BY <1>1 DEF Alone
  <2> HIDE DEF Fits, Made, Working, Alone
  <2> QED BY <1>1, <2>1, <2>2 DEF Generated
<1>2. CASE SignOut BY <1>1, <1>2 DEF SignOut, RowsKeepFiles
<1>3. CASE Crash
  <2>1. \A w \in Workers : op'[w].pc = "idle" BY <1>3 DEF Crash, Returned, Call
  <2>2. \A w \in Workers : Fits(op'[w]) /\ ~Working(op'[w]) BY <2>1 DEF Fits, Working, Steps
  <2>3. files \subseteq files' /\ bindings' = bindings /\ raced' = raced BY <1>3 DEF Crash
  <2>4. \A p : Alone(p)' = Alone(p) BY <2>3 DEF Alone
  <2> HIDE DEF Fits, Made, Working, Alone
  <2> QED BY <2>2, <2>3, <2>4 DEF Generated, RowsKeepFiles
<1>4. ASSUME NEW t \in Targets, DeleteTarget(t)
      PROVE  Generated' /\ RowsKeepFiles
  BY <1>1, <1>4 DEF DeleteTarget, RowsKeepFiles
<1>5. ASSUME NEW k \in SshKeys, DeleteSshKey(k)
      PROVE  Generated' /\ RowsKeepFiles
  <2>1. /\ op' = op /\ bindings' = bindings /\ raced' = raced
        /\ files' \in {files, files \ {k}} /\ k \notin Paths
    BY <1>5 DEF DeleteSshKey
  <2>2. \A p \in Paths : p \in files => p \in files' BY <2>1
  <2> QED BY <1>1, <2>1, <2>2 DEF RowsKeepFiles, Alone
<1>6. ASSUME NEW k \in remote, UserDeletesDeployKey(k)
      PROVE  Generated' /\ RowsKeepFiles
  BY <1>1, <1>6 DEF UserDeletesDeployKey, RowsKeepFiles
<1> QED BY <1>2, <1>3, <1>4, <1>5, <1>6 DEF Environment

(* A row keeps its generated files in every step.                          *)
FilesStay ==
  \A b \in bindings \cap bindings' :
    b.pair \in Paths \ raced /\ b.pair \in files => b.pair \in files'

LEMMA FilesStep == TypeOK /\ Generated /\ [Next]_vars => Generated' /\ FilesStay
<1> SUFFICES ASSUME TypeOK, Generated, [Next]_vars PROVE Generated' /\ FilesStay
  OBVIOUS
<1>0. RowsKeepFiles => FilesStay BY DEF RowsKeepFiles, FilesStay, Alone
<1>1. CASE UNCHANGED vars BY <1>1 DEF vars, Generated, FilesStay, Alone
<1>2. ASSUME NEW w \in Workers, Start(w) PROVE Generated' /\ FilesStay
  <2>1. files' = files BY <1>2 DEF Start, StartBind, StartGenerate, StartVerify
  <2> QED BY <1>2, <2>1, StartsFit DEF FilesStay
<1>3. ASSUME NEW w \in Workers, Advance(w) PROVE Generated' /\ FilesStay
  <2>1. CASE UndoFiles(w) \/ CleanKeygen(w) BY <1>0, <2>1, UndoingFits
  <2>2. CASE ~(UndoFiles(w) \/ CleanKeygen(w))
    <3>1. files \subseteq files'
      BY <1>3, <2>2 DEF Advance, GiveUp, ReadSlot, CheckRemote, ReadPair, GeneratePair,
         GenerateRefused, SeeNoFiles, Keygen, KeygenUnread, KeygenFailed, PostCreated,
         PostReplyLost, PostRefused, SaveReplace, SaveCreate, SaveFailed, ConfigWritten,
         ConfigFailed, UndoRow, UndoKey, UndoKeyFailed, VerifyList, VerifyFile, VerifySave
    <3> QED BY <1>3, <3>1, AdvanceFits DEF FilesStay
  <2> QED BY <2>1, <2>2
<1>4. CASE Environment BY <1>0, <1>4, OthersFit
<1> QED BY <1>1, <1>2, <1>3, <1>4 DEF Next

(* No step removes the key files of a saved generated binding, unless a    *)
(* pair was begun at its path beside another call's ssh-keygen: whatever   *)
(* calls for the path are refused, rolled back or cleaned up after.        *)
THEOREM SavedFilesStay == Spec => GeneratedFilesKept
<1>1. Init => Generated
  BY KeyBindingAssumption DEF Init, Generated, Fits, Made, Working, Alone, Returned, Call, Steps
<1>2. TypeOK /\ Generated /\ [Next]_vars => [FilesStay]_vars BY FilesStep
<1> QED BY <1>1, <1>2, FilesStep, TypeCorrect, PTL
        DEF Spec, GeneratedFilesKept, FilesStay
-----------------------------------------------------------------------------
(* KeyBinding implements DeployKeyLife.  The life of a deploy key is read  *)
(* off four facts; a step that makes none of the first three true of a key *)
(* can only lose it.                                                       *)
Keys == 1..MaxDeployKeys

Uploaded(d) == ~(d >= nextKey)
InRow(d) == \E b \in bindings : b.deploy = d
Held(w, d) == op[w].deploy = d /\ op[w].pc \in {"save", "config", "undoRow", "undoKey"}
InCall(d) == \E w \in Workers : Held(w, d)

LEMMA LifeIs ==
  ASSUME NEW d
  PROVE  LifeOf(d) = IF ~Uploaded(d) THEN "unborn" ELSE IF InRow(d) THEN "bound"
                     ELSE IF InCall(d) THEN "held" ELSE IF d \in RemoteIds THEN "stray" ELSE "gone"
BY DEF LifeOf, Uploaded, InRow, InCall, Held

LEMMA LifeWillBe ==
  ASSUME NEW d
  PROVE  LifeOf(d)' = IF ~Uploaded(d)' THEN "unborn" ELSE IF InRow(d)' THEN "bound"
                      ELSE IF InCall(d)' THEN "held"
                      ELSE IF (d \in RemoteIds)' THEN "stray" ELSE "gone"
BY DEF LifeOf, Uploaded, InRow, InCall, Held

LEMMA LifeInLives == ASSUME NEW d PROVE LifeOf(d) \in Life!Lives /\ LifeOf(d)' \in Life!Lives
BY LifeIs, LifeWillBe DEF Life!Lives

(* What a step may do to a key it neither uploads nor binds.               *)
OnlyLoses(d) ==
  /\ Uploaded(d)' = Uploaded(d)
  /\ InRow(d)' => InRow(d)
  /\ InCall(d)' => InCall(d) \/ InRow(d)
  /\ (d \in RemoteIds)' => d \in RemoteIds

LEMMA Losing ==
  ASSUME NEW d, OnlyLoses(d)
  PROVE  LifeOf(d)' = LifeOf(d) \/ <<LifeOf(d), LifeOf(d)'>> \in Life!Losses
<1>1. CASE ~Uploaded(d)
  BY <1>1, LifeIs, LifeWillBe DEF OnlyLoses
<1>2. CASE Uploaded(d) /\ InRow(d)
  BY <1>2, LifeIs, LifeWillBe DEF OnlyLoses, Life!Losses
<1>3. CASE Uploaded(d) /\ ~InRow(d) /\ InCall(d)
  BY <1>3, LifeIs, LifeWillBe DEF OnlyLoses, Life!Losses
<1>4. CASE Uploaded(d) /\ ~InRow(d) /\ ~InCall(d)
  BY <1>4, LifeIs, LifeWillBe DEF OnlyLoses, Life!Losses
<1> QED BY <1>1, <1>2, <1>3, <1>4

(* A step that only loses keys is a step of DeployKeyLife.                 *)
LEMMA LosingLife == ASSUME \A d \in Keys : OnlyLoses(d) PROVE Life!Next
<1>1. Life!Lose BY LifeInLives, Losing DEF Life!Lose, Life!Loses, Keys
<1> QED BY <1>1 DEF Life!Next

(* So is one that puts the key of one call into a row and loses others.    *)
LEMMA BindingLife ==
  ASSUME NEW k \in Keys, LifeOf(k) = "held", LifeOf(k)' = "bound",
         \A d \in Keys \ {k} : OnlyLoses(d)
  PROVE  Life!Next
<1>1. Life!Bind(k) BY LifeInLives, Losing DEF Life!Bind, Life!Loses, Keys
<1> QED BY <1>1 DEF Life!Next, Keys

(* And one that uploads a key and changes nothing else.                    *)
LEMMA UploadLife ==
  ASSUME NEW k \in Keys, LifeOf(k) = "unborn", LifeOf(k)' \in {"held", "stray"},
         \A d \in Keys \ {k} : LifeOf(d)' = LifeOf(d)
  PROVE  Life!Next
<1>1. Life!Upload(k) BY DEF Life!Upload, Keys
<1> QED BY <1>1 DEF Life!Next, Keys
-----------------------------------------------------------------------------
(* A step that moves one call, and lets go of keys or keeps those it holds.*)
LEMMA MovingLoses ==
  ASSUME NEW w \in Workers, OnlyCall(w), nextKey' = nextKey, remote' \subseteq remote,
         NEW d, InRow(d)' => InRow(d), Held(w, d)' => Held(w, d) \/ InRow(d)
  PROVE  OnlyLoses(d)
<1>1. InCall(d)' => InCall(d) \/ InRow(d) BY DEF InCall, Held, OnlyCall
<1> QED BY <1>1 DEF OnlyLoses, Uploaded, RemoteIds

(* Starting a call, and every step of one but the four that post or save.  *)
LEMMA StartLife ==
  ASSUME TypeOK, NEW w \in Workers, Start(w) PROVE Life!Next
<1>1. nextKey' = nextKey /\ remote' = remote /\ bindings' = bindings
  BY DEF Start, StartBind, StartGenerate, StartVerify, github
<1>2. OnlyCall(w) /\ op'[w].pc \in {"slot", "vlist"}
  <2>1. CASE StartBind(w)
    <3>1. PICK r \in repos, k \in sshKeys :
            Becomes(w, Call("slot", "bind", r, KeyTarget[k], k))
      BY <2>1 DEF StartBind
    <3>2. op'[w] = Call("slot", "bind", r, KeyTarget[k], k) /\ OnlyCall(w)
      BY <3>1, BecomesFacts
    <3> QED BY <3>2 DEF Call
  <2>2. CASE StartGenerate(w)
    <3>1. PICK job \in {"generate", "rsa"}, r \in Repos, t \in Targets, p \in Paths :
            Becomes(w, Call("slot", job, r, t, p))
      BY <2>2 DEF StartGenerate
    <3>2. op'[w] = Call("slot", job, r, t, p) /\ OnlyCall(w)
      BY <3>1, BecomesFacts
    <3> QED BY <3>2 DEF Call
  <2>3. CASE StartVerify(w)
    <3>1. PICK b \in bindings :
            Becomes(w, [Call("vlist", "verify", b.repo, b.target, b.pair)
                          EXCEPT !.row = b.id, !.deploy = b.deploy])
      BY <2>3 DEF StartVerify
    <3> DEFINE c == Call("vlist", "verify", b.repo, b.target, b.pair)
    <3>2. c \in Calls /\ c.pc = "vlist"
      BY CallType DEF Call, TypeOK, Binding, Steps, AllJobs
    <3> HIDE DEF c
    <3>3. op'[w] = [c EXCEPT !.row = b.id, !.deploy = b.deploy] /\ OnlyCall(w)
      BY <3>1, BecomesFacts DEF c
    <3> QED BY <3>2, <3>3 DEF Calls
  <2> QED BY <2>1, <2>2, <2>3 DEF Start
<1>3. \A d : Held(w, d)' => FALSE BY <1>2 DEF Held
<1>4. \A d \in Keys : OnlyLoses(d) BY <1>1, <1>2, <1>3, MovingLoses DEF InRow
<1> QED BY <1>4, LosingLife

LEMMA QuietLife ==
  ASSUME TypeOK, NEW w \in Workers, Quiet(w) \/ UndoRow(w) \/ UndoKey(w) \/ UndoKeyFailed(w)
  PROVE  Life!Next
<1> USE DEF Steps
<1>1. nextKey' = nextKey /\ remote' \subseteq remote /\ bindings' \subseteq bindings
  BY DEF Quiet, GiveUp, ReadSlot, CheckRemote, ReadPair, GeneratePair,
         GenerateRefused, SeeNoFiles, Keygen, KeygenUnread, KeygenFailed, CleanKeygen,
         PostRefused, SaveFailed, ConfigWritten, ConfigFailed, UndoFiles,
         VerifyList, VerifyFile, UndoRow, UndoKey, UndoKeyFailed, github
<1>2. ASSUME NEW pc \in {"idle", "ok"}, Return(w, pc)
      PROVE  OnlyCall(w) /\ \A d : Held(w, d)' => Held(w, d)
  BY <1>2, ReturnFacts DEF Held
<1>3. ASSUME op[w].pc \in Steps, NEW pc \in Steps, Goto(w, pc),
             pc \in {"save", "config", "undoRow", "undoKey"} =>
               op[w].pc \in {"save", "config", "undoRow", "undoKey"}
      PROVE  OnlyCall(w) /\ \A d : Held(w, d)' => Held(w, d)
  BY <1>3, GotoFacts DEF Held
<1>4. OnlyCall(w) /\ \A d : Held(w, d)' => Held(w, d)
  <2>1. CASE GiveUp(w) BY <2>1, <1>2 DEF GiveUp
  <2>2. CASE ReadSlot(w)
    <3>1. ASSUME NEW b \in bindings,
                 Becomes(w, [op[w] EXCEPT !.pc = "check", !.stale = b.id, !.staleKey = b.deploy])
          PROVE  OnlyCall(w) /\ op'[w].pc = "check"
      <4>1. op[w] \in Calls BY <2>2, RunningType DEF ReadSlot
      <4>2. /\ op'[w] = [op[w] EXCEPT !.pc = "check", !.stale = b.id, !.staleKey = b.deploy]
            /\ OnlyCall(w)
        BY <3>1, BecomesFacts
      <4> QED BY <4>1, <4>2 DEF Calls
    <3> QED BY <2>2, <3>1, <1>3 DEF ReadSlot, Held
  <2>3. CASE CheckRemote(w)
    <3>1. ASSUME NEW f, Becomes(w, [op[w] EXCEPT !.pc = "pair", !.whole = f])
          PROVE  OnlyCall(w) /\ op'[w].pc = "pair"
      <4>1. op[w] \in Calls BY <2>3, RunningType DEF CheckRemote
      <4>2. op'[w] = [op[w] EXCEPT !.pc = "pair", !.whole = f] /\ OnlyCall(w)
        BY <3>1, BecomesFacts
      <4> QED BY <4>1, <4>2 DEF Calls
    <3> QED BY <2>3, <3>1, <1>2 DEF CheckRemote, Held
  <2>4. CASE ReadPair(w) BY <2>4, <1>3 DEF ReadPair
  <2>5. CASE GeneratePair(w) BY <2>5, <1>3 DEF GeneratePair
  <2>6. CASE SeeNoFiles(w) \/ Keygen(w) \/ KeygenUnread(w) \/ KeygenFailed(w) \/ CleanKeygen(w)
    BY <2>6, <1>2, <1>3 DEF SeeNoFiles, Keygen, KeygenUnread, KeygenFailed, CleanKeygen
  <2>7. CASE GenerateRefused(w) BY <2>7, <1>2 DEF GenerateRefused
  <2>8. CASE PostRefused(w) BY <2>8, <1>2, <1>3 DEF PostRefused, AfterFailedPost
  <2>9. CASE SaveFailed(w) BY <2>9, <1>3 DEF SaveFailed
  <2>10. CASE ConfigWritten(w) BY <2>10, <1>2 DEF ConfigWritten
  <2>11. CASE ConfigFailed(w) BY <2>11, <1>3 DEF ConfigFailed
  <2>12. CASE UndoFiles(w) BY <2>12, <1>2 DEF UndoFiles
  <2>13. CASE VerifyList(w) \/ VerifyFile(w)
    <3>1. op[w] \in Calls BY <2>13, RunningType DEF VerifyList, VerifyFile
    <3>2. ASSUME NEW pc \in {"vfile", "vsave"}, NEW s,
                 Becomes(w, [op[w] EXCEPT !.pc = pc, !.verdict = s])
          PROVE  OnlyCall(w) /\ op'[w].pc \in {"vfile", "vsave"}
      <4>1. op'[w] = [op[w] EXCEPT !.pc = pc, !.verdict = s] /\ OnlyCall(w)
        BY <3>2, BecomesFacts
      <4> QED BY <3>1, <4>1 DEF Calls
    <3>3. OnlyCall(w) /\ op'[w].pc \in {"vfile", "vsave"}
      BY <2>13, <3>2 DEF VerifyList, VerifyFile
    <3> QED BY <3>3 DEF Held
  <2>14. CASE UndoRow(w) BY <2>14, <1>3 DEF UndoRow
  <2>15. CASE UndoKey(w) BY <2>15, <1>2, <1>3 DEF UndoKey, AfterUndoKey
  <2>16. CASE UndoKeyFailed(w) BY <2>16, <1>2, <1>3 DEF UndoKeyFailed, AfterUndoKey
  <2> QED BY <2>1, <2>2, <2>3, <2>4, <2>5, <2>6, <2>7, <2>8, <2>9, <2>10, <2>11, <2>12,
             <2>13, <2>14, <2>15, <2>16 DEF Quiet
<1>5. \A d \in Keys : OnlyLoses(d) BY <1>1, <1>4, MovingLoses DEF InRow
<1> QED BY <1>5, LosingLife

(* A verdict is written into rows, whose deploy keys it leaves.            *)
LEMMA VerdictLife ==
  ASSUME TypeOK, NEW w \in Workers, VerifySave(w) PROVE Life!Next
<1>1. nextKey' = nextKey /\ remote' = remote BY DEF VerifySave, github
<1>2. OnlyCall(w) /\ \A d : ~Held(w, d)'
  BY ReturnFacts DEF VerifySave, Held
<1>3. \A c \in bindings' : \E b \in bindings : b.deploy = c.deploy
  BY DEF VerifySave, TypeOK, Binding
<1>4. \A d \in Keys : OnlyLoses(d) BY <1>1, <1>2, <1>3, MovingLoses DEF InRow
<1> QED BY <1>4, LosingLife

(* The key that GitHub has just created is nobody else's.                  *)
LEMMA PostLife ==
  ASSUME TypeOK, Safe, NEW w \in Workers, PostCreated(w) \/ PostReplyLost(w) PROVE Life!Next
<1>1. PICK k \in Keys : k = nextKey
  BY DEF PostCreated, PostReplyLost, TypeOK, Keys
<1>2. /\ nextKey' = nextKey + 1 /\ bindings' = bindings /\ nextKey \in Nat
      /\ remote' = remote \cup {Created(w)} /\ Created(w).id = nextKey
  BY DEF PostCreated, PostReplyLost, TypeOK, Created
<1>3. op[w].pc = "post" /\ op[w].pc \in Steps
  BY DEF PostCreated, PostReplyLost, Steps
<1>4. \A b \in bindings : b.deploy \in Nat /\ b.deploy < nextKey
  BY DEF Safe, IdsAreFresh, TypeOK, Binding
<1>5. OnlyCall(w) /\ \A d : Held(w, d)' => d = nextKey
  <2>1. CASE PostCreated(w)
    <3>1. op[w] \in Calls BY <1>3, RunningType
    <3>2. op'[w] = [op[w] EXCEPT !.pc = "save", !.deploy = nextKey] /\ OnlyCall(w)
      BY <2>1, BecomesFacts DEF PostCreated
    <3>3. op'[w].deploy = nextKey BY <3>1, <3>2 DEF Calls
    <3> QED BY <3>2, <3>3 DEF Held
  <2>2. CASE PostReplyLost(w)
    <3>1. OnlyCall(w) /\ op'[w].pc \in {"idle", "undoFiles"}
      BY <2>2, <1>3, GotoFacts, ReturnFacts DEF PostReplyLost, AfterFailedPost
    <3> QED BY <3>1 DEF Held
  <2> QED BY <2>1, <2>2
<1>6. \A d : ~Held(w, d) BY <1>3 DEF Held
<1>7. ASSUME NEW d \in Keys \ {k} PROVE LifeOf(d)' = LifeOf(d)
  <2>1. Uploaded(d)' = Uploaded(d) BY <1>1, <1>2, <1>7 DEF Uploaded, Keys
  <2>2. InRow(d)' = InRow(d) BY <1>2 DEF InRow
  <2>3. InCall(d)' = InCall(d) BY <1>1, <1>5, <1>6, <1>7 DEF InCall, Held, OnlyCall
  <2>4. (d \in RemoteIds)' = (d \in RemoteIds) BY <1>1, <1>2, <1>7 DEF RemoteIds
  <2> QED BY <2>1, <2>2, <2>3, <2>4, LifeIs, LifeWillBe
<1>8. LifeOf(k) = "unborn"
  <2>1. ~Uploaded(k) BY <1>1, <1>2 DEF Uploaded
  <2> QED BY <2>1, LifeIs
<1>9. LifeOf(k)' \in {"held", "stray"}
  <2>1. Uploaded(k)' BY <1>1, <1>2 DEF Uploaded
  <2>2. ~InRow(k)' BY <1>1, <1>2, <1>4 DEF InRow
  <2>3. (k \in RemoteIds)'
    <3>1. Created(w) \in remote' /\ Created(w).id = k BY <1>1, <1>2
    <3> QED BY <3>1 DEF RemoteIds
  <2> QED BY <2>1, <2>2, <2>3, LifeWillBe
<1> QED BY <1>7, <1>8, <1>9, UploadLife

(* Saving puts the key of the call into a row; what the row had is lost.   *)
LEMMA SaveLife ==
  ASSUME TypeOK, Safe, NEW w \in Workers, SaveReplace(w) \/ SaveCreate(w) PROVE Life!Next
<1>1. /\ remote' = remote /\ nextKey' = nextKey /\ nextKey \in Nat
      /\ op[w].pc = "save" /\ op[w].pc \in Steps
  BY DEF SaveReplace, SaveCreate, github, Steps, TypeOK
<1> DEFINE k == op[w].deploy
<1>2. /\ k \in Nat /\ k < nextKey /\ \A b \in bindings : b.deploy # k
  BY <1>1, CallFacts DEF Safe, IdsAreFresh, NoSharedDeployKey
<1>3. OnlyCall(w) /\ \A d : Held(w, d)' => d = k
  <2>1. ASSUME NEW id, AfterSave(w, id) PROVE OnlyCall(w) /\ \A d : Held(w, d)' => d = k
    <3>1. CASE Return(w, "ok")
      <4>1. OnlyCall(w) /\ op'[w].pc = "ok" BY <3>1, ReturnFacts
      <4> QED BY <4>1 DEF Held
    <3>2. CASE Becomes(w, [op[w] EXCEPT !.pc = "config", !.row = id])
      <4>1. op[w] \in Calls BY <1>1, RunningType
      <4>2. op'[w] = [op[w] EXCEPT !.pc = "config", !.row = id] /\ OnlyCall(w)
        BY <3>2, BecomesFacts
      <4>3. op'[w].deploy = k BY <4>1, <4>2 DEF Calls
      <4> QED BY <4>2, <4>3 DEF Held
    <3> QED BY <2>1, <3>1, <3>2 DEF AfterSave
  <2> QED BY <2>1 DEF SaveReplace, SaveCreate
<1>4. \A c \in bindings' : c \in bindings \/ c.deploy = k
  BY DEF SaveReplace, SaveCreate, NewBinding
<1>5. ASSUME NEW d, d # k \/ ~InRow(d)' PROVE OnlyLoses(d)
  <2>1. InRow(d)' => InRow(d) BY <1>4, <1>5 DEF InRow
  <2>2. Held(w, d)' => Held(w, d) BY <1>1, <1>3 DEF Held
  <2> QED BY <1>1, <1>3, <2>1, <2>2, MovingLoses
<1>6. PICK j : j = k OBVIOUS
<1>7. CASE j \in Keys /\ InRow(j)'
  <2>1. LifeOf(j) = "held"
    <3>1. Uploaded(j) BY <1>1, <1>2, <1>6 DEF Uploaded
    <3>2. ~InRow(j) BY <1>2, <1>6 DEF InRow
    <3>3. InCall(j) BY <1>1, <1>6 DEF InCall, Held
    <3> QED BY <3>1, <3>2, <3>3, LifeIs
  <2>2. LifeOf(j)' = "bound"
    <3>1. Uploaded(j)' BY <1>1, <1>2, <1>6 DEF Uploaded
    <3> QED BY <1>7, <3>1, LifeWillBe
  <2>3. \A d \in Keys \ {j} : OnlyLoses(d) BY <1>5, <1>6
  <2> QED BY <1>7, <2>1, <2>2, <2>3, BindingLife
<1>8. CASE ~(j \in Keys /\ InRow(j)')
  <2>1. \A d \in Keys : OnlyLoses(d) BY <1>5, <1>6, <1>8
  <2> QED BY <2>1, LosingLife
<1> QED BY <1>7, <1>8

LEMMA EnvironmentLife == ASSUME TypeOK, Environment PROVE Life!Next
<1>1. /\ nextKey' = nextKey /\ remote' \subseteq remote /\ bindings' \subseteq bindings
      /\ \A w \in Workers : op'[w] = op[w] \/ op'[w].pc = "idle"
  BY DEF Environment, SignOut, Crash, DeleteTarget, DeleteSshKey, UserDeletesDeployKey,
     github, Returned, Call
<1>2. \A d \in Keys : OnlyLoses(d)
  BY <1>1 DEF OnlyLoses, Uploaded, InRow, InCall, Held, RemoteIds
<1> QED BY <1>2, LosingLife

LEMMA LifeStep ==
  IInv /\ [Next]_vars => [Life!Next]_[d \in 1..MaxDeployKeys |-> LifeOf(d)]
<1> SUFFICES ASSUME IInv, [Next]_vars
             PROVE  Life!Next \/ UNCHANGED [d \in 1..MaxDeployKeys |-> LifeOf(d)]
  OBVIOUS
<1>1. TypeOK /\ Safe BY DEF IInv, Safe
<1>2. CASE UNCHANGED vars
  BY <1>2 DEF vars, github, LifeOf, RemoteIds
<1>3. ASSUME NEW w \in Workers, Advance(w) PROVE Life!Next
  BY <1>1, <1>3, QuietLife, VerdictLife, PostLife, SaveLife DEF Advance, Quiet
<1> QED BY <1>1, <1>2, <1>3, StartLife, EnvironmentLife DEF Next

LEMMA LifeInit == Init => Life!Init
BY DEF Init, Life!Init, LifeOf

(* Every behaviour of the service is one that DeployKeyLife allows: a key  *)
(* is uploaded once, bound only by the call that holds it, and one that is *)
(* stray or gone is never taken up again.                                  *)
THEOREM LifeImplemented == Spec => ImplementsLife
BY LifeInit, LifeStep, Invariant, PTL DEF Spec, ImplementsLife, Life!Spec
=============================================================================
