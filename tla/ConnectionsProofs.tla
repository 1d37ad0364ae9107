------------------------- MODULE ConnectionsProofs --------------------------
(***************************************************************************)
(* Proofs about Connections for every set of hosts, calls, servers and     *)
(* passwords: what the rows, the active connection and the credential      *)
(* store owe each other once the calls are over, and that calls made one   *)
(* after the other leave the window showing the setting and the rows.      *)
(***************************************************************************)
EXTENDS Connections, TLAPS

(* The calls of a row or a dialog.                                         *)
ScreenOps == RowOps \cup {"disconnect", "create"}

Plain(j) ==
  /\ j = [op |-> j.op, pc |-> j.pc, id |-> j.id, host |-> j.host, ref |-> j.ref,
          prev |-> j.prev, secret |-> j.secret, seen |-> j.seen, live |-> j.live]
  /\ j.op = "idle" => j.pc = "idle"
  /\ j.pc \in {"list", "local", "seen"} => j.op \in {"boot", "refresh"}
  /\ j.pc = "store" => j.op \in {"create", "edit", "test"}
  /\ j.seen \subseteq Ids
  /\ j.op \in {"delete", "edit"} => j.id \in Ids
  /\ j.op \in {"create", "edit"} => j.host \in Hosts
  /\ j.op \in {"create", "edit", "test"} => j.ref \in {0} \cup Refs
  /\ j.op = "create" /\ j.pc = "alias" => j.ref = 0

(* What a call relies on from one step to the next, if no other call has   *)
(* been at its row meanwhile.                                              *)
Mine(j) ==
  /\ j.op = "connect" /\ j.pc \in {"check", "status"} =>
       j.id \in Rows /\ j.host = targets[j.id].host
  /\ j.op = "connect" /\ j.pc = "set" => j.id \in Rows \cup {This}
  /\ j.op = "delete" /\ j.pc \in {"find", "row"} => active # j.id
  /\ \/ j.op = "delete" /\ j.pc = "row"
     \/ j.op = "edit" /\ j.pc \in {"store", "update"}
     => j.id \in Rows /\ j.prev = targets[j.id].ref

(* The password r is stored on behalf of a call: its row is not written    *)
(* yet, or no longer refers to it.                                         *)
Holds(j, r) ==
  \/ j.op = "create" /\ j.pc = "insert" /\ r = j.ref /\ r # 0
  \/ j.op = "test" /\ j.pc = "check" /\ r = j.ref /\ r # 0
  \/ j.op = "edit" /\ j.pc = "update" /\ r = j.ref /\ r \notin {0, j.prev}
  \/ j.op \in {"edit", "delete"} /\ j.pc = "drop" /\ r = j.prev

Shapes ==
  /\ targets \in [Ids -> Target \cup {None}]
  /\ lastId \in 0..MaxTargets /\ lastRef \in 0..MaxRefs
  /\ \A i \in Rows : i <= lastId
  /\ passwords \subseteq 1..lastRef
  /\ listed \subseteq Ids
  /\ job = [w \in Workers |-> job[w]] /\ \A w \in Workers : Plain(job[w])

(* Every password has one owner: the row that refers to it or the call     *)
(* that holds it.                                                          *)
InRow(r) == \E i \in Rows : targets[i].ref = r /\ r # 0
Owned ==
  /\ \A r : r \in passwords <=> InRow(r) \/ \E w \in Workers : Holds(job[w], r)
  /\ \A i, n \in Rows : targets[i].ref = targets[n].ref => targets[i].ref = 0 \/ i = n
  /\ \A w \in Workers, r \in passwords :
       Holds(job[w], r) => ~InRow(r) /\ \A v \in Workers \ {w} : ~Holds(job[v], r)

OneCallPerRow ==
  \A v, w \in Workers :
    v # w /\ job[v].op \in RowOps /\ job[w].op \in RowOps => job[v].id # job[w].id

Books ==
  /\ Shapes /\ Owned /\ OneCallPerRow
  /\ active \in Rows \cup {This, Offline, Unset}
  /\ \A i \in Rows : targets[i].status \in {None, targets[i].host}
  /\ \A w \in Workers : Mine(job[w])

CInv == "loose" \notin upset => Books
-----------------------------------------------------------------------------
LEMMA MarkedFree ==
  ASSUME NEW m, Marked(m), "loose" \notin upset' PROVE "loose" \notin upset \cup m
BY DEF Marked

LEMMA CallIs ==
  ASSUME NEW op, NEW pc, NEW c, c = Call(op, pc)
  PROVE  /\ c = [op |-> c.op, pc |-> c.pc, id |-> c.id, host |-> c.host, ref |-> c.ref,
                 prev |-> c.prev, secret |-> c.secret, seen |-> c.seen, live |-> c.live]
         /\ c.op = op /\ c.pc = pc /\ c.id = 0 /\ c.ref = 0 /\ c.seen = {} /\ c.live
BY DEF Call, Idle

(* A call that is over, or goes on to list or to read the setting.         *)
Over(c) == c = Idle \/ c = Call("refresh", "list") \/ c = Call("active", "read")

LEMMA OverIs ==
  ASSUME NEW c, Over(c)
  PROVE  /\ Plain(c) /\ c.op \notin ScreenOps /\ c.op # "test"
         /\ \A r : ~Holds(c, r)
         /\ Mine(c) /\ Mine(c)'
<1>1. /\ c = [op |-> c.op, pc |-> c.pc, id |-> c.id, host |-> c.host, ref |-> c.ref,
              prev |-> c.prev, secret |-> c.secret, seen |-> c.seen, live |-> c.live]
      /\ c.seen = {}
      /\ <<c.op, c.pc>> \in {<<"idle", "idle">>, <<"refresh", "list">>, <<"active", "read">>}
  <2>1. CASE c = Idle BY <2>1 DEF Idle
  <2>2. CASE c # Idle BY <2>2, CallIs DEF Over
  <2> QED BY <2>1, <2>2
<1>2. Plain(c) BY <1>1 DEF Plain
<1>3. c.op \notin ScreenOps /\ c.op # "test" BY <1>1 DEF ScreenOps, RowOps
<1> QED BY <1>2, <1>3 DEF Holds, Mine, ScreenOps, RowOps

LEMMA NotAnId == Offline \notin Ids /\ Unset \notin Ids /\ This \notin Ids
BY ConnectionsAssumption DEF Ids, This

(* A step of one call that writes nothing but the window.                  *)
LEMMA CallSafe ==
  ASSUME Books, NEW w \in Workers, NEW k, Becomes(w, k), Plain(k), Mine(k),
         \A r : Holds(k, r) <=> Holds(job[w], r),
         \/ k.op \notin RowOps
         \/ \A v \in Workers \ {w} : job[v].op \in RowOps => job[v].id # k.id,
         UNCHANGED <<targets, lastId, secrets, active>>, listed' \subseteq Ids
  PROVE  Books'
<1>0. UNCHANGED <<targets, lastId, passwords, lastRef, active>> BY DEF secrets
<1>1. PICK n : n = IF k.op \in RowOps THEN k.id ELSE This OBVIOUS
<1>2. /\ job' = [v \in Workers |-> job'[v]] /\ job'[w] = k
      /\ \A v \in Workers \ {w} : job'[v] = job[v]
  BY DEF Becomes, Books, Shapes
<1>3. \A v \in Workers : Plain(job[v])' /\ Mine(job[v])'
  <2>1. \A v \in Workers : Plain(job'[v]) /\ Mine(job'[v]) BY <1>2 DEF Books, Shapes
  <2>2. \A v \in Workers : Plain(job[v])' BY <2>1 DEF Plain
  <2>3. \A v \in Workers : Mine(job[v])' BY <1>0, <2>1 DEF Mine, Rows
  <2> QED BY <2>2, <2>3
<1>4. OneCallPerRow' BY <1>2 DEF Books, OneCallPerRow
<1>5. Shapes' BY <1>0, <1>2, <1>3 DEF Books, Shapes, Rows
<1>6. Owned'
  <2>1. \A v \in Workers : \A r : Holds(job'[v], r) <=> Holds(job[v], r) BY <1>2
  <2>2. \A v \in Workers : \A r : Holds(job[v], r)' <=> Holds(job[v], r) BY <2>1 DEF Holds
  <2> QED BY ZenonT(60), <1>0, <2>2 DEF Books, Owned, InRow, Rows
<1> QED BY <1>0, <1>3, <1>4, <1>5, <1>6 DEF Books, Rows

LEMMA OverSafe ==
  ASSUME Books, NEW w \in Workers, NEW k, Over(k), Becomes(w, k),
         \A r : ~Holds(job[w], r),
         UNCHANGED <<targets, lastId, secrets, active>>, listed' \subseteq Ids
  PROVE  Books'
<1>1. Plain(k) /\ Mine(k) /\ k.op \notin ScreenOps /\ \A r : ~Holds(k, r) BY OverIs
<1> QED BY <1>1, CallSafe DEF ScreenOps

LEMMA BeginsIdle ==
  ASSUME Books, NEW w \in Workers, ~Active(w)
  PROVE  \A r : ~Holds(job[w], r)
BY DEF Active, Holds
-----------------------------------------------------------------------------
(* The clicks.                                                             *)

(* A click that begins a call about a row finds no other at it, or is      *)
(* marked.                                                                 *)
LEMMA RowIsFree ==
  ASSUME NEW w \in Workers, NEW k, Begin(w, k), "loose" \notin upset', k.op \in RowOps
  PROVE  \A v \in Workers \ {w} : job[v].op \in RowOps => job[v].id # k.id
<1>1. "loose" \notin Doubled(w, k) BY MarkedFree DEF Begin
<1> QED BY <1>1 DEF Doubled

LEMMA ClickSafe ==
  ASSUME Books, NEW w \in Workers, Click(w), "loose" \notin upset' PROVE Books'
<1>0. UNCHANGED <<targets, lastId, secrets, active>> /\ listed' \subseteq Ids
  BY DEF Click, OpenConnect, StartRead, ClickCreate, ClickTest, ClickToggle, ClickDelete,
         ClickEdit, window, rows, Books, Shapes
<1>1. ASSUME NEW k, Begin(w, k), Plain(k), Mine(k),
             k.pc \notin {"insert", "check", "update", "drop"}
      PROVE  Books'
  <2>1. \A r : ~Holds(k, r) BY <1>1 DEF Holds
  <2> QED BY <1>0, <1>1, <2>1, BeginsIdle, CallSafe, RowIsFree DEF Begin
<1>2. CASE OpenConnect(w)
  <2>1. PICK k : k = Call("refresh", "list") OBVIOUS
  <2>2. Becomes(w, k) /\ Over(k) /\ ~Active(w) BY <1>2, <2>1 DEF OpenConnect, Begin, Over
  <2> QED BY <1>0, <2>2, BeginsIdle, OverSafe
<1>3. CASE StartRead(w)
  <2>1. PICK k : k = Call("active", "read") OBVIOUS
  <2> QED BY <1>0, <1>3, <2>1, BeginsIdle, OverSafe DEF StartRead, Over
<1>4. CASE ClickCreate(w) \/ ClickTest(w)
  <2>1. PICK op, pc, h, s, k :
          /\ Begin(w, k)
          /\ \/ /\ op = "create" /\ pc = "alias" /\ h \in Hosts
                /\ k = [Call(op, pc) EXCEPT !.host = h, !.secret = s]
             \/ /\ op = "test" /\ pc = "store"
                /\ k = [Call(op, pc) EXCEPT !.secret = s]
    BY <1>4 DEF ClickCreate, ClickTest
  <2>2. PICK c : c = Call(op, pc) OBVIOUS
  <2>3. /\ k = [op |-> k.op, pc |-> k.pc, id |-> k.id, host |-> k.host, ref |-> k.ref,
                prev |-> k.prev, secret |-> k.secret, seen |-> k.seen, live |-> k.live]
        /\ k.op = op /\ k.pc = pc /\ k.ref = 0 /\ k.seen = {} /\ k.live
        /\ op = "create" => k.host = h
    <3>1. \/ k = [c EXCEPT !.host = h, !.secret = s]
          \/ op = "test" /\ k = [c EXCEPT !.secret = s]
      BY <2>1, <2>2
    <3>2. /\ c = [op |-> c.op, pc |-> c.pc, id |-> c.id, host |-> c.host, ref |-> c.ref,
                  prev |-> c.prev, secret |-> c.secret, seen |-> c.seen, live |-> c.live]
          /\ c.op = op /\ c.pc = pc /\ c.id = 0 /\ c.ref = 0 /\ c.seen = {}
      BY <2>2, CallIs
    <3>3. c.live BY <2>2, CallIs
    <3>4. k.live = c.live BY <3>1, <3>2
    <3> QED BY <3>1, <3>2, <3>3, <3>4
  <2>4. Plain(k) BY <2>1, <2>3 DEF Plain
  <2>5. Mine(k) BY <2>1, <2>3 DEF Mine
  <2> QED BY <1>1, <2>1, <2>3, <2>4, <2>5
<1>5. ASSUME NEW i \in listed \cup {This},
             ClickToggle(w, i) \/ (i \in listed /\ (ClickDelete(w, i) \/ ClickEdit(w, i)))
      PROVE  Books'
  <2>1. PICK op, pc, h, s, k :
          /\ Begin(w, k)
          /\ \/ op = "disconnect" /\ pc = "set"
             \/ op = "connect" /\ pc = "resolve"
             \/ op = "delete" /\ pc = "active" /\ i \in listed
             \/ op = "edit" /\ pc = "find" /\ i \in listed /\ h \in Hosts
          /\ \/ op # "edit" /\ k = [Call(op, pc) EXCEPT !.id = i]
             \/ op = "edit" /\ k = [Call(op, pc) EXCEPT !.id = i, !.host = h, !.secret = s]
    BY <1>5 DEF ClickToggle, ClickDelete, ClickEdit
  <2>3. PICK c : c = Call(op, pc) OBVIOUS
  <2>4. /\ k = [op |-> k.op, pc |-> k.pc, id |-> k.id, host |-> k.host, ref |-> k.ref,
                prev |-> k.prev, secret |-> k.secret, seen |-> k.seen, live |-> k.live]
        /\ k.op = op /\ k.pc = pc /\ k.id = i /\ k.ref = 0 /\ k.seen = {} /\ k.live
        /\ op = "edit" => k.host = h
    <3>1. \/ op # "edit" /\ k = [c EXCEPT !.id = i]
          \/ k = [c EXCEPT !.id = i, !.host = h, !.secret = s]
      BY <2>1, <2>3
    <3>2. /\ c = [op |-> c.op, pc |-> c.pc, id |-> c.id, host |-> c.host, ref |-> c.ref,
                  prev |-> c.prev, secret |-> c.secret, seen |-> c.seen, live |-> c.live]
          /\ c.op = op /\ c.pc = pc /\ c.id = 0 /\ c.ref = 0 /\ c.seen = {}
      BY <2>3, CallIs
    <3>3. c.live BY <2>3, CallIs
    <3>4. k.live = c.live BY <3>1, <3>2
    <3> QED BY <3>1, <3>2, <3>3, <3>4
  <2>5. i \in listed => i \in Ids BY DEF Books, Shapes
  <2>6. Plain(k) BY <2>1, <2>4, <2>5 DEF Plain
  <2>7. Mine(k) BY <2>1, <2>4 DEF Mine
  <2> QED BY <1>1, <2>1, <2>4, <2>6, <2>7
<1> QED BY <1>2, <1>3, <1>4, <1>5 DEF Click
-----------------------------------------------------------------------------
(* The steps that read, and those that are refused.                        *)
LEMMA ReadSafe ==
  ASSUME Books, NEW w \in Workers, "loose" \notin upset',
         \/ ReadList(w) \/ CreateLocal(w) \/ ListFails(w) \/ SetConnections(w)
         \/ ReadActive(w) \/ Apply(w) \/ Resolve(w) \/ FindTarget(w) \/ Checked(w)
         \/ Toggled(w) \/ CheckAlias(w) \/ FindEdited(w) \/ CheckActive(w) \/ FindDeleted(w)
  PROVE  Books'
<1> DEFINE j == job[w]
<1>1. Plain(j) /\ Mine(j) /\ j.seen \subseteq Ids /\ listed \subseteq Ids
  BY DEF Books, Shapes, Plain
<1>2. UNCHANGED <<targets, lastId, secrets, active, section>> /\ listed' \subseteq Ids
  BY <1>1 DEF ReadList, CreateLocal, ListFails, SetConnections, ReadActive, Apply, Resolve,
     FindTarget, Checked, Toggled, CheckAlias, FindEdited, CheckActive, FindDeleted,
     rows, window
<1>3. \A r : ~Holds(j, r)
  BY <1>1 DEF ReadList, CreateLocal, ListFails, SetConnections, ReadActive, Apply, Resolve,
     FindTarget, Checked, Toggled, CheckAlias, FindEdited, CheckActive, FindDeleted,
     At, Holds
<1>4. ASSUME NEW k, Becomes(w, k), Plain(k), Mine(k), \A r : ~Holds(k, r),
             k.op = j.op, k.id = j.id
      PROVE  Books'
  <2>1. \/ k.op \notin RowOps
        \/ \A v \in Workers \ {w} : job[v].op \in RowOps => job[v].id # k.id
    BY <1>4 DEF Books, OneCallPerRow
  <2> QED BY <1>2, <1>3, <1>4, <2>1, CallSafe
<1>5. ASSUME Ends(w) \/ AfterList(w) PROVE Books'
  <2>1. PICK k : Becomes(w, k) /\ Over(k) BY <1>5 DEF Ends, AfterList, Over
  <2> QED BY <1>2, <1>3, <2>1, OverSafe
<1>6. CASE ReadList(w)
  <2>1. PICK pc, k : /\ Becomes(w, k) /\ pc \in {"seen", "local"}
                     /\ k = [j EXCEPT !.pc = pc, !.seen = Rows]
    BY <1>6 DEF ReadList
  <2>2. Plain(k) /\ k.pc = pc /\ k.op = j.op /\ k.id = j.id
    BY <1>1, <1>6, <2>1 DEF Plain, ReadList, Rows
  <2>3. k.op \in {"boot", "refresh"} BY <1>1, <1>6, <2>2 DEF Plain, ReadList
  <2>4. Mine(k) /\ \A r : ~Holds(k, r) BY <2>3 DEF Mine, Holds, ScreenOps, RowOps
  <2> QED BY <1>4, <2>1, <2>2, <2>4
<1>7. CASE CreateLocal(w)
  <2>1. PICK k : Becomes(w, k) /\ k = [j EXCEPT !.pc = "seen"]
    BY <1>7 DEF CreateLocal, Goto
  <2>2. Plain(k) /\ k.op = j.op /\ k.id = j.id /\ k.op \in {"boot", "refresh"}
    BY <1>1, <1>7, <2>1 DEF Plain, CreateLocal
  <2>3. Mine(k) /\ \A r : ~Holds(k, r) BY <2>2 DEF Mine, Holds, ScreenOps, RowOps
  <2> QED BY <1>4, <2>1, <2>2, <2>3
<1>8. CASE ListFails(w) \/ SetConnections(w) \/ Apply(w) \/ Toggled(w)
  BY <1>5, <1>8 DEF ListFails, SetConnections, Apply, Toggled
<1>9. CASE ReadActive(w)
  <2>1. CASE Ends(w) BY <1>5, <2>1
  <2>2. CASE ~Ends(w)
    <3>1. PICK k : Becomes(w, k) /\ k = [j EXCEPT !.pc = "apply", !.id = active]
      BY <1>9, <2>2 DEF ReadActive
    <3>2. Plain(k) /\ k.op = "active" BY <1>1, <1>9, <3>1 DEF Plain, ReadActive, At
    <3>3. Mine(k) /\ k.op \notin RowOps /\ \A r : ~Holds(k, r)
      BY <3>2 DEF Mine, Holds, ScreenOps, RowOps
    <3> QED BY <1>2, <1>3, <3>1, <3>2, <3>3, CallSafe
  <2> QED BY <2>1, <2>2
<1>10. ASSUME NEW pc, j.op \in ScreenOps, pc \in {"find", "set", "status", "store", "insert", "update"},
              Goto(w, pc), j.op = "create" /\ pc = "insert" => j.ref = 0,
              pc \notin {"list", "local", "seen"},
              pc = "store" => j.op \in {"create", "edit"},
              j.op = "connect" /\ pc = "status" =>
                 j.id \in Rows /\ j.host = targets[j.id].host,
              j.op = "connect" /\ pc = "set" => j.id \in Rows \cup {This},
              j.op = "delete" => pc = "find" /\ active # j.id,
              j.op = "edit" => pc = "find"
       PROVE  Books'
  <2>1. PICK k : Becomes(w, k) /\ k = [j EXCEPT !.pc = pc] BY <1>10 DEF Goto
  <2>2. Plain(k) /\ k.pc = pc /\ k.op = j.op /\ k.id = j.id /\ k.host = j.host /\ k.ref = j.ref
    BY <1>1, <1>10, <2>1 DEF Plain, ScreenOps, RowOps
  <2>3. k.live = j.live BY <1>1, <2>1 DEF Plain
  <2>4. Mine(k) BY <1>1, <1>10, <2>2, <2>3 DEF Mine, ScreenOps
  <2>5. \A r : ~Holds(k, r) BY <1>10, <2>2 DEF Holds, ScreenOps, RowOps
  <2> QED BY <1>4, <2>1, <2>2, <2>4, <2>5
<1>11. CASE Resolve(w) \/ Checked(w) \/ CheckActive(w)
  <2>1. CASE Ends(w) BY <1>5, <2>1
  <2>2. CASE ~Ends(w)
    <3>1. j.op \in ScreenOps
      BY <1>11 DEF Resolve, Checked, CheckActive, At, ScreenOps, RowOps
    <3> QED BY <1>1, <1>10, <1>11, <2>2, <3>1 DEF Resolve, Checked, CheckActive, At, Mine
  <2> QED BY <2>1, <2>2
<1>12. CASE FindTarget(w)
  <2>1. CASE Ends(w) BY <1>5, <2>1
  <2>2. CASE ~Ends(w)
    <3>1. PICK h, k : /\ Becomes(w, k) /\ h = targets[j.id].host
                      /\ k = [j EXCEPT !.pc = "check", !.host = h]
      BY <1>12, <2>2 DEF FindTarget
    <3>2. j.id \in Rows /\ j.op = "connect" BY <1>12, <2>2 DEF FindTarget, At
    <3>3. /\ Plain(k) /\ k.pc = "check" /\ k.op = j.op /\ k.id = j.id /\ k.host = h
          /\ k.live = j.live
      BY <1>1, <3>1, <3>2 DEF Plain
    <3>4. Mine(k) /\ \A r : ~Holds(k, r)
      BY <1>1, <3>1, <3>2, <3>3 DEF Mine, Holds, ScreenOps, RowOps
    <3> QED BY <1>4, <3>1, <3>3, <3>4
  <2> QED BY <2>1, <2>2
<1>13. CASE CheckAlias(w)
  <2>1. CASE Ends(w) BY <1>5, <2>1
  <2>2. CASE ~Ends(w)
    <3>1. j.op = "create" /\ j.pc = "alias" /\ (Goto(w, "store") \/ Goto(w, "insert"))
      BY <1>13, <2>2 DEF CheckAlias, At
    <3>2. j.ref = 0 BY <1>1, <3>1 DEF Plain
    <3> QED BY <1>10, <3>1, <3>2 DEF ScreenOps
  <2> QED BY <2>1, <2>2
<1>14. CASE FindEdited(w)
  <2>1. CASE Ends(w) BY <1>5, <2>1
  <2>2. CASE ~Ends(w)
    <3>1. j.id \in Rows /\ j.op = "edit" BY <1>14, <2>2 DEF FindEdited, At
    <3>2. PICK ref, r, pc, k :
            /\ Becomes(w, k) /\ ref = targets[j.id].ref /\ r \in {0, ref}
            /\ pc \in {"store", "update"}
            /\ k = [j EXCEPT !.prev = ref, !.ref = r, !.pc = pc]
      BY <1>14, <2>2 DEF FindEdited
    <3>3. ref \in {0} \cup Refs BY <3>1, <3>2 DEF Books, Shapes, Rows, Target
    <3>4. /\ Plain(k) /\ k.pc = pc /\ k.op = j.op /\ k.id = j.id /\ k.prev = ref /\ k.ref = r
          /\ k.live = j.live
      BY <1>1, <3>1, <3>2, <3>3 DEF Plain
    <3>5. Mine(k) BY <1>1, <3>1, <3>2, <3>4 DEF Mine, ScreenOps, RowOps
    <3>6. \A x : ~Holds(k, x) BY <3>1, <3>2, <3>4 DEF Holds
    <3> QED BY <1>4, <3>2, <3>4, <3>5, <3>6
  <2> QED BY <2>1, <2>2
<1>15. CASE FindDeleted(w)
  <2>1. CASE Ends(w) BY <1>5, <2>1
  <2>2. CASE ~Ends(w)
    <3>1. j.id \in Rows /\ j.op = "delete" /\ j.pc = "find"
      BY <1>15, <2>2 DEF FindDeleted, At
    <3>2. PICK ref, k : /\ Becomes(w, k) /\ ref = targets[j.id].ref
                        /\ k = [j EXCEPT !.pc = "row", !.prev = ref]
      BY <1>15, <2>2 DEF FindDeleted
    <3>3. /\ Plain(k) /\ k.pc = "row" /\ k.op = j.op /\ k.id = j.id /\ k.prev = ref
          /\ k.live = j.live
      BY <1>1, <3>1, <3>2 DEF Plain
    <3>4. Mine(k) /\ \A r : ~Holds(k, r)
      BY <1>1, <3>1, <3>2, <3>3 DEF Mine, Holds, ScreenOps, RowOps
    <3> QED BY <1>4, <3>2, <3>3, <3>4
  <2> QED BY <2>1, <2>2
<1> QED BY <1>6, <1>7, <1>8, <1>9, <1>11, <1>12, <1>13, <1>14, <1>15
-----------------------------------------------------------------------------
(* The steps that write the database or the credential store.              *)

(* The rows other calls are about stay as they are, and none of them       *)
(* deletes what the step makes active.                                     *)
LEMMA WriteSafe ==
  ASSUME Books, NEW w \in Workers, NEW k, Becomes(w, k), Plain(k), Mine(k)',
         k.op \in RowOps => job[w].op \in RowOps /\ k.id = job[w].id,
         \A v \in Workers \ {w} :
           job[v].op \in RowOps /\ job[v].id \in Rows =>
             targets'[job[v].id] = targets[job[v].id],
         \/ active' = active
         \/ \A v \in Workers \ {w} : job[v].op = "delete" => job[v].id # active',
         Shapes', Owned',
         active' \in Rows' \cup {This, Offline, Unset},
         \A i \in Rows' : targets'[i].status \in {None, targets'[i].host}
  PROVE  Books'
<1>1. job' = [v \in Workers |-> job'[v]] /\ job'[w] = k
      /\ \A v \in Workers \ {w} : job'[v] = job[v]
  BY DEF Becomes, Books, Shapes
<1>2. \A v \in Workers : Mine(job[v])'
  <2>1. ASSUME NEW v \in Workers \ {w}, NEW j, j = job[v] PROVE Mine(j)'
    <3>1. Mine(j) /\ Plain(j) BY <2>1 DEF Books, Shapes
    <3>2. j.op \in RowOps /\ j.id \in Rows =>
            j.id \in Rows' /\ targets'[j.id] = targets[j.id]
      BY <2>1 DEF Rows
    <3>3. j.op = "delete" /\ active # j.id => active' # j.id
      BY <2>1
    <3> QED BY <3>1, <3>2, <3>3 DEF Mine, RowOps
  <2> QED BY <1>1, <2>1
<1>3. OneCallPerRow' BY <1>1 DEF Books, OneCallPerRow
<1> QED BY <1>2, <1>3 DEF Books

LEMMA JobAfter ==
  ASSUME Books, NEW w \in Workers, NEW k, Becomes(w, k), Plain(k)
  PROVE  /\ job' = [v \in Workers |-> job'[v]] /\ job'[w] = k
         /\ \A v \in Workers \ {w} : job'[v] = job[v]
         /\ \A v \in Workers : Plain(job[v])'
         /\ \A v \in Workers \ {w} : \A r : Holds(job[v], r)' <=> Holds(job[v], r)
         /\ \A r : Holds(job[w], r)' <=> Holds(k, r)
<1>1. job' = [v \in Workers |-> job'[v]] /\ job'[w] = k
      /\ \A v \in Workers \ {w} : job'[v] = job[v]
  BY DEF Becomes, Books, Shapes
<1>2. \A v \in Workers : Plain(job[v])'
  <2>1. \A v \in Workers : Plain(job'[v]) BY <1>1 DEF Books, Shapes
  <2> QED BY <2>1 DEF Plain
<1>3. \A v \in Workers \ {w} : \A r : Holds(job[v], r)' <=> Holds(job[v], r)
  BY <1>1 DEF Holds
<1>4. \A r : Holds(job[w], r)' <=> Holds(k, r) BY <1>1 DEF Holds
<1> QED BY <1>1, <1>2, <1>3, <1>4

(* The status of the host the check was made at, while the row is no other *)
(* call's.                                                                 *)
LEMMA StatusSafe == ASSUME Books, NEW w \in Workers, SaveStatus(w) PROVE Books'
<1> DEFINE j == job[w]
           n == j.id
<1>1. Plain(j) /\ Mine(j) /\ j.op = "connect" /\ j.pc = "status"
  BY DEF Books, Shapes, SaveStatus, At
<1>2. n \in Rows /\ j.host = targets[n].host BY <1>1 DEF Mine
<1>3. UNCHANGED <<lastId, passwords, lastRef, active, section, listed>>
  BY DEF SaveStatus, secrets, window
<1>4. PICK t : t = [targets[n] EXCEPT !.status = j.host] OBVIOUS
<1>5. targets[n] \in Target /\ n \in Ids BY <1>2 DEF Books, Shapes, Rows
<1>6. /\ t \in Target /\ t # None /\ t.ref = targets[n].ref /\ t.host = targets[n].host
      /\ t.status = t.host
  BY <1>2, <1>4, <1>5, NoTarget DEF Target
<1>7. targets' = [targets EXCEPT ![n] = t]
  BY <1>2, <1>4 DEF SaveStatus, Rows, Books, Shapes
<1>8. /\ targets' \in [Ids -> Target \cup {None}] /\ Rows' = Rows
      /\ \A i \in Ids \ {n} : targets'[i] = targets[i]
      /\ targets'[n] = t
      /\ \A i \in Rows : targets'[i].ref = targets[i].ref
  BY <1>2, <1>5, <1>6, <1>7 DEF Books, Shapes, Rows
<1>9. PICK k : Becomes(w, k) /\ k = [j EXCEPT !.pc = "set"] BY DEF SaveStatus, Goto
<1>10. Plain(k) /\ k.pc = "set" /\ k.op = "connect" /\ k.id = n /\ k.live = j.live
  BY <1>1, <1>9 DEF Plain
<1>11. Mine(k)' BY <1>1, <1>2, <1>3, <1>8, <1>10 DEF Mine
<1>12. Shapes' BY <1>3, <1>8, <1>9, <1>10, JobAfter DEF Books, Shapes
<1>13. Owned'
  <2>1. \A r : InRow(r)' <=> InRow(r) BY <1>8 DEF InRow
  <2>2. \A v \in Workers : \A r : Holds(job[v], r)' <=> Holds(job[v], r)
    <3>1. \A r : ~Holds(k, r) /\ ~Holds(j, r) BY <1>1, <1>10 DEF Holds
    <3> QED BY <1>9, <1>10, <3>1, JobAfter
  <2>3. \A i, m \in Rows' : targets'[i].ref = targets'[m].ref =>
          targets'[i].ref = 0 \/ i = m
    BY <1>8 DEF Books, Owned
  <2>4. passwords' = passwords BY <1>3
  <2> QED BY <2>1, <2>2, <2>3, <2>4 DEF Books, Owned
<1>14. ASSUME NEW v \in Workers \ {w}, job[v].op \in RowOps, job[v].id \in Rows
       PROVE  targets'[job[v].id] = targets[job[v].id]
  BY <1>1, <1>8, <1>14 DEF Books, OneCallPerRow, RowOps, Rows
<1>15. active' = active /\ active' \in Rows' \cup {This, Offline, Unset}
  BY <1>3, <1>8 DEF Books
<1>16. \A i \in Rows' : targets'[i].status \in {None, targets'[i].host}
  BY <1>6, <1>8 DEF Books, Rows
<1>17. j.op \in RowOps BY <1>1 DEF RowOps
<1> QED BY <1>9, <1>10, <1>11, <1>12, <1>13, <1>14, <1>15, <1>16, <1>17, WriteSafe

(* A connect makes active a row that nobody deletes meanwhile.             *)
LEMMA SetActiveSafe ==
  ASSUME Books, NEW w \in Workers, SetActive(w), "loose" \notin upset' PROVE Books'
<1> DEFINE j == job[w]
           n == j.id
<1>1. Plain(j) /\ Mine(j) /\ j.op \in {"connect", "disconnect"} /\ j.pc = "set"
  BY DEF Books, Shapes, SetActive
<1>2. UNCHANGED <<targets, lastId, secrets, section, listed>> /\ listed' \subseteq Ids
  BY DEF SetActive, rows, window, Books, Shapes
<1>3. CASE Ends(w) /\ UNCHANGED active
  <2>1. \A r : ~Holds(j, r) BY <1>1 DEF Holds
  <2> QED BY <1>2, <1>3, <2>1, OverSafe DEF Ends, Over
<1>4. CASE Goto(w, "answer") /\ active' = IF j.op = "connect" THEN n ELSE Offline
  <2>1. PICK k : Becomes(w, k) /\ k = [j EXCEPT !.pc = "answer"] BY <1>4 DEF Goto
  <2>2. Plain(k) /\ k.pc = "answer" /\ k.op = j.op /\ k.id = n /\ k.live = j.live
    BY <1>1, <2>1 DEF Plain
  <2>3. Mine(k)' BY <1>1, <1>2, <2>2 DEF Mine
  <2>4. UNCHANGED <<passwords, lastRef>> BY <1>2 DEF secrets
  <2>5. Shapes' BY <1>2, <2>1, <2>2, <2>4, JobAfter DEF Books, Shapes, Rows
  <2>6. Owned'
    <3>1. \A v \in Workers : \A r : Holds(job[v], r)' <=> Holds(job[v], r)
      <4>1. \A r : ~Holds(k, r) /\ ~Holds(j, r) BY <1>1, <2>2 DEF Holds
      <4> QED BY <2>1, <2>2, <4>1, JobAfter
    <3> QED BY <1>2, <2>4, <3>1 DEF Books, Owned, InRow, Rows
  <2>7. \/ active' = active
        \/ \A v \in Workers \ {w} : job[v].op = "delete" => job[v].id # active'
    <3>1. CASE j.op = "connect" BY <1>4, <3>1 DEF Books, OneCallPerRow, RowOps
    <3>2. CASE j.op # "connect" BY <1>4, <3>2, NotAnId DEF Books, Shapes, Plain
    <3> QED BY <3>1, <3>2
  <2>8. active' \in Rows' \cup {This, Offline, Unset}
    BY <1>1, <1>2, <1>4 DEF Mine, Rows
  <2>9. \A i \in Rows' : targets'[i].status \in {None, targets'[i].host}
    BY <1>2 DEF Books, Rows
  <2>10. UNCHANGED targets BY <1>2
  <2> QED BY <2>1, <2>2, <2>3, <2>5, <2>6, <2>7, <2>8, <2>9, <2>10, WriteSafe
<1> QED BY <1>3, <1>4 DEF SetActive

(* A password is stored under a reference nobody has.                      *)
LEMMA StoreSafe ==
  ASSUME Books, NEW w \in Workers, StorePassword(w), "loose" \notin upset' PROVE Books'
<1> DEFINE j == job[w]
<1>1. Plain(j) /\ Mine(j) /\ j.pc = "store" /\ j.op \in {"create", "edit", "test"}
  BY DEF Books, Shapes, StorePassword, Plain
<1>2. UNCHANGED <<targets, lastId, active, section, listed>> /\ listed' \subseteq Ids
  BY DEF StorePassword, rows, window, Books, Shapes
<1>3. \A r : ~Holds(j, r) BY <1>1 DEF Holds
<1>4. CASE Ends(w) /\ UNCHANGED secrets
  BY <1>2, <1>3, <1>4, OverSafe DEF Ends, Over
<1>5. CASE ~(Ends(w) /\ UNCHANGED secrets)
  <2>1. PICK r : r = lastRef + 1 OBVIOUS
  <2>2. PICK pc, k :
          /\ Becomes(w, k) /\ k = [j EXCEPT !.ref = r, !.pc = pc]
          /\ <<j.op, pc>> \in {<<"create", "insert">>, <<"edit", "update">>, <<"test", "check">>}
    <3>1. PICK pc : pc = CASE j.op = "create" -> "insert"
                           [] j.op = "edit" -> "update"
                           [] j.op = "test" -> "check"
      OBVIOUS
    <3>2. <<j.op, pc>> \in {<<"create", "insert">>, <<"edit", "update">>, <<"test", "check">>}
      BY <1>1, <3>1
    <3>3. Becomes(w, [j EXCEPT !.ref = r, !.pc = pc])
      BY <1>5, <2>1, <3>1 DEF StorePassword
    <3> QED BY <3>2, <3>3
  <2>3. /\ lastRef \in Nat /\ lastRef' = r /\ r \in Refs /\ r \in 0..MaxRefs
        /\ passwords' = passwords \cup {r}
        /\ passwords \subseteq 1..lastRef /\ r \notin passwords /\ r # 0
    BY <1>5, <2>1, ConnectionsAssumption DEF StorePassword, Books, Shapes, Refs
  <2>4. /\ Plain(k) /\ k.pc = pc /\ k.op = j.op /\ k.id = j.id /\ k.ref = r /\ k.prev = j.prev
        /\ k.live = j.live
    BY <1>1, <2>2, <2>3 DEF Plain
  <2>5. Mine(k)' BY <1>1, <1>2, <2>2, <2>4 DEF Mine, Rows, ScreenOps, RowOps
  <2>6. Shapes'
    <3>1. passwords' \subseteq 1..lastRef' BY <2>1, <2>3
    <3> QED BY <1>2, <2>2, <2>3, <2>4, <3>1, JobAfter DEF Books, Shapes, Rows
  <2>7. j.op = "edit" => j.prev # r
    <3>1. j.op = "edit" => j.id \in Rows /\ j.prev = targets[j.id].ref
      BY <1>1 DEF Mine
    <3>2. \A i \in Rows : targets[i].ref = 0 \/ targets[i].ref \in passwords
      BY DEF Books, Owned, InRow
    <3> QED BY <2>3, <3>1, <3>2
  <2>8. \A x : Holds(k, x) <=> x = r BY <2>2, <2>3, <2>4, <2>7 DEF Holds
  <2>9. /\ \A x : InRow(x)' <=> InRow(x)
        /\ \A v \in Workers \ {w} : \A x : Holds(job[v], x)' <=> Holds(job[v], x)
        /\ \A x : Holds(job[w], x)' <=> x = r
    BY <1>2, <2>2, <2>4, <2>8, JobAfter DEF InRow, Rows
  <2>10. ~InRow(r) /\ \A v \in Workers : ~Holds(job[v], r)
    BY <2>3 DEF Books, Owned
  <2>11. Owned'
    <3>1. \A x : x \in passwords' <=> InRow(x)' \/ \E v \in Workers : Holds(job[v], x)'
      BY <1>3, <2>3, <2>9, <2>10 DEF Books, Owned
    <3>2. \A v \in Workers, x \in passwords' :
            Holds(job[v], x)' => ~InRow(x)' /\ \A u \in Workers \ {v} : ~Holds(job[u], x)'
      BY <1>3, <2>3, <2>9, <2>10 DEF Books, Owned
    <3> QED BY <1>2, <3>1, <3>2 DEF Books, Owned, Rows
  <2>12. k.op \in RowOps => j.op \in RowOps /\ k.id = j.id BY <2>4
  <2>13. /\ active' \in Rows' \cup {This, Offline, Unset}
         /\ \A i \in Rows' : targets'[i].status \in {None, targets'[i].host}
    BY <1>2 DEF Books, Rows
  <2> QED BY <1>2, <2>2, <2>4, <2>5, <2>6, <2>11, <2>12, <2>13, WriteSafe
<1> QED BY <1>4, <1>5

(* A password that a call holds goes with the call, or is deleted while    *)
(* the call is about to leave it.                                          *)
LEMMA LetGoSafe ==
  ASSUME Books, NEW w \in Workers, NEW k, NEW r, Over(k), Becomes(w, k),
         Holds(job[w], r) \/ (r = 0 /\ \A x : ~Holds(job[w], x)),
         passwords' = passwords \ {r},
         UNCHANGED <<targets, lastId, lastRef, active, section, listed>>
  PROVE  Books'
<1> DEFINE j == job[w]
<1>1. /\ Plain(k) /\ Mine(k)' /\ k.op \notin ScreenOps /\ \A x : ~Holds(k, x)
      /\ k.op \notin RowOps
  BY OverIs DEF ScreenOps
<1>2. Shapes' BY <1>1, JobAfter DEF Books, Shapes, Rows
<1>3. /\ \A x : InRow(x)' <=> InRow(x)
      /\ \A v \in Workers \ {w} : \A x : Holds(job[v], x)' <=> Holds(job[v], x)
      /\ \A x : ~Holds(job[w], x)'
  BY <1>1, JobAfter DEF InRow, Rows
<1>4. \A x : Holds(j, x) => x = r BY DEF Holds
<1>5. 0 \notin passwords BY DEF Books, Shapes
<1>6. Holds(j, r) => r \in passwords /\ ~InRow(r) /\ \A v \in Workers \ {w} : ~Holds(job[v], r)
  BY DEF Books, Owned
<1>7. \A x : x \in passwords' <=> InRow(x)' \/ \E v \in Workers : Holds(job[v], x)'
  BY <1>3, <1>4, <1>5, <1>6 DEF Books, Owned
<1>8. \A v \in Workers, x \in passwords' :
        Holds(job[v], x)' => ~InRow(x)' /\ \A u \in Workers \ {v} : ~Holds(job[u], x)'
  BY <1>3 DEF Books, Owned
<1>9. Owned' BY <1>7, <1>8 DEF Books, Owned, Rows
<1>10. /\ active' \in Rows' \cup {This, Offline, Unset}
       /\ \A i \in Rows' : targets'[i].status \in {None, targets'[i].host}
  BY DEF Books, Rows
<1> QED BY <1>1, <1>2, <1>9, <1>10, WriteSafe

LEMMA TestSafe == ASSUME Books, NEW w \in Workers, TestDone(w) PROVE Books'
<1> DEFINE j == job[w]
<1>1. /\ j.op = "test" /\ j.pc = "check" /\ passwords' = passwords \ {j.ref}
      /\ Becomes(w, Idle) /\ UNCHANGED <<targets, lastId, lastRef, active, section, listed>>
  BY DEF TestDone, At, Ends, rows, window
<1>2. Holds(j, j.ref) \/ (j.ref = 0 /\ \A x : ~Holds(j, x)) BY <1>1 DEF Holds
<1> QED BY <1>1, <1>2, LetGoSafe DEF Over

LEMMA DropSafe ==
  ASSUME Books, NEW w \in Workers, DropPrevious(w), "loose" \notin upset' PROVE Books'
<1> DEFINE j == job[w]
<1>1. /\ j.op \in {"edit", "delete"} /\ j.pc = "drop" /\ passwords' = passwords \ {j.prev}
      /\ UNCHANGED <<targets, lastId, lastRef, active, section, listed>>
  BY MarkedFree DEF DropPrevious, Halfway, Marked, rows, window
<1>2. PICK k : Becomes(w, k) /\ Over(k) BY DEF DropPrevious, Refresh, Ends, Over
<1>3. Holds(j, j.prev) BY <1>1 DEF Holds
<1> QED BY <1>1, <1>2, <1>3, LetGoSafe

(* A row is written, or goes: what it referred to is held by the call, if  *)
(* it is stored at all, and what it refers to was held by the call.        *)
WritesRow(w, k, n, t, old, new) ==
  /\ k.op \in RowOps => job[w].op \in RowOps /\ k.id = job[w].id
  /\ n \in Ids /\ targets' = [targets EXCEPT ![n] = t]
  /\ n <= lastId' /\ lastId <= lastId' /\ lastId' \in 0..MaxTargets
  /\ \/ t = None /\ new = 0 /\ active # n
     \/ t \in Target /\ t.ref = new /\ t.status = None
  /\ old = IF n \in Rows THEN targets[n].ref ELSE 0
  /\ new \in {0, old} \/ Holds(job[w], new)
  /\ \A x : Holds(job[w], x) => x = new
  /\ \A x : Holds(k, x) <=> x = old /\ old \notin {0, new}
  /\ \A v \in Workers \ {w} : job[v].op \in RowOps /\ job[v].id \in Rows => job[v].id # n
  /\ UNCHANGED <<passwords, lastRef, active, section, listed>>

LEMMA RowSafe ==
  ASSUME Books, NEW w \in Workers, NEW k, Becomes(w, k), Plain(k), Mine(k)',
         NEW n, NEW t, NEW old, NEW new, WritesRow(w, k, n, t, old, new)
  PROVE  Books'
<1> USE DEF WritesRow
<1>1. /\ targets' \in [Ids -> Target \cup {None}] /\ targets'[n] = t
      /\ \A i \in Ids \ {n} : targets'[i] = targets[i]
  BY DEF Books, Shapes
<1>2. /\ \A i \in Rows' : i = n \/ i \in Rows
      /\ n \in Rows' <=> t # None
      /\ \A i \in Rows : i = n \/ i \in Rows'
  BY <1>1 DEF Rows
<1>3. /\ \A v \in Workers \ {w} : \A x : Holds(job[v], x)' <=> Holds(job[v], x)
      /\ \A x : Holds(job[w], x)' <=> x = old /\ old \notin {0, new}
  BY JobAfter
<1>4. t = None \/ (t \in Target /\ t # None) BY NoTarget
<1>5. new # 0 => t # None BY NoTarget
<1>6. \A x : InRow(x)' <=> (InRow(x) /\ x # old) \/ (x = new /\ x # 0)
  <2> TAKE x
  <2>1. ASSUME InRow(x)' PROVE (InRow(x) /\ x # old) \/ (x = new /\ x # 0)
    <3>1. PICK i \in Rows' : targets'[i].ref = x /\ x # 0 BY <2>1 DEF InRow
    <3>2. CASE i = n BY <1>1, <1>2, <1>4, <3>1, <3>2
    <3>3. CASE i # n
      <4>1. i \in Rows /\ targets[i].ref = x BY <1>1, <1>2, <3>1, <3>3 DEF Rows
      <4>2. x = old => n \in Rows /\ targets[n].ref = x BY <3>1
      <4> QED BY <3>1, <3>3, <4>1, <4>2 DEF InRow, Books, Owned
    <3> QED BY <3>2, <3>3
  <2>2. ASSUME InRow(x), x # old PROVE InRow(x)'
    <3>1. PICK i \in Rows : targets[i].ref = x /\ x # 0 BY <2>2 DEF InRow
    <3>2. i # n BY <2>2, <3>1
    <3> QED BY <1>1, <1>2, <3>1, <3>2 DEF InRow, Rows
  <2>3. ASSUME x = new, x # 0 PROVE InRow(x)'
    BY <1>1, <1>2, <1>5, <2>3, NoTarget DEF InRow
  <2> QED BY <2>1, <2>2, <2>3
<1>7. new # 0 /\ new # old => ~InRow(new) /\ \A v \in Workers \ {w} : ~Holds(job[v], new)
  BY DEF Books, Owned
<1>8. old # 0 => InRow(old) BY DEF InRow
<1>9. InRow(old) => old \in passwords /\ \A v \in Workers : ~Holds(job[v], old)
  BY DEF Books, Owned
<1>10. Owned'
  <2>1. \A x : x \in passwords' <=> InRow(x)' \/ \E v \in Workers : Holds(job[v], x)'
    <3> TAKE x
    <3>1. x \in passwords <=> InRow(x) \/ Holds(job[w], x)
                               \/ \E v \in Workers \ {w} : Holds(job[v], x)
      BY DEF Books, Owned
    <3>2. (\E v \in Workers : Holds(job[v], x)')
            <=> (x = old /\ old \notin {0, new}) \/ \E v \in Workers \ {w} : Holds(job[v], x)
      BY <1>3
    <3>3. Holds(job[w], x) => x = new /\ x # 0
      BY DEF Books, Owned, Shapes
    <3>4. InRow(x) => x # 0 BY DEF InRow
    <3>5. x = new /\ x # 0 => (x = old /\ InRow(x)) \/ Holds(job[w], x) BY <1>8
    <3> QED BY <1>6, <3>1, <3>2, <3>3, <3>4, <3>5, <1>8
  <2>2. \A v \in Workers, x \in passwords' :
          Holds(job[v], x)' => ~InRow(x)' /\ \A u \in Workers \ {v} : ~Holds(job[u], x)'
    <3> TAKE v \in Workers, x \in passwords'
    <3> HAVE Holds(job[v], x)'
    <3>1. CASE v = w
      <4>1. x = old /\ old \notin {0, new} BY <1>3, <3>1
      <4> QED BY <1>3, <1>6, <1>8, <1>9, <3>1, <4>1
    <3>2. CASE v # w
      <4>1. Holds(job[v], x) BY <1>3, <3>2
      <4>2. ~InRow(x) /\ \A u \in Workers \ {v} : ~Holds(job[u], x)
        BY <4>1 DEF Books, Owned
      <4>3. x # old \/ old = 0 BY <1>8, <4>2
      <4>4. x # 0 BY DEF Books, Shapes
      <4>5. x # new BY <1>7, <1>8, <3>2, <4>1, <4>2, <4>4
      <4> QED BY <1>3, <1>6, <4>2, <4>3, <4>5
    <3> QED BY <3>1, <3>2
  <2>3. ASSUME NEW i \in Rows', NEW m \in Rows', targets'[i].ref = targets'[m].ref
        PROVE  targets'[i].ref = 0 \/ i = m
    <3>1. CASE i # n /\ m # n BY <1>1, <1>2, <2>3, <3>1 DEF Books, Owned, Rows
    <3>2. ASSUME NEW a \in Rows, a # n, new # 0 PROVE targets[a].ref # new
      <4>1. CASE new = old BY <3>2, <4>1 DEF Books, Owned
      <4>2. CASE new # old BY <1>7, <3>2, <4>2 DEF InRow
      <4> QED BY <4>1, <4>2
    <3>3. CASE (i = n \/ m = n) /\ i # m
      BY <1>1, <1>2, <1>4, <2>3, <3>2, <3>3 DEF Rows
    <3> QED BY <3>1, <3>3
  <2> QED BY <2>1, <2>2, <2>3 DEF Owned
<1>11. Shapes'
  <2>1. \A i \in Rows' : i <= lastId'
    <3>1. \A i \in Rows : i \in Nat /\ lastId \in Nat /\ lastId' \in Nat /\ i <= lastId
      BY DEF Books, Shapes, Rows, Ids
    <3> QED BY <1>2, <3>1
  <2> QED BY <1>1, <2>1, JobAfter DEF Books, Shapes
<1>12. active' \in Rows' \cup {This, Offline, Unset}
  BY <1>2, NoTarget DEF Books
<1>13. \A i \in Rows' : targets'[i].status \in {None, targets'[i].host}
  BY <1>1, <1>2, <1>4 DEF Books, Rows
<1>14. \A v \in Workers \ {w} :
         job[v].op \in RowOps /\ job[v].id \in Rows =>
           targets'[job[v].id] = targets[job[v].id]
  BY <1>1 DEF Rows
<1> QED BY <1>10, <1>11, <1>12, <1>13, <1>14, WriteSafe

LEMMA InsertSafe ==
  ASSUME Books, NEW w \in Workers, InsertTarget(w), "loose" \notin upset' PROVE Books'
<1> DEFINE j == job[w]
<1>1. Plain(j) /\ j.op = "create" /\ j.pc = "insert" BY DEF Books, Shapes, InsertTarget, At
<1>2. UNCHANGED <<lastRef, active, section, listed>> BY DEF InsertTarget, window
<1>3. CASE Ends(w) /\ passwords' = passwords \ {j.ref} /\ UNCHANGED <<targets, lastId>>
  <2>1. Holds(j, j.ref) \/ (j.ref = 0 /\ \A x : ~Holds(j, x)) BY <1>1 DEF Holds
  <2> QED BY <1>2, <1>3, <2>1, LetGoSafe DEF Ends, Over
<1>4. CASE ~(Ends(w) /\ passwords' = passwords \ {j.ref} /\ UNCHANGED <<targets, lastId>>)
  <2>1. PICK n, t : n = lastId + 1 /\ t = [host |-> j.host, ref |-> j.ref, status |-> None]
    OBVIOUS
  <2>2. /\ lastId < MaxTargets /\ lastId' = n /\ targets' = [targets EXCEPT ![n] = t]
        /\ passwords' = passwords
    BY <1>4, <2>1 DEF InsertTarget
  <2>3. PICK k : Becomes(w, k) /\ Over(k) BY <1>4 DEF InsertTarget, Refresh, Ends, Over
  <2>4. /\ lastId \in Nat /\ n \in Ids /\ n \in 0..MaxTargets /\ lastId <= n /\ n <= n
        /\ ~(n <= lastId)
    BY <2>1, <2>2, ConnectionsAssumption DEF Books, Shapes, Ids
  <2>5. n \notin Rows BY <2>4 DEF Books, Shapes
  <2>6. t \in Target /\ t.ref = j.ref /\ t.status = None
    BY <1>1, <2>1 DEF Target, Plain
  <2>7. /\ j.ref = 0 \/ Holds(j, j.ref)
        /\ \A x : Holds(j, x) => x = j.ref
    BY <1>1 DEF Holds
  <2>8. /\ Plain(k) /\ Mine(k)' /\ k.op \notin RowOps /\ \A x : ~Holds(k, x)
    BY <2>3, OverIs DEF ScreenOps
  <2>9. PICK old, new : old = 0 /\ new = j.ref OBVIOUS
  <2>10. WritesRow(w, k, n, t, old, new)
    BY <1>2, <2>2, <2>4, <2>5, <2>6, <2>7, <2>8, <2>9 DEF WritesRow
  <2> QED BY <2>3, <2>4, <2>8, <2>10, RowSafe
<1> QED BY <1>3, <1>4

(* A call about a row has the row to itself.                               *)
LEMMA RowIsAlone ==
  ASSUME Books, NEW w \in Workers, job[w].op \in RowOps
  PROVE  \A v \in Workers \ {w} : job[v].op \in RowOps => job[v].id # job[w].id
BY DEF Books, OneCallPerRow

LEMMA UpdateSafe ==
  ASSUME Books, NEW w \in Workers, UpdateTarget(w), "loose" \notin upset' PROVE Books'
<1> DEFINE j == job[w]
<1>1. Plain(j) /\ Mine(j) /\ j.op = "edit" /\ j.pc = "update"
  BY DEF Books, Shapes, UpdateTarget, At
<1>2. UNCHANGED <<lastId, lastRef, active, section, listed>>
  BY DEF UpdateTarget, window
<1>3. j.id \in Rows /\ j.prev = targets[j.id].ref BY <1>1 DEF Mine
<1>4. CASE Ends(w) /\ UNCHANGED targets
           /\ passwords' = IF j.ref # j.prev THEN passwords \ {j.ref} ELSE passwords
  <2>1. PICK r : r = IF j.ref # j.prev THEN j.ref ELSE 0 OBVIOUS
  <2>2. passwords' = passwords \ {r}
    <3>1. 0 \notin passwords BY DEF Books, Shapes
    <3> QED BY <1>4, <2>1, <3>1
  <2>3. Holds(j, r) \/ (r = 0 /\ \A x : ~Holds(j, x)) BY <1>1, <2>1 DEF Holds
  <2> QED BY <1>2, <1>4, <2>2, <2>3, LetGoSafe DEF Ends, Over
<1>5. CASE /\ targets' = [targets EXCEPT ![j.id] =
                IF @ = None THEN None
                ELSE [host |-> j.host, ref |-> j.ref, status |-> None]]
           /\ IF j.prev \notin {0, j.ref} THEN Goto(w, "drop") ELSE Refresh(w)
           /\ UNCHANGED passwords
  <2>1. PICK n, t, old, new :
          /\ n = j.id /\ t = [host |-> j.host, ref |-> j.ref, status |-> None]
          /\ old = j.prev /\ new = j.ref
    OBVIOUS
  <2>2. targets' = [targets EXCEPT ![n] = t] BY <1>3, <1>5, <2>1 DEF Rows, Books, Shapes
  <2>3. PICK k : /\ Becomes(w, k)
                 /\ \/ old \notin {0, new} /\ k = [j EXCEPT !.pc = "drop"]
                    \/ old \in {0, new} /\ Over(k)
    BY <1>5, <2>1 DEF Goto, Refresh, Ends, Over
  <2>4. /\ Plain(k) /\ Mine(k)' /\ \A x : Holds(k, x) <=> x = old /\ old \notin {0, new}
        /\ k.op \in RowOps => k.id = n
    <3>1. CASE old \notin {0, new}
      <4>1. /\ Plain(k) /\ k.op = "edit" /\ k.pc = "drop" /\ k.id = j.id /\ k.prev = old
            /\ k.live = j.live
        BY <1>1, <2>1, <2>3, <3>1 DEF Plain
      <4>2. Mine(k)' BY <1>1, <1>2, <4>1 DEF Mine
      <4> QED BY <2>1, <3>1, <4>1, <4>2 DEF Holds
    <3>2. CASE old \in {0, new} BY <2>3, <3>2, OverIs DEF ScreenOps
    <3> QED BY <3>1, <3>2
  <2>5. t \in Target /\ t.ref = new /\ t.status = None
    BY <1>1, <2>1 DEF Target, Plain
  <2>6. /\ n \in Ids /\ n \in Rows /\ old = targets[n].ref /\ n <= lastId'
        /\ lastId' \in 0..MaxTargets /\ lastId <= lastId'
    BY <1>2, <1>3, <2>1 DEF Books, Shapes, Rows
  <2>7. new \in {0, old} \/ Holds(j, new) BY <1>1, <2>1 DEF Holds
  <2>8. \A x : Holds(j, x) => x = new BY <1>1, <2>1 DEF Holds
  <2>9. j.op \in RowOps /\ \A v \in Workers \ {w} : job[v].op \in RowOps => job[v].id # n
    BY <1>1, <2>1, RowIsAlone DEF RowOps
  <2>10. WritesRow(w, k, n, t, old, new)
    BY <1>2, <1>5, <2>1, <2>2, <2>4, <2>5, <2>6, <2>7, <2>8, <2>9 DEF WritesRow
  <2> QED BY <2>3, <2>4, <2>8, <2>10, RowSafe
<1> QED BY <1>4, <1>5 DEF UpdateTarget

LEMMA DeleteSafe ==
  ASSUME Books, NEW w \in Workers, DeleteRow(w), "loose" \notin upset' PROVE Books'
<1> DEFINE j == job[w]
<1>1. Plain(j) /\ Mine(j) /\ j.op = "delete" /\ j.pc = "row"
  BY DEF Books, Shapes, DeleteRow, At
<1>2. UNCHANGED <<lastId, passwords, lastRef, active, section, listed>>
  BY DEF DeleteRow, secrets, window
<1>3. j.id \in Rows /\ j.prev = targets[j.id].ref /\ active # j.id BY <1>1 DEF Mine
<1>4. \A x : ~Holds(j, x) BY <1>1 DEF Holds
<1>5. CASE Ends(w) /\ UNCHANGED targets
  <2>1. UNCHANGED <<targets, lastId, secrets, active, section>> /\ listed' \subseteq Ids
    BY <1>2, <1>5 DEF secrets, Books, Shapes
  <2> QED BY <1>4, <1>5, <2>1, OverSafe DEF Ends, Over
<1>6. CASE /\ targets' = [targets EXCEPT ![j.id] = None]
           /\ IF j.prev # 0 THEN Goto(w, "drop") ELSE Refresh(w)
  <2>1. PICK n, t, old, new : n = j.id /\ t = None /\ old = j.prev /\ new = 0 OBVIOUS
  <2>2. PICK k : /\ Becomes(w, k)
                 /\ \/ old # 0 /\ k = [j EXCEPT !.pc = "drop"]
                    \/ old = 0 /\ Over(k)
    BY <1>6, <2>1 DEF Goto, Refresh, Ends, Over
  <2>3. /\ Plain(k) /\ Mine(k)' /\ \A x : Holds(k, x) <=> x = old /\ old \notin {0, new}
        /\ k.op \in RowOps => k.id = n
    <3>1. CASE old # 0
      <4>1. /\ Plain(k) /\ k.op = "delete" /\ k.pc = "drop" /\ k.id = j.id /\ k.prev = old
            /\ k.live = j.live
        BY <1>1, <2>1, <2>2, <3>1 DEF Plain
      <4>2. Mine(k)' BY <1>1, <1>2, <4>1 DEF Mine
      <4> QED BY <2>1, <3>1, <4>1, <4>2 DEF Holds
    <3>2. CASE old = 0 BY <2>2, <3>2, OverIs DEF ScreenOps
    <3> QED BY <3>1, <3>2
  <2>4. /\ n \in Ids /\ n \in Rows /\ old = targets[n].ref /\ n <= lastId' /\ active # n
        /\ lastId' \in 0..MaxTargets /\ lastId <= lastId'
    BY <1>2, <1>3, <2>1 DEF Books, Shapes, Rows
  <2>5. j.op \in RowOps /\ \A v \in Workers \ {w} : job[v].op \in RowOps => job[v].id # n
    BY <1>1, <2>1, RowIsAlone DEF RowOps
  <2>6. targets' = [targets EXCEPT ![n] = t] BY <1>6, <2>1
  <2>7. WritesRow(w, k, n, t, old, new)
    BY <1>2, <1>4, <2>1, <2>3, <2>4, <2>5, <2>6 DEF WritesRow
  <2> QED BY <2>2, <2>3, <2>7, RowSafe
<1> QED BY <1>5, <1>6 DEF DeleteRow
-----------------------------------------------------------------------------
(* Calls lose their row or their screen: they go on as they were.          *)
LEMMA LoseSafe ==
  ASSUME Books, NEW lost, Lose(lost), UNCHANGED <<targets, lastId, secrets, active, listed>>
  PROVE  Books'
<1>1. UNCHANGED <<targets, lastId, passwords, lastRef, active, listed>>
      /\ job' = [w \in Workers |-> job'[w]]
  BY DEF Lose, secrets
<1>2. ASSUME NEW w \in Workers
      PROVE  /\ Plain(job'[w]) /\ (Mine(job[w]) => Mine(job'[w]))
             /\ job'[w].op = job[w].op /\ job'[w].id = job[w].id
             /\ \A r : Holds(job'[w], r) <=> Holds(job[w], r)
  <2>1. PICK j, live : j = job[w] /\ live = IF w \in lost THEN FALSE ELSE j.live OBVIOUS
  <2>2. PICK k : k = job'[w] /\ k = [j EXCEPT !.live = live]
    BY <2>1 DEF Lose
  <2>3. Plain(j) BY <2>1 DEF Books, Shapes
  <2>4. /\ k = [op |-> k.op, pc |-> k.pc, id |-> k.id, host |-> k.host, ref |-> k.ref,
                prev |-> k.prev, secret |-> k.secret, seen |-> k.seen, live |-> k.live]
        /\ k.op = j.op /\ k.pc = j.pc /\ k.id = j.id /\ k.host = j.host /\ k.ref = j.ref
        /\ k.prev = j.prev /\ k.seen = j.seen
    BY <2>2, <2>3 DEF Plain
  <2>5. Plain(k) BY <2>3, <2>4 DEF Plain
  <2>6. \A r : Holds(k, r) <=> Holds(j, r) BY <2>4 DEF Holds
  <2>7. Mine(j) => Mine(k) BY <2>4 DEF Mine
  <2> QED BY <2>1, <2>2, <2>4, <2>5, <2>6, <2>7
<1>3. Shapes'
  <2>1. \A w \in Workers : Plain(job[w])' BY <1>2 DEF Plain
  <2> QED BY <1>1, <2>1 DEF Books, Shapes, Rows
<1>4. Owned'
  <2>1. \A w \in Workers : \A r : Holds(job[w], r)' <=> Holds(job[w], r) BY <1>2 DEF Holds
  <2> QED BY <1>1, <2>1 DEF Books, Owned, InRow, Rows
<1>5. OneCallPerRow' BY <1>2 DEF Books, OneCallPerRow
<1>6. \A w \in Workers : Mine(job[w])'
  <2>1. \A w \in Workers : Mine(job'[w]) BY <1>2 DEF Books
  <2> QED BY <1>1, <2>1 DEF Mine, Rows
<1> QED BY <1>1, <1>3, <1>4, <1>5, <1>6 DEF Books, Rows

(* A start of the process: one call, which holds nothing.                  *)
LEMMA BootIs ==
  ASSUME NEW c, c = Idle \/ c = Call("boot", "list")
  PROVE  Plain(c) /\ Mine(c) /\ c.op \notin ScreenOps /\ \A r : ~Holds(c, r)
<1>1. /\ c = [op |-> c.op, pc |-> c.pc, id |-> c.id, host |-> c.host, ref |-> c.ref,
              prev |-> c.prev, secret |-> c.secret, seen |-> c.seen, live |-> c.live]
      /\ c.seen = {} /\ <<c.op, c.pc>> \in {<<"idle", "idle">>, <<"boot", "list">>}
  <2>1. CASE c = Idle BY <2>1 DEF Idle
  <2>2. CASE c # Idle BY <2>2, CallIs
  <2> QED BY <2>1, <2>2
<1>2. Plain(c) BY <1>1 DEF Plain
<1>3. c.op \notin ScreenOps /\ \A r : ~Holds(c, r)
  BY <1>1 DEF Holds, ScreenOps, RowOps
<1>4. Mine(c) BY <1>1 DEF Mine, ScreenOps, RowOps
<1> QED BY <1>2, <1>3, <1>4

LEMMA RestartSafe == ASSUME Books, Restart, "loose" \notin upset' PROVE Books'
<1>1. Quiet BY DEF Restart, Halfway, Marked
<1>2. \A w \in Workers : \A r : ~Holds(job[w], r) BY <1>1 DEF Quiet, Active, Holds
<1>3. UNCHANGED <<targets, lastId, passwords, lastRef, active>> /\ listed' = {}
  BY DEF Restart, rows, secrets
<1>4. PICK w \in Workers :
        job' = [v \in Workers |-> IF v = w THEN Call("boot", "list") ELSE Idle]
  BY DEF Restart
<1>5. \A v \in Workers : /\ Plain(job'[v]) /\ job'[v].op \notin ScreenOps
                         /\ \A r : ~Holds(job'[v], r)
  BY <1>4, BootIs
<1>6. Shapes'
  <2>1. \A v \in Workers : Plain(job[v])' BY <1>5 DEF Plain
  <2> QED BY <1>3, <1>4, <2>1 DEF Books, Shapes, Rows
<1>7. Owned'
  <2>1. \A v \in Workers : \A r : ~Holds(job[v], r)' BY <1>5 DEF Holds
  <2> QED BY <1>2, <1>3, <2>1 DEF Books, Owned, InRow, Rows
<1>8. OneCallPerRow' BY <1>5 DEF OneCallPerRow, ScreenOps
<1>9. \A v \in Workers : Mine(job[v])' BY <1>5 DEF Mine, ScreenOps, RowOps
<1> QED BY <1>3, <1>6, <1>7, <1>8, <1>9 DEF Books, Rows
-----------------------------------------------------------------------------
LEMMA InitSafe == Init => Books
<1> SUFFICES ASSUME Init PROVE Books OBVIOUS
<1>1. PICK w \in Workers :
        job = [v \in Workers |-> IF v = w THEN Call("boot", "list") ELSE Idle]
  BY DEF Init
<1>2. \A v \in Workers : /\ Plain(job[v]) /\ Mine(job[v]) /\ job[v].op \notin ScreenOps
                         /\ \A r : ~Holds(job[v], r)
  BY <1>1, BootIs
<1>3. Rows = {} BY DEF Init, Rows
<1>4. Shapes BY <1>1, <1>2, <1>3, ConnectionsAssumption DEF Init, Shapes
<1>5. Owned BY <1>2, <1>3 DEF Init, Owned, InRow
<1>6. OneCallPerRow BY <1>2 DEF OneCallPerRow, ScreenOps
<1> QED BY <1>2, <1>3, <1>4, <1>5, <1>6 DEF Init, Books

(* Once things are loose they stay so.                                     *)
LEMMA MarksStay == ASSUME Next PROVE UNCHANGED upset \/ \E m : Marked(m)
<1> DEFINE Goal == UNCHANGED upset \/ \E m : Marked(m)
<1>1. Goal
  <2>1. CASE Restart BY <2>1 DEF Restart, Faulty, Halfway
  <2>2. ASSUME LeaveConnect \/ \E i \in Ids \cup {This} : Recreate(i)
        PROVE  \E m : Marked(m)
    BY <2>2 DEF LeaveConnect, Recreate
  <2>3. ASSUME NEW w \in Workers, Click(w) PROVE UNCHANGED upset \/ \E m : Marked(m)
    BY <2>3 DEF Click, OpenConnect, StartRead, ClickCreate, ClickTest, ClickToggle,
       ClickDelete, ClickEdit, Begin
  <2>4. ASSUME NEW w \in Workers, Step(w) PROVE UNCHANGED upset \/ \E m : Marked(m)
    BY <2>4 DEF Step, ReadList, CreateLocal, ListFails, SetConnections, ReadActive, Apply,
       Resolve, FindTarget, Checked, SaveStatus, SetActive, Toggled, CheckAlias,
       StorePassword, InsertTarget, FindEdited, UpdateTarget, DropPrevious, CheckActive,
       FindDeleted, DeleteRow, TestDone, Faulty, Halfway
  <2> QED BY <2>1, <2>2, <2>3, <2>4 DEF Next
<1> QED BY <1>1

LEMMA LooseStays == ASSUME Next, "loose" \notin upset' PROVE "loose" \notin upset
BY MarksStay, MarkedFree

LEMMA NextSafe == ASSUME CInv, [Next]_vars PROVE CInv'
<1>1. CASE UNCHANGED vars
  <2>1. UNCHANGED <<targets, lastId, passwords, lastRef, active, section, listed, job, upset>>
    BY <1>1 DEF vars, rows, secrets, window
  <2> QED BY <2>1 DEF CInv, Books, Shapes, Owned, InRow, OneCallPerRow, Rows, Mine, Plain, Holds
<1>2. ASSUME Next, "loose" \notin upset' PROVE Books'
  <2>1. Books BY <1>2, LooseStays DEF CInv
  <2>2. ASSUME NEW w \in Workers, Step(w) PROVE Books'
    BY <1>2, <2>1, <2>2, ReadSafe, StatusSafe, SetActiveSafe, StoreSafe, InsertSafe,
       UpdateSafe, DropSafe, DeleteSafe, TestSafe DEF Step
  <2>3. ASSUME LeaveConnect \/ \E i \in Ids \cup {This} : Recreate(i) PROVE Books'
    <3>1. \E lost : Lose(lost) BY <2>3 DEF LeaveConnect, Recreate
    <3>2. UNCHANGED <<targets, lastId, secrets, active, listed>>
      BY <2>3 DEF LeaveConnect, Recreate, rows, window
    <3> QED BY <2>1, <3>1, <3>2, LoseSafe
  <2> QED BY <1>2, <2>1, <2>2, <2>3, RestartSafe, ClickSafe DEF Next
<1> QED BY <1>1, <1>2 DEF CInv

LEMMA Invariant == Spec => []CInv
<1>1. Init => CInv BY InitSafe DEF CInv
<1> QED BY <1>1, NextSafe, PTL DEF Spec

(* Whatever the calls, the rows and the screens do, the active connection  *)
(* is one that exists once they are over, unless two calls were at one row *)
(* at the same time or a fault left a call half done.                      *)
THEOREM ActiveConnectionExists == Spec => []ActiveExists
<1>1. CInv => ActiveExists BY DEF CInv, Books, ActiveExists, Steady
<1> QED BY <1>1, Invariant, PTL

(* Once the calls are over the credential store holds the password of      *)
(* every connection that has one, and no other, with the same exceptions:  *)
(* create_remote_target and update_remote_target roll back what they       *)
(* stored, and what a row no longer refers to is deleted.                  *)
THEOREM PasswordsBelongToRows == Spec => []PasswordsOfTheRows
<1>1. CInv => PasswordsOfTheRows
  <2> SUFFICES ASSUME Books, Quiet PROVE passwords = {targets[i].ref : i \in Rows} \ {0}
    BY DEF CInv, PasswordsOfTheRows, Steady
  <2>1. \A w \in Workers : \A r : ~Holds(job[w], r) BY DEF Quiet, Active, Holds
  <2>2. \A r : r \in passwords <=> InRow(r) BY <2>1 DEF Books, Owned
  <2>3. \A r : InRow(r) <=> r \in {targets[i].ref : i \in Rows} \ {0} BY DEF InRow
  <2> QED BY <2>2, <2>3
<1> QED BY <1>1, Invariant, PTL

(* Once the calls are over a row marked Active was checked at the host it  *)
(* has now, with the same exceptions: check_target's answer lands on the   *)
(* row it read, or on none.                                                *)
THEOREM StatusIsOfThisHost == Spec => []StatusOfThisHost
<1>1. CInv => StatusOfThisHost BY DEF CInv, Books, StatusOfThisHost, Steady
<1> QED BY <1>1, Invariant, PTL
-----------------------------------------------------------------------------
(* Calls made one after the other.  Reads of the setting may run beside    *)
(* another call, but not beside one that changes it; while the window      *)
(* lacks the setting or the rows, a call that brings them is in flight.    *)
Orderly == upset \subseteq {"fault"}

Reading(j) == j.op = "active"
Main(j) == j.op \notin {"idle", "active"}
Toggling(j) == j.op \in {"connect", "disconnect"}

Right == connected = IF active = Unset THEN This ELSE active
Shown == section = "connect" => listed = Rows

(* Calls that will make the window right, and show the rows.               *)
Settling(j) == j.op \in {"boot", "active"} \/ (Toggling(j) /\ j.pc = "answer")
Refreshing(j) == j.op = "refresh" \/ (j.op = "delete" /\ j.pc = "drop")

(* What a call has read is still so.                                       *)
Follows(j) ==
  /\ j.pc = "local" => ~local
  /\ j.pc \in {"local", "seen"} => j.seen = Rows
  /\ j.op = "active" /\ j.pc = "apply" => active # Unset /\ j.id = active
  /\ j.op = "disconnect" => connected = j.id
  /\ Toggling(j) /\ j.pc = "answer" =>
       active # Unset /\ active = IF j.op = "connect" THEN j.id ELSE Offline

Turns ==
  Orderly =>
    /\ \A v, w \in Workers : Main(job[v]) /\ Main(job[w]) => v = w
    /\ \A v, w \in Workers : Toggling(job[v]) => ~Reading(job[w])
    /\ \A w \in Workers : Follows(job[w])
    /\ active = Unset => connected = This
    /\ Right \/ \E w \in Workers : Settling(job[w])
    /\ Shown \/ \E w \in Workers : Refreshing(job[w])

-----------------------------------------------------------------------------
LEMMA OrderlyMarks ==
  ASSUME NEW m, Marked(m), Orderly' PROVE Orderly /\ m \subseteq {"fault"}
BY DEF Marked, Orderly

LEMMA OrderlyIsSafe == Orderly => "loose" \notin upset
BY DEF Orderly

(* A call of a row or a dialog is still on the screen that made it.        *)
OnScreen == \A w \in Workers : job[w].op \in ScreenOps => job[w].live /\ section = "connect"

LEMMA OverSettles ==
  ASSUME NEW c
  PROVE  /\ c = Idle => c.op = "idle" /\ c.pc = "idle"
         /\ c = Call("refresh", "list") => c.op = "refresh" /\ c.pc = "list"
         /\ c = Call("active", "read") => c.op = "active" /\ c.pc = "read"
BY CallIs DEF Idle

(* What is so of the servers and the setting, where they are unchanged.    *)
LEMMA SameView ==
  ASSUME UNCHANGED <<targets, local, active, connected>>
  PROVE  /\ Rows' = Rows /\ Right' = Right
         /\ \A j : Follows(j)' <=> Follows(j)
<1>1. Rows' = Rows /\ Right' = Right BY DEF Rows, Right
<1> QED BY <1>1 DEF Follows, Toggling

(* A step of the one call that is no read.                                 *)
LEMMA MainStep ==
  ASSUME Books, Turns, Orderly, NEW w \in Workers, Main(job[w]), NEW k, Becomes(w, k),
         Toggling(k) => Toggling(job[w]),
         active' = active \/ Toggling(job[w]),
         Follows(k)',
         active' = Unset => connected' = This,
         Right \/ Settling(job[w]) => Right' \/ Settling(k),
         Shown \/ Refreshing(job[w]) => Shown' \/ Refreshing(k)
  PROVE  Turns'
<1>1. job'[w] = k /\ \A v \in Workers \ {w} : job'[v] = job[v]
  BY DEF Becomes, Books, Shapes
<1>2. \A v \in Workers \ {w} : ~Main(job[v]) BY DEF Turns
<1>3. \A v \in Workers \ {w} : ~Toggling(job[v]) /\ ~Refreshing(job[v])
  BY <1>2 DEF Main, Toggling, Refreshing
<1>4. \A v, x \in Workers : Main(job'[v]) /\ Main(job'[x]) => v = x BY <1>1, <1>2
<1>5. \A v, x \in Workers : Toggling(job'[v]) => ~Reading(job'[x])
  <2>1. Toggling(k) => ~Reading(k) BY DEF Toggling, Reading
  <2>2. Toggling(k) => \A v \in Workers \ {w} : ~Reading(job[v]) BY DEF Turns
  <2> QED BY <1>1, <1>3, <2>1, <2>2
<1>6. ASSUME NEW v \in Workers \ {w} PROVE Follows(job[v])'
  <2>1. PICK j : j = job[v] /\ j = job'[v] BY <1>1
  <2>2. Follows(j) /\ Plain(j) /\ ~Main(j) /\ ~Toggling(j)
    BY <1>2, <1>3, <2>1 DEF Turns, Books, Shapes
  <2>3. Reading(j) => active' = active BY <2>1 DEF Turns
  <2>4. Follows(j)' BY <2>2, <2>3 DEF Follows, Plain, Main, Reading, Toggling
  <2> QED BY <2>1, <2>4
<1>7. Right' \/ \E v \in Workers : Settling(job'[v]) BY <1>1 DEF Turns
<1>8. Shown' \/ \E v \in Workers : Refreshing(job'[v]) BY <1>1 DEF Turns
<1> QED BY <1>1, <1>4, <1>5, <1>6, <1>7, <1>8
    DEF Turns, Main, Toggling, Reading, Settling, Refreshing

(* The same, of one that changes nothing that others look at.              *)
LEMMA KeepStep ==
  ASSUME Books, Turns, Orderly, NEW w \in Workers, Main(job[w]), NEW k, Becomes(w, k),
         UNCHANGED <<targets, local, active, window>>,
         k.op \in {"idle", job[w].op}, k.pc \notin {"local", "seen", "answer"},
         k.id = job[w].id \/ k.op = "idle",
         ~Settling(job[w]) \/ Settling(k), ~Refreshing(job[w]) \/ Refreshing(k)
  PROVE  Turns'
<1>1. UNCHANGED <<active, connected, section, listed>> BY DEF window
<1>2. Rows' = Rows /\ Right' = Right BY <1>1, SameView
<1>3. Shown' = Shown BY <1>1, <1>2 DEF Shown
<1>4. Toggling(k) => Toggling(job[w]) BY DEF Toggling
<1>5. Follows(k)'
  <2>1. Follows(job[w]) BY DEF Turns
  <2>2. k.op # "active" BY DEF Main
  <2> QED BY <1>1, <2>1, <2>2 DEF Follows, Toggling
<1>6. active' = Unset => connected' = This BY <1>1 DEF Turns
<1> QED BY <1>1, <1>2, <1>3, <1>4, <1>5, <1>6, MainStep

(* A call that starts while no other is in flight.                         *)
LEMMA BeginStep ==
  ASSUME Books, Turns, Orderly', NEW w \in Workers, NEW k, Begin(w, k),
         UNCHANGED <<targets, local, active, connected, listed>>,
         section' = section \/ k.op = "refresh", k.op # "active",
         k.pc \notin {"local", "seen", "answer"},
         k.op = "disconnect" => connected = k.id
  PROVE  Turns'
<1>1. Orderly /\ \A v \in Workers : ~Active(v)
  BY OrderlyMarks DEF Begin, Overlap
<1>2. job'[w] = k /\ \A v \in Workers \ {w} : job'[v] = job[v]
  BY DEF Begin, Becomes, Books, Shapes
<1>3. \A v \in Workers \ {w} : job'[v].op = "idle" /\ Plain(job'[v])
  BY <1>1, <1>2 DEF Active, Books, Shapes
<1>4. \A v \in Workers : ~Settling(job[v]) /\ ~Refreshing(job[v])
  BY <1>1 DEF Active, Settling, Refreshing, Toggling
<1>5. Right /\ Shown BY <1>1, <1>4 DEF Turns
<1>6. Right' /\ Rows' = Rows BY <1>5, SameView
<1>7. Shown' \/ Refreshing(k) BY <1>5, <1>6 DEF Shown, Refreshing
<1>8. Follows(k)' BY DEF Follows, Toggling
<1>9. ASSUME NEW v \in Workers \ {w} PROVE Follows(job[v])'
  BY <1>3 DEF Follows, Plain, Toggling
<1>10. active' = Unset => connected' = This BY <1>1 DEF Turns
<1> QED BY <1>2, <1>3, <1>6, <1>7, <1>8, <1>9, <1>10
    DEF Turns, Main, Toggling, Reading, Settling, Refreshing

LEMMA ClickTurns ==
  ASSUME Books, Turns, OnScreen, Orderly', NEW w \in Workers, Click(w) PROVE Turns'
<1>1. CASE OpenConnect(w)
  <2>1. PICK k : k = Call("refresh", "list") OBVIOUS
  <2>2. k.op = "refresh" /\ k.pc = "list" BY <2>1, OverSettles
  <2>3. Begin(w, k) /\ UNCHANGED <<targets, local, active, connected, listed>>
    BY <1>1, <2>1 DEF OpenConnect, rows
  <2> QED BY <2>2, <2>3, BeginStep
<1>2. CASE StartRead(w)
  <2>1. PICK k : k = Call("active", "read") OBVIOUS
  <2>2. k.op = "active" /\ k.pc = "read" BY <2>1, OverSettles
  <2>3. /\ Becomes(w, k) /\ ~Active(w)
        /\ UNCHANGED <<targets, local, active, connected, listed, section>>
    BY <1>2, <2>1 DEF StartRead, rows
  <2>4. Orderly /\ \A v \in Workers : ~Live(v, {"connect", "disconnect"})
    BY <1>2, OrderlyMarks DEF StartRead
  <2>5. \A v \in Workers : ~Toggling(job[v])
    BY <2>4 DEF Live, OnScreen, Toggling, ScreenOps, RowOps
  <2>6. job'[w] = k /\ \A v \in Workers \ {w} : job'[v] = job[v]
    BY <2>3 DEF Becomes, Books, Shapes
  <2>7. ~Main(k) /\ ~Toggling(k) /\ Settling(k) BY <2>2 DEF Main, Toggling, Settling
  <2>8. \A v, x \in Workers : Main(job'[v]) /\ Main(job'[x]) => v = x
    BY <2>4, <2>6, <2>7 DEF Turns
  <2>9. \A v \in Workers : ~Toggling(job'[v]) BY <2>5, <2>6, <2>7
  <2>10. \A v \in Workers : Follows(job[v])'
    <3> TAKE v \in Workers
    <3>1. PICK j : j = job'[v] OBVIOUS
    <3>2. Follows(j) BY <2>2, <2>4, <2>6, <3>1 DEF Turns, Follows, Toggling
    <3>3. Follows(j)' BY <2>3, <3>2, SameView
    <3> QED BY <3>1, <3>3
  <2>11. active' = Unset => connected' = This BY <2>3, <2>4 DEF Turns
  <2>12. Shown' \/ \E v \in Workers : Refreshing(job'[v])
    <3>1. ~Refreshing(job[w]) BY <2>3 DEF Active, Refreshing
    <3>2. Shown' = Shown BY <2>3, SameView DEF Shown
    <3> QED BY <2>4, <2>6, <3>1, <3>2 DEF Turns
  <2> QED BY <2>6, <2>7, <2>8, <2>9, <2>10, <2>11, <2>12
      DEF Turns, Main, Toggling, Settling, Refreshing
<1>3. ASSUME NEW k, Begin(w, k), UNCHANGED <<rows, active, window>>,
             <<k.op, k.pc>> \in {<<"disconnect", "set">>, <<"connect", "resolve">>,
                                 <<"delete", "active">>, <<"create", "alias">>,
                                 <<"edit", "find">>, <<"test", "store">>},
             k.op = "disconnect" => connected = k.id
      PROVE  Turns'
  BY <1>3, BeginStep DEF rows, window
<1>4. CASE ClickCreate(w)
  <2>1. PICK h, s, k : Begin(w, k) /\ k = [Call("create", "alias") EXCEPT !.host = h, !.secret = s]
    BY <1>4 DEF ClickCreate
  <2>2. k.op = "create" /\ k.pc = "alias" BY <2>1 DEF Call, Idle
  <2> QED BY <1>3, <1>4, <2>1, <2>2 DEF ClickCreate
<1>5. CASE ClickTest(w)
  <2>1. PICK k : Begin(w, k) /\ k = [Call("test", "store") EXCEPT !.secret = "password"]
    BY <1>5 DEF ClickTest
  <2>2. k.op = "test" /\ k.pc = "store" BY <2>1 DEF Call, Idle
  <2> QED BY <1>3, <1>5, <2>1, <2>2 DEF ClickTest
<1>6. ASSUME NEW i, ClickToggle(w, i) PROVE Turns'
  <2>1. PICK op, pc, k :
          /\ Begin(w, k) /\ k = [Call(op, pc) EXCEPT !.id = i]
          /\ \/ op = "disconnect" /\ pc = "set" /\ connected = i
             \/ op = "connect" /\ pc = "resolve"
    BY <1>6 DEF ClickToggle
  <2>2. k.op = op /\ k.pc = pc BY <2>1 DEF Call, Idle
  <2>3. k.id = i BY <2>1 DEF Call, Idle
  <2> QED BY <1>3, <1>6, <2>1, <2>2, <2>3 DEF ClickToggle
<1>7. ASSUME NEW i, ClickDelete(w, i) PROVE Turns'
  <2>1. PICK k : Begin(w, k) /\ k = [Call("delete", "active") EXCEPT !.id = i]
    BY <1>7 DEF ClickDelete
  <2>2. k.op = "delete" /\ k.pc = "active" BY <2>1 DEF Call, Idle
  <2> QED BY <1>3, <1>7, <2>1, <2>2 DEF ClickDelete
<1>8. ASSUME NEW i, ClickEdit(w, i) PROVE Turns'
  <2>1. PICK h, s, k :
          /\ Begin(w, k)
          /\ k = [Call("edit", "find") EXCEPT !.id = i, !.host = h, !.secret = s]
    BY <1>8 DEF ClickEdit
  <2>2. k.op = "edit" /\ k.pc = "find" BY <2>1 DEF Call, Idle
  <2> QED BY <1>3, <1>8, <2>1, <2>2 DEF ClickEdit
<1> QED BY <1>1, <1>2, <1>4, <1>5, <1>6, <1>7, <1>8 DEF Click

(* The screen left.                                                        *)
LEMMA LeaveTurns == ASSUME Books, Turns, Orderly', LeaveConnect PROVE Turns'
<1>1. PICK m : Marked(m) BY DEF LeaveConnect
<1>2. Orderly BY <1>1, OrderlyMarks
<1>3. ASSUME NEW w \in Workers
      PROVE  /\ job'[w].op = job[w].op /\ job'[w].pc = job[w].pc
             /\ Follows(job[w])'
  <2>1. PICK j : j = job[w] OBVIOUS
  <2>2. PICK k : k = job'[w] /\ k = [j EXCEPT !.live = FALSE]
    BY <2>1 DEF LeaveConnect, Lose
  <2>3. Plain(j) /\ Follows(j) BY <1>2, <2>1 DEF Books, Shapes, Turns
  <2>4. k.op = j.op /\ k.pc = j.pc /\ k.id = j.id /\ k.seen = j.seen
    BY <2>2, <2>3 DEF Plain
  <2>5. Follows(k) BY <2>3, <2>4 DEF Follows, Toggling
  <2>6. UNCHANGED <<targets, local, active, connected>> BY DEF LeaveConnect, rows
  <2>7. Follows(k)' BY <2>5, <2>6, SameView
  <2> QED BY <2>1, <2>2, <2>4, <2>7
<1>4. UNCHANGED <<active, connected>> /\ Shown' BY DEF LeaveConnect, Shown
<1> QED BY <1>2, <1>3, <1>4
    DEF Turns, Main, Toggling, Reading, Settling, Refreshing, Right

(* The process starts again while nothing was in flight.                   *)
LEMMA RestartTurns == ASSUME Books, Turns, Orderly', Restart PROVE Turns'
<1>1. Orderly /\ connected' = This /\ section' = "other"
  BY OrderlyMarks DEF Restart, Faulty, Halfway
<1>2. PICK w \in Workers :
        job' = [v \in Workers |-> IF v = w THEN Call("boot", "list") ELSE Idle]
  BY DEF Restart
<1>3. ASSUME NEW v \in Workers
      PROVE  /\ job'[v].op = IF v = w THEN "boot" ELSE "idle"
             /\ Follows(job[v])'
  <2>1. PICK c : c = job'[v] OBVIOUS
  <2>2. <<c.op, c.pc>> = IF v = w THEN <<"boot", "list">> ELSE <<"idle", "idle">>
    <3>1. CASE v = w
      <4>1. c = Call("boot", "list") BY <1>2, <2>1, <3>1
      <4> QED BY <3>1, <4>1, CallIs
    <3>2. CASE v # w BY <1>2, <2>1, <3>2, OverSettles
    <3> QED BY <3>1, <3>2
  <2>3. Follows(c)' BY <2>2 DEF Follows, Toggling
  <2> QED BY <2>1, <2>2, <2>3
<1>4. \A v \in Workers : Main(job'[v]) => v = w BY <1>3 DEF Main
<1>5. \A v \in Workers : ~Toggling(job'[v]) BY <1>3 DEF Toggling
<1>6. Settling(job'[w]) BY <1>3 DEF Settling
<1>7. Shown' BY <1>1 DEF Shown
<1> QED BY <1>1, <1>3, <1>4, <1>5, <1>6, <1>7
    DEF Turns, Main, Toggling, Reading, Settling, Refreshing

-----------------------------------------------------------------------------
(* The reads of the setting.                                               *)
LEMMA ReadTurns ==
  ASSUME Books, Turns, Orderly', NEW w \in Workers, ReadActive(w) \/ Apply(w)
  PROVE  Turns'
<1> USE DEF At
<1>1. PICK j : j = job[w] OBVIOUS
<1>2. /\ j.op = "active" /\ upset' = upset
      /\ UNCHANGED <<targets, local, active, section, listed>>
  BY <1>1 DEF ReadActive, Apply, rows, window
<1>3. Orderly /\ Plain(j) BY <1>1, <1>2 DEF Orderly, Books, Shapes
<1>4. Follows(j) BY <1>1, <1>3 DEF Turns
<1>5. \A v \in Workers : ~Toggling(job[v]) BY <1>1, <1>2, <1>3 DEF Turns, Reading
<1>6. PICK k : /\ Becomes(w, k)
               /\ \/ k = Idle
                  \/ ReadActive(w) /\ active # Unset
                     /\ k = [j EXCEPT !.pc = "apply", !.id = active]
  BY <1>1 DEF ReadActive, Apply, Ends
<1>7. \/ k.op = "idle" /\ k.pc = "idle"
      \/ k.op = "active" /\ k.pc = "apply" /\ k.id = active /\ ReadActive(w) /\ active # Unset
  <2>1. CASE k = Idle BY <2>1, OverSettles
  <2>2. CASE k # Idle BY <1>2, <1>3, <1>6, <2>2 DEF Plain
  <2> QED BY <2>1, <2>2
<1>8. job'[w] = k /\ \A v \in Workers \ {w} : job'[v] = job[v]
  BY <1>6 DEF Becomes, Books, Shapes
<1>9. \A v, x \in Workers : Main(job'[v]) /\ Main(job'[x]) => v = x
  BY <1>3, <1>7, <1>8 DEF Turns, Main
<1>10. \A v \in Workers : ~Toggling(job'[v]) BY <1>5, <1>7, <1>8 DEF Toggling
<1>11. \A v \in Workers : Follows(job[v])'
  <2> TAKE v \in Workers
  <2>1. PICK c : c = job'[v] OBVIOUS
  <2>2. Follows(c) /\ ~Toggling(c)
    BY <1>3, <1>7, <1>8, <1>10, <2>1 DEF Turns, Follows, Toggling
  <2>3. Rows' = Rows BY <1>2 DEF Rows
  <2>4. Follows(c)' BY <1>2, <2>2, <2>3 DEF Follows, Toggling
  <2> QED BY <2>1, <2>4
<1>12. /\ active' = Unset => connected' = This
       /\ Right' \/ Settling(k)
  <2>1. CASE Apply(w)
    <3>1. connected' = active /\ active # Unset
      BY <1>1, <1>4, <2>1 DEF Apply, Follows
    <3> QED BY <1>2, <3>1 DEF Right
  <2>2. CASE ReadActive(w)
    <3>1. connected' = connected BY <2>2 DEF ReadActive, window
    <3>2. active = Unset => connected = This BY <1>3 DEF Turns
    <3>3. active # Unset => k.op = "active"
      <4>1. SUFFICES ASSUME active # Unset PROVE k.op = "active" OBVIOUS
      <4>2. Becomes(w, [j EXCEPT !.pc = "apply", !.id = active])
        BY <1>1, <2>2, <4>1 DEF ReadActive
      <4>3. PICK c : c = [j EXCEPT !.pc = "apply", !.id = active] OBVIOUS
      <4>4. c.op = "active" BY <1>2, <1>3, <4>3 DEF Plain
      <4>5. job'[w] = c BY <4>2, <4>3 DEF Becomes, Books, Shapes
      <4> QED BY <1>8, <4>4, <4>5
    <3> QED BY <1>2, <3>1, <3>2, <3>3 DEF Right, Settling
  <2> QED BY <2>1, <2>2
<1>13. Shown' \/ \E v \in Workers : Refreshing(job'[v])
  <2>1. Shown' = Shown BY <1>2 DEF Shown, Rows
  <2>2. ~Refreshing(j) BY <1>2 DEF Refreshing
  <2> QED BY <1>1, <1>3, <1>8, <2>1, <2>2 DEF Turns
<1> QED BY <1>8, <1>9, <1>10, <1>11, <1>12, <1>13
    DEF Turns, Main, Toggling, Settling, Refreshing

(* The lists: of the start and of the screen.                              *)
LEMMA ListTurns ==
  ASSUME Books, Turns, Orderly', NEW w \in Workers,
         ReadList(w) \/ CreateLocal(w) \/ ListFails(w) \/ SetConnections(w)
  PROVE  Turns'
<1>1. PICK j : j = job[w] OBVIOUS
<1>2. Plain(j) /\ j.pc \in {"list", "local", "seen"} /\ j.op \in {"boot", "refresh"}
  BY <1>1 DEF Books, Shapes, Plain, ReadList, CreateLocal, ListFails, SetConnections
<1>3. Orderly /\ ~ListFails(w)
  <2>1. CASE ListFails(w)
    <3>1. j.pc = "local" /\ local /\ UNCHANGED upset
      BY <1>1, <2>1, OrderlyMarks DEF ListFails, Halfway
    <3>2. Follows(j) BY <1>1, <3>1 DEF Orderly, Turns
    <3> QED BY <3>1, <3>2 DEF Follows
  <2>2. CASE ~ListFails(w)
    BY <2>2 DEF ReadList, CreateLocal, SetConnections, Orderly
  <2> QED BY <2>1, <2>2
<1>4. Main(j) /\ ~Toggling(j) /\ Follows(j) BY <1>1, <1>2, <1>3 DEF Main, Toggling, Turns
<1>5. CASE ReadList(w) \/ CreateLocal(w)
  <2>1. PICK k : /\ Becomes(w, k)
                 /\ \/ /\ ReadList(w)
                       /\ k = [j EXCEPT !.pc = IF local THEN "seen" ELSE "local", !.seen = Rows]
                    \/ CreateLocal(w) /\ k = [j EXCEPT !.pc = "seen"]
    BY <1>1, <1>5 DEF ReadList, CreateLocal, Goto
  <2>2. /\ k.op = j.op /\ k.pc \in {"seen", "local"} /\ k.seen = Rows
        /\ k.pc = "local" => ReadList(w) /\ ~local
    <3>1. CASE ReadList(w)
      <4>1. PICK pc : pc = (IF local THEN "seen" ELSE "local") OBVIOUS
      <4>2. CASE k = [j EXCEPT !.pc = IF local THEN "seen" ELSE "local", !.seen = Rows]
        <5>1. k = [j EXCEPT !.pc = pc, !.seen = Rows] BY <4>1, <4>2
        <5> QED BY <1>2, <3>1, <4>1, <5>1 DEF Plain
      <4>3. j.pc = "list" BY <1>1, <3>1 DEF ReadList
      <4> QED BY <1>1, <2>1, <4>2, <4>3 DEF CreateLocal
    <3>2. CASE CreateLocal(w)
      <4>1. j.pc = "local" BY <1>1, <3>2 DEF CreateLocal
      <4>2. k = [j EXCEPT !.pc = "seen"] BY <1>1, <2>1, <4>1 DEF ReadList
      <4> QED BY <1>2, <1>4, <4>1, <4>2 DEF Plain, Follows
    <3> QED BY <1>5, <3>1, <3>2
  <2>3. UNCHANGED <<targets, active, connected, section, listed>>
        /\ (ReadList(w) => local' = local)
    BY <1>5 DEF ReadList, CreateLocal, rows, window
  <2>4. Rows' = Rows /\ Right' = Right BY <2>3 DEF Rows, Right
  <2>5. Shown' = Shown BY <2>3, <2>4 DEF Shown
  <2>6. Follows(k)' BY <1>2, <2>2, <2>3, <2>4 DEF Follows, Toggling
  <2>7. ~Toggling(k) /\ Settling(k) = Settling(j) /\ Refreshing(k) = Refreshing(j)
    BY <1>2, <2>2 DEF Toggling, Settling, Refreshing
  <2>8. active' = Unset => connected' = This BY <1>3, <2>3 DEF Turns
  <2> QED BY <1>1, <1>3, <1>4, <2>1, <2>3, <2>4, <2>5, <2>6, <2>7, <2>8, MainStep
<1>6. CASE SetConnections(w)
  <2>1. /\ listed' = j.seen /\ j.pc = "seen" /\ AfterList(w)
        /\ connected' = IF connected \in j.seen \cup {This} THEN connected ELSE Offline
        /\ UNCHANGED <<targets, local, active, section>>
    BY <1>1, <1>6 DEF SetConnections, rows
  <2>2. PICK k : /\ Becomes(w, k)
                 /\ k = IF j.op = "boot" THEN Call("active", "read") ELSE Idle
    BY <1>1, <2>1 DEF AfterList, Ends
  <2>3. <<k.op, k.pc>> = IF j.op = "boot" THEN <<"active", "read">> ELSE <<"idle", "idle">>
    BY <2>2, OverSettles
  <2>4. Follows(k)' /\ ~Toggling(k) BY <2>3 DEF Follows, Toggling
  <2>5. Rows' = Rows /\ j.seen = Rows BY <1>4, <2>1 DEF Rows, Follows
  <2>6. Shown' BY <2>1, <2>5 DEF Shown
  <2>7. active' = Unset => connected' = This BY <1>3, <2>1 DEF Turns
  <2>8. Right \/ Settling(j) => Right' \/ Settling(k)
    <3>1. CASE j.op = "boot" BY <2>3, <3>1 DEF Settling
    <3>2. CASE j.op = "refresh" /\ Right
      <4>1. active \in Rows \cup {This, Offline, Unset} BY DEF Books
      <4>2. connected = IF active = Unset THEN This ELSE active BY <3>2 DEF Right
      <4>3. connected' = connected
        BY <2>1, <2>5, <4>1, <4>2
      <4> QED BY <2>1, <4>2, <4>3 DEF Right
    <3> QED BY <1>2, <3>1, <3>2 DEF Settling, Toggling
  <2> QED BY <1>1, <1>3, <1>4, <2>1, <2>2, <2>4, <2>6, <2>7, <2>8, MainStep
<1> QED BY <1>3, <1>5, <1>6

-----------------------------------------------------------------------------
(* Connecting and disconnecting.                                           *)
LEMMA ToggleTurns ==
  ASSUME Books, Turns, Orderly', NEW w \in Workers,
         \/ Resolve(w) \/ FindTarget(w) \/ Checked(w) \/ SaveStatus(w) \/ SetActive(w)
         \/ Toggled(w)
  PROVE  Turns'
<1> USE DEF At
<1>1. PICK j : j = job[w] OBVIOUS
<1>2. /\ j.op \in {"connect", "disconnect"}
      /\ j.pc \in {"resolve", "find", "check", "status", "set", "answer"}
  BY <1>1 DEF Resolve, FindTarget, Checked, SaveStatus, SetActive, Toggled
<1>3. Orderly
  BY OrderlyMarks DEF Resolve, FindTarget, Checked, SaveStatus, SetActive, Toggled, Faulty,
                      Orderly
<1>4. Plain(j) /\ Mine(j) /\ Follows(j) /\ Main(j) /\ Toggling(j)
  BY <1>1, <1>2, <1>3 DEF Books, Shapes, Turns, Main, Toggling
<1>5. ~Refreshing(j) BY <1>2 DEF Refreshing
<1>6. ASSUME NEW pc, Goto(w, pc)
      PROVE  \E k : /\ Becomes(w, k) /\ k.op = j.op /\ k.pc = pc /\ k.id = j.id
                    /\ k.seen = j.seen
  BY <1>1, <1>4, <1>6 DEF Goto, Plain
<1>7. ASSUME NEW k, Becomes(w, k), (k.op = j.op /\ k.id = j.id) \/ k.op = "idle",
             k.pc \in {"set", "find", "check", "status", "idle"}, j.pc # "answer",
             UNCHANGED <<targets, active, connected, section, listed>>
      PROVE  Turns'
  <2>1. Rows' = Rows /\ Right' = Right BY <1>7 DEF Rows, Right
  <2>2. Shown' = Shown BY <1>7, <2>1 DEF Shown
  <2>3. Follows(k)' BY <1>2, <1>4, <1>7 DEF Follows, Toggling
  <2>4. active' = Unset => connected' = This BY <1>3, <1>7 DEF Turns
  <2>5. ~Settling(j) BY <1>2, <1>7 DEF Settling
  <2> QED BY <1>1, <1>3, <1>4, <1>5, <1>7, <2>1, <2>2, <2>3, <2>4, <2>5, MainStep
          DEF Toggling
<1>8. ASSUME Ends(w), j.pc # "answer",
             UNCHANGED <<targets, active, connected, section, listed>>
      PROVE  Turns'
  BY <1>7, <1>8, OverSettles DEF Ends
<1>9. CASE Resolve(w)
  <2>1. j.pc # "answer" /\ UNCHANGED <<targets, active, connected, section, listed>>
        /\ (Goto(w, "set") \/ Goto(w, "find") \/ Ends(w))
    BY <1>1, <1>9 DEF Resolve, window
  <2> QED BY <1>6, <1>7, <1>8, <2>1
<1>10. CASE FindTarget(w)
  <2>1. j.pc # "answer" /\ UNCHANGED <<targets, active, connected, section, listed>>
    BY <1>1, <1>10 DEF FindTarget, rows, window
  <2>2. CASE j.id \in Rows
    <3>1. PICK k : /\ Becomes(w, k)
                   /\ k = [j EXCEPT !.pc = "check", !.host = targets[j.id].host]
      BY <1>1, <1>10, <2>2 DEF FindTarget
    <3>2. k.op = j.op /\ k.id = j.id /\ k.pc = "check" BY <1>4, <3>1 DEF Plain
    <3> QED BY <1>7, <2>1, <3>1, <3>2
  <2>3. CASE j.id \notin Rows
    BY <1>1, <1>8, <1>10, <2>1, <2>3 DEF FindTarget
  <2> QED BY <2>2, <2>3
<1>11. CASE Checked(w)
  <2>1. j.pc # "answer" /\ UNCHANGED <<targets, active, connected, section, listed>>
        /\ (Goto(w, "status") \/ Ends(w))
    BY <1>1, <1>11 DEF Checked, rows, window
  <2> QED BY <1>6, <1>7, <1>8, <2>1
<1>12. CASE SaveStatus(w)
  <2>1. /\ UNCHANGED <<active, connected, section, listed>> /\ Goto(w, "set")
        /\ j.pc = "status" /\ j.op = "connect"
    BY <1>1, <1>12 DEF SaveStatus, window
  <2>2. Rows' = Rows
    <3>1. j.id \in Rows /\ j.host = targets[j.id].host BY <1>4, <2>1 DEF Mine
    <3>2. PICK t : t = [targets[j.id] EXCEPT !.status = j.host] OBVIOUS
    <3>3. targets[j.id] \in Target BY <3>1 DEF Books, Shapes, Rows
    <3>4. t \in Target /\ t # None BY <3>1, <3>2, <3>3, NoTarget DEF Target
    <3>5. targets' = [targets EXCEPT ![j.id] = t]
      BY <1>1, <1>12, <3>1, <3>2 DEF SaveStatus, Rows, Books, Shapes
    <3> QED BY <3>1, <3>4, <3>5 DEF Rows, Books, Shapes
  <2>3. PICK k : Becomes(w, k) /\ k.op = j.op /\ k.pc = "set" /\ k.id = j.id
    BY <1>6, <2>1
  <2>4. Right' = Right /\ Shown' = Shown BY <2>1, <2>2 DEF Right, Shown
  <2>5. Follows(k)' BY <2>1, <2>3 DEF Follows, Toggling
  <2>6. active' = Unset => connected' = This BY <1>3, <2>1 DEF Turns
  <2>7. ~Settling(j) BY <2>1 DEF Settling, Toggling
  <2> QED BY <1>1, <1>3, <1>4, <1>5, <2>1, <2>3, <2>4, <2>5, <2>6, <2>7, MainStep
<1>13. CASE SetActive(w)
  <2>1. j.pc = "set" /\ UNCHANGED <<targets, connected, section, listed>>
    BY <1>1, <1>13 DEF SetActive, rows, window
  <2>2. CASE UNCHANGED active /\ Ends(w) BY <1>8, <2>1, <2>2
  <2>3. CASE Goto(w, "answer") /\ active' = IF j.op = "connect" THEN j.id ELSE Offline
    <3>1. PICK k : Becomes(w, k) /\ k.op = j.op /\ k.pc = "answer" /\ k.id = j.id
      BY <1>6, <2>3
    <3>2. active' # Unset
      <4>1. j.op = "connect" => j.id \in Rows \cup {This} BY <1>4, <2>1 DEF Mine
      <4>2. Offline # Unset /\ Unset \notin Rows \cup {This}
        BY ConnectionsAssumption DEF Rows, Ids, This
      <4> QED BY <2>3, <4>1, <4>2
    <3>3. Follows(k)' BY <1>4, <2>1, <2>3, <3>1, <3>2 DEF Follows, Toggling
    <3>4. Settling(k) BY <1>4, <3>1 DEF Settling, Toggling
    <3>5. Shown' = Shown BY <2>1 DEF Shown, Rows
    <3> QED BY <1>1, <1>3, <1>4, <1>5, <3>1, <3>2, <3>3, <3>4, <3>5, MainStep
  <2> QED BY <1>1, <1>13, <2>2, <2>3 DEF SetActive
<1>14. CASE Toggled(w)
  <2>1. /\ j.pc = "answer" /\ Ends(w) /\ UNCHANGED <<targets, active, section, listed>>
        /\ connected' = IF j.op = "connect" THEN j.id
                        ELSE IF connected = j.id THEN Offline ELSE connected
    BY <1>1, <1>14 DEF Toggled, rows
  <2>2. PICK k : Becomes(w, k) /\ k = Idle BY <2>1 DEF Ends
  <2>3. k.op = "idle" /\ k.pc = "idle" BY <2>2, OverSettles
  <2>4. /\ active # Unset /\ active = IF j.op = "connect" THEN j.id ELSE Offline
        /\ j.op = "disconnect" => connected = j.id
    BY <1>4, <2>1 DEF Follows
  <2>5. connected' = active BY <1>2, <2>1, <2>4
  <2>6. Right' BY <2>1, <2>4, <2>5 DEF Right
  <2>7. Follows(k)' /\ ~Toggling(k) BY <2>3 DEF Follows, Toggling
  <2>8. Shown' = Shown BY <2>1 DEF Shown, Rows
  <2> QED BY <1>1, <1>3, <1>4, <1>5, <2>1, <2>2, <2>4, <2>6, <2>7, <2>8, MainStep
<1> QED BY <1>9, <1>10, <1>11, <1>12, <1>13, <1>14

-----------------------------------------------------------------------------
(* The dialogs and the delete.                                             *)
LEMMA RefreshIs ==
  ASSUME Books, Turns, OnScreen, Orderly, NEW w \in Workers, Refresh(w),
         job[w].op \in {"create", "edit", "delete"}
  PROVE  \E k : Becomes(w, k) /\ k.op = "refresh" /\ k.pc = "list"
<1>1. job[w].live BY DEF OnScreen, ScreenOps, RowOps
<1>2. ~Loading
  <2>1. \A v \in Workers : job[v].op = "refresh" => v = w BY DEF Turns, Main
  <2> QED BY <2>1 DEF Loading, Live
<1> QED BY <1>1, <1>2, OverSettles DEF Refresh

(* Rows written or deleted by a call that lists them anew, or is about to. *)
LEMMA RowTurns ==
  ASSUME Books, Turns, Orderly, NEW w \in Workers, NEW k, Becomes(w, k),
         job[w].op \in {"create", "edit", "delete"},
         \/ k.op = "refresh" /\ k.pc = "list"
         \/ k.op = job[w].op /\ k.pc = "drop" /\ (k.op = "delete" \/ Rows' = Rows),
         UNCHANGED <<active, window>>
  PROVE  Turns'
<1>1. Main(job[w]) /\ ~Settling(job[w]) BY DEF Main, Settling, Toggling
<1>2. UNCHANGED <<active, connected, section, listed>> BY DEF window
<1>3. Right' = Right BY <1>2 DEF Right
<1>4. ~Toggling(k) /\ Follows(k)' BY DEF Toggling, Follows
<1>5. active' = Unset => connected' = This BY <1>2 DEF Turns
<1>6. Shown \/ Refreshing(job[w]) => Shown' \/ Refreshing(k)
  <2>1. CASE k.op \in {"refresh", "delete"} BY <2>1 DEF Refreshing
  <2>2. CASE Rows' = Rows /\ job[w].op # "delete" BY <1>2, <2>2 DEF Shown, Refreshing
  <2> QED BY <2>1, <2>2
<1> QED BY <1>1, <1>2, <1>3, <1>4, <1>5, <1>6, MainStep

LEMMA EditTurns ==
  ASSUME Books, Turns, OnScreen, Orderly', NEW w \in Workers,
         \/ CheckAlias(w) \/ StorePassword(w) \/ InsertTarget(w) \/ FindEdited(w)
         \/ UpdateTarget(w) \/ DropPrevious(w) \/ CheckActive(w) \/ FindDeleted(w)
         \/ DeleteRow(w) \/ TestDone(w)
  PROVE  Turns'
<1> USE DEF At
<1>1. PICK j : j = job[w] OBVIOUS
<1>2. /\ Plain(j) /\ Mine(j) /\ j.op \in {"create", "edit", "delete", "test"}
      /\ j.pc \in {"alias", "store", "insert", "find", "update", "drop", "active", "row",
                   "check"}
  BY <1>1 DEF Books, Shapes, Plain, CheckAlias, StorePassword, InsertTarget, FindEdited,
     UpdateTarget, DropPrevious, CheckActive, FindDeleted, DeleteRow, TestDone
<1>3. Orderly /\ ~Halfway
  BY OrderlyMarks DEF CheckAlias, StorePassword, InsertTarget, FindEdited, UpdateTarget,
     DropPrevious, CheckActive, FindDeleted, DeleteRow, TestDone, Faulty, Halfway, Orderly
<1>4. Main(j) /\ ~Settling(j) BY <1>2 DEF Main, Settling, Toggling
<1>5. UNCHANGED <<local, active, window>>
  BY DEF CheckAlias, StorePassword, InsertTarget, FindEdited, UpdateTarget,
     DropPrevious, CheckActive, FindDeleted, DeleteRow, TestDone, rows
<1>6. ASSUME NEW k, Becomes(w, k), (k.op = j.op /\ k.id = j.id) \/ k.op = "idle",
             k.pc \in {"alias", "store", "insert", "find", "update", "active", "row",
                       "check", "idle"},
             j.pc # "drop", UNCHANGED targets
      PROVE  Turns'
  <2>1. ~Refreshing(j) BY <1>2, <1>6 DEF Refreshing
  <2> QED BY <1>1, <1>3, <1>4, <1>5, <1>6, <2>1, KeepStep
<1>7. ASSUME Ends(w), j.pc # "drop", UNCHANGED targets PROVE Turns'
  BY <1>6, <1>7, OverSettles DEF Ends
<1>8. ASSUME NEW pc, Goto(w, pc)
      PROVE  \E k : Becomes(w, k) /\ k.op = j.op /\ k.id = j.id /\ k.pc = pc
  BY <1>1, <1>2, <1>8 DEF Goto, Plain
<1>9. ASSUME Refresh(w), j.op # "test" PROVE Turns'
  <2>1. PICK k : Becomes(w, k) /\ k.op = "refresh" /\ k.pc = "list"
    BY <1>1, <1>2, <1>3, <1>9, RefreshIs
  <2> QED BY <1>1, <1>2, <1>3, <1>5, <1>9, <2>1, RowTurns
<1>10. CASE CheckAlias(w)
  <2>1. /\ j.pc # "drop" /\ UNCHANGED targets
        /\ Goto(w, "store") \/ Goto(w, "insert") \/ Ends(w)
    BY <1>1, <1>10 DEF CheckAlias, rows
  <2> QED BY <1>6, <1>7, <1>8, <2>1
<1>11. CASE StorePassword(w)
  <2>1. j.pc # "drop" /\ j.op # "delete" /\ UNCHANGED targets
    BY <1>1, <1>2, <1>11 DEF StorePassword, rows, Plain
  <2>2. CASE Ends(w) BY <1>7, <2>1, <2>2
  <2>3. CASE ~Ends(w)
    <3>1. PICK pc, n : pc = (CASE j.op = "create" -> "insert"
                               [] j.op = "edit" -> "update"
                               [] j.op = "test" -> "check") /\ n = lastRef'
      OBVIOUS
    <3>2. pc \in {"insert", "update", "check"} BY <1>2, <2>1, <3>1
    <3>3. Becomes(w, [j EXCEPT !.ref = n, !.pc = pc])
      BY <1>1, <1>11, <2>3, <3>1 DEF StorePassword
    <3>4. PICK k : k = [j EXCEPT !.ref = n, !.pc = pc] OBVIOUS
    <3>5. k.op = j.op /\ k.id = j.id /\ k.pc = pc BY <1>2, <3>4 DEF Plain
    <3> QED BY <1>6, <2>1, <3>2, <3>3, <3>4, <3>5
  <2> QED BY <2>2, <2>3
<1>12. CASE InsertTarget(w)
  <2>1. j.op = "create" /\ j.pc = "insert" BY <1>1, <1>12 DEF InsertTarget
  <2> QED BY <1>7, <1>9, <1>12, <2>1 DEF InsertTarget
<1>13. CASE FindEdited(w)
  <2>1. j.pc # "drop" /\ UNCHANGED targets BY <1>1, <1>13 DEF FindEdited, rows
  <2>2. CASE Ends(w) BY <1>7, <2>1, <2>2
  <2>3. CASE ~Ends(w)
    <3>1. PICK pc, n, r : pc = (IF j.secret = "password" THEN "store" ELSE "update")
                          /\ r = targets[j.id].ref
                          /\ n = (IF j.secret = "no" THEN targets[j.id].ref ELSE 0)
      OBVIOUS
    <3>2. Becomes(w, [j EXCEPT !.prev = r, !.ref = n, !.pc = pc])
      BY <1>1, <1>13, <2>3, <3>1 DEF FindEdited
    <3>3. PICK k : k = [j EXCEPT !.prev = r, !.ref = n, !.pc = pc] OBVIOUS
    <3>4. k.op = j.op /\ k.id = j.id /\ k.pc = pc BY <1>2, <3>3 DEF Plain
    <3> QED BY <1>6, <2>1, <3>1, <3>2, <3>3, <3>4
  <2> QED BY <2>2, <2>3
<1>14. CASE UpdateTarget(w)
  <2>1. j.op = "edit" /\ j.pc = "update" BY <1>1, <1>14 DEF UpdateTarget
  <2>2. CASE Goto(w, "drop")
    <3>1. PICK k : Becomes(w, k) /\ k.op = "edit" /\ k.id = j.id /\ k.pc = "drop"
      BY <1>8, <2>1, <2>2
    <3>2. ~Ends(w)
      <4>1. k.op # Idle.op BY <3>1, OverSettles
      <4> QED BY <3>1, <4>1 DEF Ends, Becomes, Books, Shapes
    <3>3. PICK t : t = [host |-> j.host, ref |-> j.ref, status |-> None] OBVIOUS
    <3>4. j.id \in Rows BY <1>2, <2>1 DEF Mine
    <3>5. targets' = [targets EXCEPT ![j.id] = t]
      BY <1>1, <1>14, <3>2, <3>3, <3>4 DEF UpdateTarget, Rows, Books, Shapes
    <3>6. t # None
      <4>1. t \in Target BY <1>2, <2>1, <3>3 DEF Target, Plain
      <4> QED BY <4>1, NoTarget
    <3>7. Rows' = Rows BY <3>4, <3>5, <3>6 DEF Rows, Books, Shapes
    <3> QED BY <1>1, <1>3, <1>5, <2>1, <3>1, <3>7, RowTurns
  <2> QED BY <1>7, <1>9, <1>14, <2>1, <2>2 DEF UpdateTarget
<1>15. CASE DropPrevious(w)
  <2>1. Refresh(w) /\ j.op # "test" BY <1>1, <1>15 DEF DropPrevious
  <2> QED BY <1>9, <2>1
<1>16. CASE CheckActive(w)
  <2>1. /\ j.pc # "drop" /\ UNCHANGED targets
        /\ Goto(w, "find") \/ Ends(w)
    BY <1>1, <1>16 DEF CheckActive, rows
  <2> QED BY <1>6, <1>7, <1>8, <2>1
<1>17. CASE FindDeleted(w)
  <2>1. j.pc # "drop" /\ UNCHANGED targets BY <1>1, <1>17 DEF FindDeleted, rows
  <2>2. CASE Ends(w) BY <1>7, <2>1, <2>2
  <2>3. CASE ~Ends(w)
    <3>1. PICK k : Becomes(w, k) /\ k = [j EXCEPT !.pc = "row", !.prev = targets[j.id].ref]
      BY <1>1, <1>17, <2>3 DEF FindDeleted
    <3>2. k.op = j.op /\ k.id = j.id /\ k.pc = "row" BY <1>2, <3>1 DEF Plain
    <3> QED BY <1>6, <2>1, <3>1, <3>2
  <2> QED BY <2>2, <2>3
<1>18. CASE DeleteRow(w)
  <2>1. j.op = "delete" /\ j.pc = "row" BY <1>1, <1>18 DEF DeleteRow
  <2>2. CASE Goto(w, "drop")
    <3>1. PICK k : Becomes(w, k) /\ k.op = "delete" /\ k.id = j.id /\ k.pc = "drop"
      BY <1>8, <2>1, <2>2
    <3> QED BY <1>1, <1>3, <1>5, <2>1, <3>1, RowTurns
  <2> QED BY <1>7, <1>9, <1>18, <2>1, <2>2 DEF DeleteRow
<1>19. CASE TestDone(w)
  <2>1. Ends(w) /\ j.pc # "drop" /\ UNCHANGED targets
    BY <1>1, <1>19 DEF TestDone, rows
  <2> QED BY <1>7, <2>1
<1> QED BY <1>10, <1>11, <1>12, <1>13, <1>14, <1>15, <1>16, <1>17, <1>18, <1>19
-----------------------------------------------------------------------------
(* What a step makes of its call.                                          *)
LEMMA StepIs ==
  ASSUME Books, NEW w \in Workers, Step(w)
  PROVE  \E k : /\ Becomes(w, k)
                /\ \/ k.op \notin ScreenOps
                   \/ k.op = job[w].op /\ k.live = job[w].live
<1> DEFINE Goal == \E k : /\ Becomes(w, k)
                          /\ \/ k.op \notin ScreenOps
                             \/ k.op = job[w].op /\ k.live = job[w].live
<1> SUFFICES Goal OBVIOUS
<1>2. PICK j : j = job[w] OBVIOUS
<1>3. Plain(j) BY <1>2 DEF Books, Shapes
<1>4. ASSUME NEW pc, Goto(w, pc) PROVE Goal
  <2>1. PICK k : Becomes(w, k) /\ k = [j EXCEPT !.pc = pc] BY <1>2, <1>4 DEF Goto
  <2>2. k.op = j.op /\ k.live = j.live BY <1>3, <2>1 DEF Plain
  <2> QED BY <1>2, <2>1, <2>2
<1>5. ASSUME Ends(w) \/ AfterList(w) \/ Refresh(w) PROVE Goal
  <2>1. PICK k : Becomes(w, k) /\ Over(k) BY <1>5 DEF Ends, AfterList, Refresh, Over
  <2> QED BY <2>1, OverIs
<1>6. ASSUME NEW pc, NEW id, NEW host, NEW ref, NEW prev, NEW seen, NEW k, Becomes(w, k),
             \/ k = [j EXCEPT !.pc = pc, !.seen = seen]
             \/ k = [j EXCEPT !.pc = pc, !.id = id]
             \/ k = [j EXCEPT !.pc = pc, !.host = host]
             \/ k = [j EXCEPT !.ref = ref, !.pc = pc]
             \/ k = [j EXCEPT !.prev = prev, !.ref = ref, !.pc = pc]
             \/ k = [j EXCEPT !.pc = pc, !.prev = prev]
      PROVE  Goal
  <2>1. k.op = j.op /\ k.live = j.live BY <1>3, <1>6 DEF Plain
  <2> QED BY <1>2, <1>6, <2>1
<1> HIDE DEF Goal
<1>7. CASE ReadList(w) BY <1>2, <1>6, <1>7 DEF ReadList
<1>8. CASE ReadActive(w) \/ FindTarget(w)
  BY <1>2, <1>5, <1>6, <1>8 DEF ReadActive, FindTarget
<1>9. CASE StorePassword(w)
  <2>1. CASE Ends(w) BY <1>5, <2>1
  <2>2. CASE ~Ends(w)
    <3>1. \E pc : Becomes(w, [j EXCEPT !.ref = lastRef', !.pc = pc])
      BY <1>2, <1>9, <2>2 DEF StorePassword
    <3> QED BY <1>6, <3>1
  <2> QED BY <2>1, <2>2
<1>10. CASE FindEdited(w) \/ FindDeleted(w)
  <2>1. CASE Ends(w) BY <1>5, <2>1
  <2>2. CASE ~Ends(w)
    <3>1. \/ \E prev, ref, pc : Becomes(w, [j EXCEPT !.prev = prev, !.ref = ref, !.pc = pc])
          \/ \E prev : Becomes(w, [j EXCEPT !.pc = "row", !.prev = prev])
      BY <1>2, <1>10, <2>2 DEF FindEdited, FindDeleted
    <3> QED BY <1>6, <3>1
  <2> QED BY <2>1, <2>2
<1>11. CASE \/ CreateLocal(w) \/ ListFails(w) \/ SetConnections(w) \/ Apply(w) \/ Resolve(w)
            \/ Checked(w) \/ SaveStatus(w) \/ SetActive(w) \/ Toggled(w) \/ CheckAlias(w)
            \/ InsertTarget(w) \/ UpdateTarget(w) \/ DropPrevious(w) \/ CheckActive(w)
            \/ DeleteRow(w) \/ TestDone(w)
  BY <1>4, <1>5, <1>11 DEF CreateLocal, ListFails, SetConnections, Apply, Resolve, Checked,
     SaveStatus, SetActive, Toggled, CheckAlias, InsertTarget, UpdateTarget, DropPrevious,
     CheckActive, DeleteRow, TestDone
<1> QED BY <1>7, <1>8, <1>9, <1>10, <1>11 DEF Step

LEMMA ScreenStays == ASSUME Books, OnScreen, [Next]_vars, Orderly' PROVE OnScreen'
<1>1. CASE UNCHANGED vars BY <1>1 DEF vars, window, OnScreen
<1>2. ASSUME NEW w \in Workers, NEW k, Becomes(w, k), section' \in {section, "connect"},
             \/ k.op \notin ScreenOps
             \/ k.live /\ section = "connect"
             \/ k.op = job[w].op /\ k.live = job[w].live
      PROVE  OnScreen'
  <2>1. job'[w] = k /\ \A v \in Workers \ {w} : job'[v] = job[v]
    BY <1>2 DEF Becomes, Books, Shapes
  <2> QED BY <1>2, <2>1 DEF OnScreen
<1>3. ASSUME NEW w \in Workers, Step(w) PROVE OnScreen'
  <2>1. section' = section
    BY <1>3 DEF Step, ReadList, CreateLocal, ListFails, SetConnections, ReadActive, Apply,
       Resolve, FindTarget, Checked, SaveStatus, SetActive, Toggled, CheckAlias,
       StorePassword, InsertTarget, FindEdited, UpdateTarget, DropPrevious, CheckActive,
       FindDeleted, DeleteRow, TestDone, window
  <2> QED BY <1>2, <1>3, <2>1, StepIs
<1>4. ASSUME NEW w \in Workers, Click(w) PROVE OnScreen'
  <2>1. CASE OpenConnect(w) \/ StartRead(w)
    <3>1. PICK k : Becomes(w, k) /\ Over(k) /\ section' \in {section, "connect"}
      BY <2>1 DEF OpenConnect, StartRead, Begin, Over
    <3> QED BY <1>2, <3>1, OverIs
  <2>2. CASE ~OpenConnect(w) /\ ~StartRead(w)
    <3>1. PICK k : Becomes(w, k) /\ k.live
      <4>1. ASSUME NEW op, NEW pc, NEW i, NEW h, NEW s, NEW k, Begin(w, k),
                   \/ k = [Call(op, pc) EXCEPT !.id = i]
                   \/ k = [Call(op, pc) EXCEPT !.id = i, !.host = h, !.secret = s]
                   \/ k = [Call(op, pc) EXCEPT !.host = h, !.secret = s]
                   \/ k = [Call(op, pc) EXCEPT !.secret = s]
            PROVE  Becomes(w, k) /\ k.live
        <5>1. PICK c : c = Call(op, pc) OBVIOUS
        <5>2. /\ c = [op |-> c.op, pc |-> c.pc, id |-> c.id, host |-> c.host, ref |-> c.ref,
                      prev |-> c.prev, secret |-> c.secret, seen |-> c.seen, live |-> c.live]
              /\ c.live
          BY <5>1, CallIs
        <5>3. k.live = c.live BY <4>1, <5>1, <5>2
        <5> QED BY <4>1, <5>2, <5>3 DEF Begin
      <4>2. CASE ClickCreate(w) BY <4>1, <4>2 DEF ClickCreate
      <4>3. CASE ClickTest(w) BY <4>1, <4>3 DEF ClickTest
      <4>4. ASSUME NEW i, ClickToggle(w, i) PROVE \E k : Becomes(w, k) /\ k.live
        BY <4>1, <4>4 DEF ClickToggle
      <4>5. ASSUME NEW i, ClickDelete(w, i) \/ ClickEdit(w, i)
            PROVE  \E k : Becomes(w, k) /\ k.live
        BY <4>1, <4>5 DEF ClickDelete, ClickEdit
      <4> QED BY <1>4, <2>2, <4>2, <4>3, <4>4, <4>5 DEF Click
    <3>2. section = "connect" /\ section' = section
      BY <1>4, <2>2 DEF Click, ClickCreate, ClickTest, ClickToggle, ClickDelete, ClickEdit,
                        Clickable, window
    <3> QED BY <1>2, <3>1, <3>2
  <2> QED BY <2>1, <2>2
<1>5. CASE LeaveConnect
  <2>1. \A w \in Workers : ~Live(w, Screen)
    BY <1>5, OrderlyMarks DEF LeaveConnect
  <2>2. \A w \in Workers : job[w].op \notin ScreenOps
    BY <2>1 DEF Live, Screen, ScreenOps, RowOps, OnScreen
  <2>3. ASSUME NEW w \in Workers PROVE job'[w].op = job[w].op
    <3>1. PICK j, live : /\ j = job[w] /\ Plain(j)
                         /\ job'[w] = [j EXCEPT !.live = live]
      BY <1>5 DEF LeaveConnect, Lose, Books, Shapes
    <3> QED BY <3>1 DEF Plain
  <2> QED BY <2>2, <2>3 DEF OnScreen
<1>6. ASSUME NEW i, Recreate(i) PROVE FALSE
  BY <1>6, OrderlyMarks DEF Recreate
<1>7. CASE Restart
  <2>1. \A w \in Workers : \E c : /\ job'[w] = c /\ (c = Idle \/ c = Call("boot", "list"))
    BY <1>7 DEF Restart
  <2> QED BY <2>1, BootIs DEF OnScreen
<1> QED BY <1>1, <1>3, <1>4, <1>5, <1>6, <1>7 DEF Next

LEMMA InitTurns == Init => Turns
<1> SUFFICES ASSUME Init PROVE Turns OBVIOUS
<1>1. PICK w \in Workers :
        job = [v \in Workers |-> IF v = w THEN Call("boot", "list") ELSE Idle]
  BY DEF Init
<1>2. ASSUME NEW v \in Workers
      PROVE  job[v].op = (IF v = w THEN "boot" ELSE "idle") /\ Follows(job[v])
  <2>1. PICK c : c = job[v] OBVIOUS
  <2>2. <<c.op, c.pc>> = IF v = w THEN <<"boot", "list">> ELSE <<"idle", "idle">>
    <3>1. CASE v = w
      <4>1. c = Call("boot", "list") BY <1>1, <2>1, <3>1
      <4> QED BY <3>1, <4>1, CallIs
    <3>2. CASE v # w BY <1>1, <2>1, <3>2, OverSettles
    <3> QED BY <3>1, <3>2
  <2>3. Follows(c) BY <2>2 DEF Follows, Toggling
  <2> QED BY <2>1, <2>2, <2>3
<1>3. \A v \in Workers : (Main(job[v]) => v = w) /\ ~Toggling(job[v])
  BY <1>2 DEF Main, Toggling
<1>4. connected = This /\ Right /\ Shown BY DEF Init, Right, Shown
<1> QED BY <1>2, <1>3, <1>4 DEF Turns

LEMMA InitScreen == Init => OnScreen
<1> SUFFICES ASSUME Init PROVE OnScreen OBVIOUS
<1>1. \A w \in Workers : \E c : /\ job[w] = c /\ (c = Idle \/ c = Call("boot", "list"))
  BY DEF Init
<1> QED BY <1>1, BootIs DEF OnScreen

LEMMA NextTurns ==
  ASSUME CInv, Turns, Orderly => OnScreen, [Next]_vars
  PROVE  Turns' /\ (Orderly' => OnScreen')
<1>0. Orderly' => Orderly
  <2>1. CASE UNCHANGED vars BY <2>1 DEF vars, Orderly
  <2>2. ASSUME Next, Orderly' PROVE Orderly BY <2>2, MarksStay, OrderlyMarks DEF Orderly
  <2> QED BY <2>1, <2>2
<1>1. ASSUME UNCHANGED vars PROVE Turns'
  <2>1. UNCHANGED <<targets, local, active, connected, section, listed, job, upset>>
    BY <1>1 DEF vars, rows, window
  <2>2. Shown' = Shown BY <2>1, SameView DEF Shown
  <2>3. \A v \in Workers : Follows(job[v])' <=> Follows(job[v])
    BY <2>1, SameView DEF Follows, Toggling
  <2> QED BY <2>1, <2>2, <2>3, SameView
      DEF Turns, Orderly, Main, Toggling, Reading, Settling, Refreshing
<1>2. ASSUME Next, Orderly' PROVE Turns'
  <2>1. Books
    <3>1. "loose" \notin upset' BY <1>2 DEF Orderly
    <3> QED BY <1>2, <3>1, LooseStays DEF CInv
  <2>2. OnScreen BY <1>0, <1>2
  <2>3. ASSUME NEW w \in Workers, Step(w) PROVE Turns'
    BY <1>2, <2>1, <2>2, <2>3, ListTurns, ReadTurns, ToggleTurns, EditTurns DEF Step
  <2>4. ASSUME NEW i, Recreate(i) PROVE FALSE BY <1>2, <2>4, OrderlyMarks DEF Recreate
  <2> QED BY <1>2, <2>1, <2>2, <2>3, <2>4, RestartTurns, LeaveTurns, ClickTurns DEF Next
<1>3. ASSUME Orderly' PROVE OnScreen'
  <2>1. Books BY <1>0, <1>3, OrderlyIsSafe DEF CInv
  <2> QED BY <1>0, <1>3, <2>1, ScreenStays
<1> QED BY <1>1, <1>2, <1>3 DEF Turns

(* When calls were made one after the other, the window shows the setting  *)
(* as the connected connection and, while the Connect screen is open, the  *)
(* rows as its list, whatever screens were left and opened on the way.     *)
THEOREM WindowSettled == Spec => []WindowSettles
<1> DEFINE Inv == CInv /\ Turns /\ (Orderly => OnScreen)
<1>1. Init => Inv BY InitSafe, InitTurns, InitScreen DEF CInv
<1>2. Inv /\ [Next]_vars => Inv' BY NextSafe, NextTurns
<1>3. Turns => WindowSettles
  <2> SUFFICES ASSUME Turns, Quiet, Orderly PROVE Right /\ Shown
    BY DEF WindowSettles, Orderly, Right, Shown
  <2>1. \A w \in Workers : ~Settling(job[w]) /\ ~Refreshing(job[w])
    BY DEF Quiet, Active, Settling, Refreshing, Toggling
  <2> QED BY <2>1 DEF Turns
<1>4. Inv => WindowSettles BY <1>3
<1> QED BY <1>1, <1>2, <1>4, PTL DEF Spec
=============================================================================
