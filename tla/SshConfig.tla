----------------------------- MODULE SshConfig ------------------------------
(***************************************************************************)
(* One ~/.ssh/config as DeployKeys Desktop edits it: the managed block of  *)
(* each repository (ensure_repo_ssh_config here, the shell script of       *)
(* ensure_remote_repo_ssh_config on a server) and the text editor of the   *)
(* settings screen.  The file is a sequence of lines; blank lines and the  *)
(* fixed lines of a block are left out.  Nobody locks the file: a call     *)
(* reads it, computes the new text, and writes it back.                    *)
(***************************************************************************)
EXTENDS Naturals, Sequences, SequencesExt

CONSTANTS
  Repos,        \* repository row ids, positive numbers
  Keys,         \* private key paths
  Own,          \* a line of the user's own, there from the beginning
  Added,        \* lines the user adds in the editor
  Workers,      \* bound: calls in flight at the same time
  None,
  Places,       \* whether the file may be on a server: a subset of BOOLEAN
  MaxLines,     \* bound: lines of the file
  Faults,       \* bound: what may go wrong while a file is written
  Cuts          \* bound: the kinds of lines the user deletes in the editor;
                \* one failed write or cut line of a block in a behaviour

ASSUME SshConfigAssumption ==
  /\ Repos \subseteq Nat \ {0}
  /\ None \notin Keys
  /\ Places \subseteq BOOLEAN
  /\ MaxLines \in Nat
  /\ Faults \subseteq {"crash", "torn", "disk full"}

VARIABLES
  onServer, \* the file is on a server and written by the script
  config,   \* the file
  editor,   \* the text loaded into the editor, <<None>> when it is closed
  job,      \* job[w]: the call worker w is executing; its base is the file as
            \* the call read it, which only histories look at
  wanted,   \* history: the key of the last call for a repository that succeeded
  user,     \* history: the user's own lines as the user left them; both follow
            \* the older file that an overtaken call puts back
  damaged   \* history: a write was torn or met another writer, or the user cut
            \* a line of a block

vars == <<onServer, config, editor, job, wanted, user, damaged>>
-----------------------------------------------------------------------------
Lines ==
  [kind : {"begin", "end"}, repo : Repos]
    \cup [kind : {"host"}, repo : Repos, key : Keys]
    \cup [kind : {"rest"}, repo : Repos]   \* what is left of a marker cut short
    \cup [kind : {"user"}, text : Added \cup {Own}]

Begin(r) == [kind |-> "begin", repo |-> r]
End(r) == [kind |-> "end", repo |-> r]
UserLine(u) == [kind |-> "user", text |-> u]
Rest(r) == [kind |-> "rest", repo |-> r]
Block(r, k) == <<Begin(r), [kind |-> "host", repo |-> r, key |-> k], End(r)>>

(* The user's own lines, each with its number among them.                  *)
OwnAt(text) == {i \in DOMAIN text : text[i].kind = "user"}
UserLines(text) == {<<Cardinality(OwnAt(text) \cap 1..i), text[i]>> : i \in OwnAt(text)}

(* pc values: read  about to read the file;  open  about to truncate it;    *)
(* fill  about to write it;  old  about to write the file that the editor   *)
(* has replaced since;  mv  the script has its temporary file.              *)
Idle == [pc |-> "idle", repo |-> None, key |-> None, base |-> <<>>, text |-> <<>>]

Active(w) == job[w].pc # "idle"
Torn == \E w \in Workers : job[w].pc = "fill"   \* the file is being written
Quiet == \A w \in Workers : ~Active(w)

Becomes(w, j) == job' = [job EXCEPT ![w] = j]
-----------------------------------------------------------------------------
(* A marker is searched as text, so that of repository 1 is found at the   *)
(* beginning of that of repository 12: one id starts with the other.       *)
StartsWith(b, a) == \E n \in 0..4 : b \div 10^n = a

Marks(line, kind, r) == line.kind = kind /\ StartsWith(line.repo, r)

First(S) == {i \in S : \A j \in S : i <= j}

Begins(text, r) == {i \in DOMAIN text : Marks(text[i], "begin", r)}

(* The new text, given the first begin marker and its end marker, if any.  *)
ReplacedRange(text, r, k, begin, end, past) ==
  IF begin = {} \/ end = {}
    THEN text \o Block(r, k)
    ELSE LET b == CHOOSE i \in begin : TRUE
             e == CHOOSE i \in end : TRUE
         IN  SubSeq(text, 1, b - 1) \o Block(r, k)
               \o (IF text[e].repo = r THEN <<>> ELSE <<Rest(text[e].repo)>>)
               \o SubSeq(text, e + past, Len(text))

(* Mutant of Replaced: always appends.                                     *)
ReplacedBehind(text, r, k) == text \o Block(r, k)

(* Mutant of Replaced: a begin marker without an end leaves all as it is.  *)
ReplacedIfWhole(text, r, k) ==
  LET b == Begins(text, r)
      e == {i \in DOMAIN text : Marks(text[i], "end", r)}
  IN  IF b # {} /\ e = {} THEN text ELSE ReplacedRange(text, r, k, First(b), First(e), 1)

(* Mutant of Replaced: the old end marker stays.                           *)
ReplacedButEnd(text, r, k) ==
  LET b == First(Begins(text, r))
      e == First({i \in DOMAIN text : Marks(text[i], "end", r)})
  IN  ReplacedRange(text, r, k, b, e, 0)

(* Mutant of Replaced: searches the end marker without its id.             *)
ReplacedToAnyEnd(text, r, k) ==
  LET b == First(Begins(text, r))
      e == {i \in DOMAIN text : text[i].kind = "end" /\ \A j \in DOMAIN text :
                                   text[j].kind = "end" => j <= i}
  IN  ReplacedRange(text, r, k, b, e, 1)

(* replace_managed_block: everything from the first begin marker to the    *)
(* first end marker behind it gives way to the block; what follows the end *)
(* marker on its line stays.  Without such a pair the block is appended.   *)
Replaced(text, r, k) ==
  LET b == First(Begins(text, r))
      e == First({i \in DOMAIN text : Marks(text[i], "end", r) /\ \A j \in b : j < i})
  IN  ReplacedRange(text, r, k, b, e, 1)

(* sed "/^begin$/,/^end$/d": from each begin line to the next end line, or *)
(* to the end of the file.  These patterns are whole lines.                *)
Deleted(text, r) ==
  {i \in DOMAIN text : \E b \in 1..i :
     text[b] = Begin(r) /\ \A j \in (b + 1)..(i - 1) : text[j] # End(r)}

Scripted(text, r, k) ==
  LET kept == DOMAIN text \ Deleted(text, r)
      nth(n) == CHOOSE i \in kept : Cardinality({j \in kept : j <= i}) = n
  IN  [n \in 1..Cardinality(kept) |-> text[nth(n)]] \o Block(r, k)
-----------------------------------------------------------------------------
Init ==
  /\ onServer \in Places
  /\ config \in {<<>>, <<UserLine(Own)>>}
  /\ editor = <<None>>
  /\ job = [w \in Workers |-> Idle]
  /\ wanted = [r \in Repos |-> None]
  /\ user = UserLines(config)
  /\ damaged = FALSE

Whole(text, r) ==
  {i \in DOMAIN text : i + 2 <= Len(text) /\ text[i] = Begin(r)
                        /\ text[i + 1].kind = "host" /\ text[i + 2] = End(r)}

(* The key ssh finds for the repository's alias.                           *)
KeyIn(text, r) ==
  IF Whole(text, r) = {} THEN None ELSE text[(CHOOSE i \in First(Whole(text, r)) : TRUE) + 1].key

(* Whether the file has changed since the call read it.                    *)
Overtaken(w) == job[w].base # config

(* Where the search found another repository's marker, that one's block    *)
(* gave way to the new one.                                                *)
Mistaken(j) ==
  IF onServer THEN {}
  ELSE {j.base[i].repo : i \in First(Begins(j.base, j.repo))} \ {j.repo}

(* The keys to be found in the file that the call writes, its own          *)
(* repository aside: what it read is back, but for a block it mistook.     *)
Expected(w) ==
  [r \in Repos |-> IF r \in Mistaken(job[w]) THEN None
                   ELSE IF Overtaken(w) THEN KeyIn(job[w].base, r) ELSE wanted[r]]

PutsBack(w) == user' = IF Overtaken(w) THEN UserLines(job[w].base) ELSE user
-----------------------------------------------------------------------------
(* A bind that saved its row, or a clone that refreshes the block, with the *)
(* key of the repository's binding.                                         *)
Ensure(w) ==
  /\ ~Active(w)
  /\ \E r \in Repos, k \in Keys :
       Becomes(w, [Idle EXCEPT !.pc = "read", !.repo = r, !.key = k])
  /\ UNCHANGED <<onServer, config, editor, wanted, user, damaged>>

(* read_to_string and replace_managed_block.                               *)
Read(w) ==
  /\ ~onServer /\ job[w].pc = "read"
  /\ LET text == Replaced(config, job[w].repo, job[w].key)
     IN  Len(text) <= MaxLines /\ Becomes(w, [job[w] EXCEPT !.pc = "open", !.base = config, !.text = text])
  /\ UNCHANGED <<onServer, config, editor, wanted, user, damaged>>

(* tokio::fs::write truncates the file, which another call may be writing ... *)
Truncate(w) ==
  /\ job[w].pc = "open"
  /\ config' = <<>>
  /\ Becomes(w, [job[w] EXCEPT !.pc = "fill"])
  /\ wanted' = Expected(w)
  /\ PutsBack(w)
  /\ damaged' = (damaged \/ Torn)
  /\ UNCHANGED <<onServer, editor>>

(* The call has written the file.  It reports an error all the same when    *)
(* set_permissions fails behind the write, or the connection behind the mv. *)
Ends(w, expected) ==
  /\ \E k \in {job[w].key, None} : wanted' = [expected EXCEPT ![job[w].repo] = k]
  /\ Becomes(w, Idle)

(* ... and then writes the text from its start.  What another call wrote   *)
(* there since stays where it is longer.                                   *)
Fill(w) ==
  /\ job[w].pc = "fill"
  /\ config' = job[w].text \o SubSeq(config, Len(job[w].text) + 1, Len(config))
  /\ Ends(w, wanted)
  /\ UNCHANGED <<onServer, editor, user, damaged>>

(* The text goes to the file that the editor's save has replaced.          *)
FillOld(w) ==
  /\ job[w].pc = "old"
  /\ Ends(w, wanted)
  /\ UNCHANGED <<onServer, config, editor, user, damaged>>

(* sed into a temporary file, and the block behind it.                     *)
RunSed(w) ==
  /\ onServer /\ job[w].pc = "read"
  /\ LET text == Scripted(config, job[w].repo, job[w].key)
     IN  Len(text) <= MaxLines /\ Becomes(w, [job[w] EXCEPT !.pc = "mv", !.base = config, !.text = text])
  /\ UNCHANGED <<onServer, config, editor, wanted, user, damaged>>

Move(w) ==
  /\ job[w].pc = "mv"
  /\ config' = job[w].text
  /\ Ends(w, Expected(w))
  /\ PutsBack(w)
  /\ UNCHANGED <<onServer, editor, damaged>>

(* An error before the file is touched.                                    *)
GiveUp(w) ==
  /\ job[w].pc \in {"read", "open", "mv"}
  /\ Becomes(w, Idle)
  /\ UNCHANGED <<onServer, config, editor, wanted, user, damaged>>

(* The write fails with the file truncated.                                *)
DiskFull(w) ==
  /\ "disk full" \in Faults /\ ~damaged
  /\ job[w].pc = "fill"
  /\ Becomes(w, Idle)
  /\ damaged' = TRUE
  /\ UNCHANGED <<onServer, config, editor, wanted, user>>

Crash ==
  /\ IF Torn THEN "torn" \in Faults /\ ~damaged ELSE "crash" \in Faults
  /\ ~Quiet
  /\ job' = [w \in Workers |-> Idle]
  /\ editor' = <<None>>
  /\ damaged' = (damaged \/ Torn)
  /\ UNCHANGED <<onServer, config, wanted, user>>
-----------------------------------------------------------------------------
(* The editor: get_ssh_config_file, then save_ssh_config_file, which       *)
(* renames a complete file into place.  The user adds a line or cuts one;  *)
(* what is saved is what the user wants from then on.  A call that has the *)
(* file open goes on writing the one that is no longer there.              *)
OpenEditor ==
  /\ editor = <<None>>
  /\ editor' = config
  /\ UNCHANGED <<onServer, config, job, wanted, user, damaged>>

Edits(text) ==
  {Append(text, UserLine(u)) : u \in Added}
    \cup {RemoveAt(text, i) : i \in {j \in DOMAIN text : text[j].kind \in Cuts}}

SaveEditor ==
  /\ editor # <<None>>
  /\ \E text \in Edits(editor) :
       LET cut == UserLines(text) = UserLines(editor)   \* not one of the user's
       IN  /\ Len(text) <= MaxLines
           /\ ~(cut /\ damaged)
           /\ config' = text
           /\ user' = UserLines(text)
           /\ wanted' = [r \in Repos |-> KeyIn(text, r)]
           /\ damaged' = (damaged \/ cut \/ Torn)
  /\ editor' = <<None>>
  /\ job' = [w \in Workers |-> IF job[w].pc = "fill" THEN [job[w] EXCEPT !.pc = "old"] ELSE job[w]]
  /\ UNCHANGED onServer
-----------------------------------------------------------------------------
Next ==
  \/ \E w \in Workers :
       \/ Ensure(w) \/ Read(w) \/ Truncate(w) \/ Fill(w) \/ FillOld(w)
       \/ RunSed(w) \/ Move(w)
       \/ GiveUp(w) \/ DiskFull(w)
  \/ Crash \/ OpenEditor \/ SaveEditor

Spec == Init /\ [][Next]_vars
-----------------------------------------------------------------------------
Jobs ==
  [pc : IF onServer THEN {"read", "mv"} ELSE {"read", "open", "fill", "old"},
   repo : Repos, key : Keys, base : Seq(Lines), text : Seq(Lines)]

TypeOK ==
  /\ onServer \in Places
  /\ config \in Seq(Lines)
  /\ editor = <<None>> \/ editor \in Seq(Lines)
  /\ job \in [Workers -> Jobs \cup {Idle}]
  /\ wanted \in [Repos -> Keys \cup {None}]
  /\ user \subseteq Nat \X Lines
  /\ damaged \in BOOLEAN

Sound == ~Torn /\ ~damaged

(* Calls change the user's lines in one way only: a call that another      *)
(* write has overtaken puts back the lines that it read.  Until then they  *)
(* are as the user left them, while the file is not being written and      *)
(* unless a write was torn or the user has cut a marker.                   *)
UserLinesKept == Sound => UserLines(config) = user

(* No other id starts with that of the repository, or the markers are      *)
(* searched as whole lines.                                                *)
FoundAlone(r) == onServer \/ \A s \in Repos \ {r} : ~StartsWith(s, r)

(* However calls overlap, outside the user's lines the file is complete    *)
(* blocks, with the same exception.  A repository has one at most, and     *)
(* nothing is left of a marker, but where ids start with one another.      *)
WellFormed ==
  Sound =>
    /\ \A i \in DOMAIN config :
         /\ config[i].kind = "begin" =>
              i + 2 <= Len(config) /\ config[i + 1].kind = "host"
                /\ config[i + 1].repo = config[i].repo /\ config[i + 2] = End(config[i].repo)
         /\ config[i].kind = "host" => i > 1 /\ config[i - 1] = Begin(config[i].repo)
         /\ config[i].kind = "end" => i > 1 /\ config[i - 1].kind = "host"
                                        /\ config[i - 1].repo = config[i].repo
         /\ config[i].kind = "rest" =>
              ~onServer /\ \E s \in Repos \ {config[i].repo} : StartsWith(config[i].repo, s)
    /\ \A i, j \in DOMAIN config :
         config[i].kind = "begin" /\ FoundAlone(config[i].repo) /\ config[i] = config[j] => i = j

(* With no call in flight, the block ssh finds for a repository names the  *)
(* key of the last call for it that succeeded.  Another call takes it away *)
(* in two ways only: it was overtaken and puts back what it read, or it    *)
(* found this repository's marker in place of its own.                     *)
QuietMeansConfigured ==
  Quiet /\ ~damaged => \A r \in Repos : wanted[r] # None => KeyIn(config, r) = wanted[r]

(* A call that ends with the file written leaves a complete block with its *)
(* key, whatever the file looked like.                                     *)
OwnBlockWritten ==
  [][\A w \in Workers :
       job[w].pc \in {"fill", "mv"} /\ job'[w].pc = "idle" /\ config' # config =>
         \E i \in DOMAIN config' :
           i + 2 <= Len(config') /\ SubSeq(config', i, i + 2) = Block(job[w].repo, job[w].key)]_vars
=============================================================================
