----------------------------- MODULE WindowProofs -----------------------------
(***************************************************************************)
(* Proofs about Window: what each part of the window promises, for every   *)
(* value of the constants.  A part's inductive invariant is in the part's  *)
(* module; a lemma here is about one part, and its variables are v1, v2 .. *)
(* in the order in which Window substitutes them for the part's.           *)
(***************************************************************************)
EXTENDS Window, FiniteSetTheorems, SequenceTheorems, WellFoundedInduction, TLAPS

(* A step is one of the part that runs, and the part stays the same.       *)
LEMMA Onward ==
  ASSUME [Next]_vars
  PROVE  part' = part
BY DEF Next, vars, besideKeys, besideDates, besideActions, besideShell, besidePalette,
       besideSettings, besidePrefs, besideFeedback, besideClones
-----------------------------------------------------------------------------
(* The language and the page size: v1 is saved, v2 locale, v3 size, v4 boot,*)
(* v5 mounted, v6 count, v7 page, v8 atStart, v9 touched, v10 upset.       *)

(* Codes: what from_code returns is a locale, and the locale of a code.    *)
LEMMA FromCodeKnown ==
  ASSUME "en" \in Langs, NEW code PROVE Prefs!FromCode(code) \in Prefs!Locales
BY DEF Prefs!FromCode, Prefs!Zh, Prefs!Locales

LEMMA RoundTrip ==
  ASSUME Langs \cap Prefs!Aliases = {}, NEW l \in Prefs!Locales
  PROVE  Prefs!FromCode(Prefs!Code(l)) = l
<1>1. CASE l = "zh-Hans"
  BY <1>1 DEF Prefs!Code, Prefs!FromCode, Prefs!Subtag, Prefs!Zh
<1>2. CASE l = "zh-Hant"
  BY <1>2 DEF Prefs!Code, Prefs!FromCode, Prefs!Subtag, Prefs!Zh
<1>3. CASE l \notin {"zh-Hans", "zh-Hant"}
  <2>1. Prefs!Code(l) = <<l>> BY <1>3 DEF Prefs!Code
  <2>2. Prefs!Subtag(<<l>>, 1) = l BY DEF Prefs!Subtag
  <2>3. l \in Langs /\ l \notin Prefs!Aliases BY <1>3 DEF Prefs!Locales
  <2>4. Prefs!Alias(l) = l BY <2>3 DEF Prefs!Alias, Prefs!Aliases
  <2> QED BY <2>1, <2>2, <2>3, <2>4 DEF Prefs!FromCode, Prefs!Aliases
<1> QED BY <1>1, <1>2, <1>3

(* Arithmetic of pages.                                                    *)
LEMMA Divided ==
  ASSUME NEW a \in Nat, NEW s \in Nat \ {0}
  PROVE  /\ a \div s \in Nat
         /\ (a \div s) * s <= a /\ a < ((a \div s) + 1) * s
  OBVIOUS

LEMMA Times == ASSUME NEW a \in Int, NEW b \in Int, NEW s \in Nat \ {0}, a < b
               PROVE  a * s + s <= b * s
<1>1. PICK d \in Int : b = a + 1 + d /\ d >= 0
  <2>1. b = a + 1 + (b - a - 1) /\ b - a - 1 >= 0 /\ b - a - 1 \in Int OBVIOUS
  <2> QED BY <2>1
<1>2. b * s = a * s + s + d * s BY <1>1
<1>3. d * s >= 0 BY <1>1
<1>4. a * s \in Int /\ d * s \in Int BY <1>1
<1> QED BY <1>2, <1>3, <1>4

(* The number of pages is the one that just holds n rows.                  *)
LEMMA Pages ==
  ASSUME NEW n \in Nat, NEW s \in Nat \ {0}
  PROVE  /\ Prefs!PageCount(n, s) \in Nat
         /\ Prefs!PageCount(n, s) * s < n + s
         /\ n <= Prefs!PageCount(n, s) * s
<1>1. n + s - 1 \in Nat OBVIOUS
<1>2. PICK q : q = Prefs!PageCount(n, s) OBVIOUS
<1>3. q \in Nat /\ q * s <= n + s - 1 /\ n + s - 1 < (q + 1) * s
  BY <1>1, <1>2, Divided DEF Prefs!PageCount
<1>4. (q + 1) * s = q * s + s /\ q * s \in Int BY <1>3
<1> QED BY <1>2, <1>3, <1>4

(* The matches are partitioned by the pages, and a clamped page has some.  *)
LEMMA PagesPartition ==
  ASSUME NEW n \in Nat, NEW s \in Nat \ {0}, NEW p \in Nat
  PROVE  /\ n > 0 => Prefs!Shown(Prefs!Clamp(p, n, s), n, s) # {}
         /\ UNION {Prefs!Shown(q, n, s) : q \in 1..Prefs!PageCount(n, s)} = 1..n
         /\ \A q, r \in 1..Prefs!PageCount(n, s) :
              q # r => Prefs!Shown(q, n, s) \cap Prefs!Shown(r, n, s) = {}
<1>1. PICK k : k = Prefs!PageCount(n, s) OBVIOUS
<1>2. k \in Nat /\ k * s < n + s /\ n <= k * s BY <1>1, Pages
<1>3. ASSUME n > 0 PROVE Prefs!Shown(Prefs!Clamp(p, n, s), n, s) # {}
  <2>1. k > 0
    <3>1. 0 * s = 0 OBVIOUS
    <3> QED BY <1>2, <1>3, <3>1
  <2>2. PICK c : c = Prefs!Clamp(p, n, s) OBVIOUS
  <2>3. c \in 1..k BY <1>1, <1>2, <2>1, <2>2 DEF Prefs!Clamp, Prefs!AtLeast1
  <2>4. PICK b \in Int : b = c - 1 BY <2>3
  <2>5. b * s + s <= k * s BY <1>2, <2>3, <2>4, Times
  <2>6. b * s \in Int /\ b >= 0 /\ c * s = b * s + s BY <2>3, <2>4
  <2>7. b * s >= 0 BY <2>4, <2>6
  <2>8. b * s + 1 \in Prefs!Shown(c, n, s)
    BY <1>2, <2>4, <2>5, <2>6, <2>7 DEF Prefs!Shown
  <2> QED BY <2>2, <2>8
<1>4. ASSUME NEW i \in 1..n PROVE \E q \in 1..k : i \in Prefs!Shown(q, n, s)
  <2>1. PICK b : b = (i - 1) \div s OBVIOUS
  <2>2. i - 1 \in Nat OBVIOUS
  <2>3. b \in Nat /\ b * s <= i - 1 /\ i - 1 < (b + 1) * s BY <2>1, <2>2, Divided
  <2>4. PICK q \in Int : q = b + 1 BY <2>3
  <2>5. q - 1 = b /\ b * s \in Int /\ q * s \in Int BY <2>3, <2>4
  <2>6. b < k
    <3>1. CASE k < b
      <4>1. k * s + s <= b * s BY <1>2, <2>3, <3>1, Times
      <4> QED BY <1>2, <2>3, <2>5, <4>1
    <3>2. CASE k = b BY <1>2, <2>3, <2>5, <3>2
    <3> QED BY <1>2, <2>3, <3>1, <3>2
  <2>7. i \in Prefs!Shown(q, n, s) BY <2>3, <2>4, <2>5 DEF Prefs!Shown
  <2> QED BY <1>2, <2>3, <2>4, <2>6, <2>7
<1>5. ASSUME NEW q \in 1..k, NEW r \in 1..k, q < r
      PROVE  Prefs!Shown(q, n, s) \cap Prefs!Shown(r, n, s) = {}
  <2>1. PICK b \in Int : b = r - 1 BY <1>2
  <2>2. q * s \in Int /\ b * s \in Int BY <1>2, <2>1
  <2>3. q * s <= b * s
    <3>1. CASE q = b BY <2>2, <3>1
    <3>2. CASE q < b
      <4>1. q * s + s <= b * s BY <1>2, <2>1, <3>2, Times
      <4> QED BY <2>2, <4>1
    <3> QED BY <1>2, <1>5, <2>1, <3>1, <3>2
  <2> QED BY <2>1, <2>2, <2>3 DEF Prefs!Shown
<1>6. UNION {Prefs!Shown(q, n, s) : q \in 1..k} = 1..n
  <2>1. \A q : Prefs!Shown(q, n, s) \subseteq 1..n BY DEF Prefs!Shown
  <2> QED BY <1>4, <2>1
<1>7. \A q, r \in 1..k : q # r => Prefs!Shown(q, n, s) \cap Prefs!Shown(r, n, s) = {}
  <2>1. \A q, r \in 1..k : q # r => q < r \/ r < q BY <1>2
  <2> QED BY <1>5, <2>1
<1> QED BY <1>1, <1>3, <1>6, <1>7
-----------------------------------------------------------------------------
(* What a save looks like once it is sent.                                 *)
LEMMA Sending ==
  ASSUME Prefs!PreferencesAssumption, Prefs!Shapes, NEW w \in Workers, NEW op, NEW value, 
         Prefs!Sends(w, op, value),
         \/ op = "size" /\ value \in 1..500
         \/ op \in {"language", "repair"} /\ value \in Prefs!Codes
  PROVE  /\ ~Prefs!Active(w) /\ job' \in [Workers -> Prefs!Jobs]
         /\ \A v \in Workers \ {w} : job'[v] = job[v]
         /\ job'[w].op = op /\ job'[w].pc = "sent"
         /\ op = "size" => job'[w].size = value
         /\ op # "size" => job'[w].code = value
<1>1. PICK j : j = Prefs!Save(op, value) OBVIOUS
<1>2. /\ j \in Prefs!Jobs /\ j.op = op /\ j.pc = "sent"
      /\ op = "size" => j.size = value
      /\ op # "size" => j.code = value
  BY <1>1 DEF Prefs!Save, Prefs!Jobs
<1> QED BY <1>1, <1>2 DEF Prefs!Sends, Prefs!Becomes, Prefs!Shapes

LEMMA ClampNat ==
  ASSUME NEW p \in Nat, NEW n \in Nat, NEW s \in Nat \ {0} PROVE Prefs!Clamp(p, n, s) \in Nat
BY Pages DEF Prefs!Clamp, Prefs!AtLeast1

LEMMA DetectedKnown == ASSUME Prefs!PreferencesAssumption PROVE Prefs!Detected \in Prefs!Locales
BY FromCodeKnown DEF Prefs!PreferencesAssumption, Prefs!Detected

LEMMA FirstSave ==
  ASSUME Prefs!PreferencesAssumption, NEW w \in Workers
  PROVE  /\ Prefs!StartJob(w) \in [Workers -> Prefs!Jobs]
         /\ Prefs!StartJob(w)[w].op = "size" /\ Prefs!StartJob(w)[w].size = Default
         /\ Prefs!StartJob(w)[w].pc = "sent"
         /\ \A v \in Workers \ {w} : Prefs!StartJob(w)[v].op = "idle"
<1>1. Default \in 1..500 BY DEF Prefs!PreferencesAssumption
<1>2. PICK j : j = Prefs!Save("size", Default) OBVIOUS
<1>3. PICK i : i = Prefs!Save("idle", None) OBVIOUS
<1>4. j \in Prefs!Jobs /\ j.op = "size" /\ j.size = Default /\ j.pc = "sent"
  BY <1>1, <1>2 DEF Prefs!Save, Prefs!Jobs
<1>5. i \in Prefs!Jobs /\ i.op = "idle" BY <1>3 DEF Prefs!Save, Prefs!Jobs
<1>6. Prefs!StartJob(w) = [v \in Workers |-> IF v = w THEN j ELSE i]
  BY <1>2, <1>3 DEF Prefs!StartJob, Prefs!Idle
<1> QED BY <1>4, <1>5, <1>6

LEMMA StartKept == ASSUME Prefs!PreferencesAssumption, Prefs!Init PROVE Prefs!Kept
<1>1. PICK w \in Workers : job = Prefs!StartJob(w) BY DEF Prefs!Init
<1>2. Default \in 1..500 /\ Prefs!Detected \in Prefs!Locales
  BY DetectedKnown DEF Prefs!PreferencesAssumption
<1>3. Prefs!Shapes
  <2>1. \A v \in Workers : /\ job[v].op = "size" => job[v].size \in 1..500
                           /\ job[v].op \notin {"language", "repair"}
    BY <1>1, <1>2, FirstSave
  <2>2. job \in [Workers -> Prefs!Jobs] BY <1>1, FirstSave
  <2>3. v1 \in Prefs!Saves BY DEF Prefs!Init, Prefs!Saves
  <2>4. /\ v4.pc = "language" /\ v4.answer = None
        /\ v4 \in Prefs!Boots
    BY DEF Prefs!Init, Prefs!StartBoot, Prefs!Boots
  <2> QED BY <1>2, <2>1, <2>2, <2>3, <2>4 DEF Prefs!Init, Prefs!Shapes
<1>4. Prefs!SizeOnItsWay BY <1>1, FirstSave DEF Prefs!Init, Prefs!SizeOnItsWay, Prefs!Saving
<1>5. Prefs!LanguageOnItsWay BY <1>1, FirstSave DEF Prefs!Init, Prefs!LanguageOnItsWay
<1>6. Prefs!StartRead BY DEF Prefs!Init, Prefs!StartRead, Prefs!StartBoot
<1> QED BY <1>3, <1>4, <1>5, <1>6 DEF Prefs!Kept

LEMMA RestartKept == ASSUME Prefs!PreferencesAssumption, Prefs!Shapes, Prefs!Restart
  PROVE Prefs!Kept'
<1>1. PICK w \in Workers : job' = Prefs!StartJob(w) BY DEF Prefs!Restart, Prefs!Starts
<1>2. Default \in 1..500 /\ Prefs!Detected \in Prefs!Locales
  BY DetectedKnown DEF Prefs!PreferencesAssumption
<1>3. Prefs!Shapes'
  <2>1. \A v \in Workers : /\ job'[v].op = "size" => job'[v].size \in 1..500
                           /\ job'[v].op \notin {"language", "repair"}
    BY <1>1, <1>2, FirstSave
  <2>2. job' \in [Workers -> Prefs!Jobs] BY <1>1, FirstSave
  <2>3. v1' = v1 /\ v8' = v1 BY DEF Prefs!Restart, Prefs!Starts
  <2>4. /\ v4'.pc = "language" /\ v4'.answer = None
        /\ v4' \in Prefs!Boots
    BY DEF Prefs!Restart, Prefs!Starts, Prefs!StartBoot, Prefs!Boots
  <2>5. /\ v2' \in Prefs!Locales /\ v3' \in 1..500
        /\ v5' \in BOOLEAN /\ v6' \in Nat /\ v7' \in Nat
    BY <1>2 DEF Prefs!Restart, Prefs!Starts
  <2>6. v1' \in Prefs!Saves /\ v8' \in Prefs!Saves BY <2>3 DEF Prefs!Shapes
  <2> QED BY <2>1, <2>2, <2>4, <2>5, <2>6 DEF Prefs!Shapes
<1>4. Prefs!SizeOnItsWay'
  BY <1>1, FirstSave DEF Prefs!Restart, Prefs!Starts, Prefs!SizeOnItsWay, Prefs!Saving
<1>5. Prefs!LanguageOnItsWay'
  BY <1>1, FirstSave DEF Prefs!Restart, Prefs!Starts, Prefs!LanguageOnItsWay
<1>6. Prefs!StartRead' BY DEF Prefs!Restart, Prefs!Starts, Prefs!StartRead, Prefs!StartBoot,
  Prefs!Detected
<1> QED BY <1>3, <1>4, <1>5, <1>6 DEF Prefs!Kept

(* The start of the window reads the settings, and sets the language.      *)
LEMMA BootKept ==
  ASSUME Prefs!PreferencesAssumption, Prefs!Kept,
    Prefs!BootReads \/ Prefs!BootFails \/ Prefs!BootLanguage PROVE Prefs!Kept'
<1>1. /\ UNCHANGED <<v1, v3, v5, v6, v7, job, v8, v9>>
      /\ v10 \subseteq v10'
  BY DEF Prefs!BootReads, Prefs!BootFails, Prefs!BootLanguage, Prefs!Marked, Prefs!history
<1>2. CASE Prefs!BootReads
  <2>1. PICK a : a = IF v4.pc = "language" THEN v1.language ELSE v1.size OBVIOUS
  <2>2. v4' = [v4 EXCEPT !.read = TRUE, !.answer = a] /\ v2' = v2 /\ v10' = v10
    BY <1>2, <2>1 DEF Prefs!BootReads, Prefs!history
  <2>3. v4'.pc = v4.pc /\ v4'.read = TRUE /\ v4'.answer = a
    BY <2>2 DEF Prefs!Kept, Prefs!Shapes, Prefs!Boots
  <2>8. v4' \in Prefs!Boots
    <3>1. a \in Prefs!Codes \cup (1..500) \cup {None} /\ v4.pc \in {"language", "size", "done"}
      BY <2>1 DEF Prefs!Kept, Prefs!Shapes, Prefs!Boots, Prefs!Saves
    <3>2. v4' = [pc |-> v4.pc, read |-> TRUE, answer |-> a]
      BY <2>2 DEF Prefs!Kept, Prefs!Shapes, Prefs!Boots
    <3> QED BY <3>1, <3>2 DEF Prefs!Boots
  <2>4. Prefs!Shapes'
    <3>1. v4'.pc = "language" => v4'.answer \in Prefs!Codes \cup {None}
      BY <2>1, <2>3 DEF Prefs!Kept, Prefs!Shapes, Prefs!Saves
    <3> QED BY <1>1, <2>2, <2>8, <3>1 DEF Prefs!Kept, Prefs!Shapes
  <2>5. "size" \notin v10 => Prefs!SizeOnItsWay' BY <1>1 DEF Prefs!Kept, Prefs!SizeOnItsWay,
    Prefs!Saving
  <2>6. "language" \notin v10 => Prefs!LanguageOnItsWay'
    BY <1>1, <2>2, <2>3 DEF Prefs!Kept, Prefs!LanguageOnItsWay, Prefs!Ahead
  <2>7. "language" \notin v9 \cup v10 => Prefs!StartRead'
    BY <1>1, <2>1, <2>2, <2>3 DEF Prefs!Kept, Prefs!LanguageOnItsWay, Prefs!StartRead,
      Prefs!Detected
  <2> QED BY <1>1, <2>2, <2>4, <2>5, <2>6, <2>7 DEF Prefs!Kept
<1>3. CASE Prefs!BootFails
  <2>1. v4' = [v4 EXCEPT !.read = TRUE] /\ v2' = v2 /\ v10' = v10 \cup {v4.pc}
    BY <1>3 DEF Prefs!BootFails, Prefs!Marked
  <2>2. v4'.pc = v4.pc /\ v4'.answer = v4.answer /\ v4'.read = TRUE
    BY <2>1 DEF Prefs!Kept, Prefs!Shapes, Prefs!Boots
  <2>7. v4' \in Prefs!Boots
    <3>1. v4' = [pc |-> v4.pc, read |-> TRUE, answer |-> v4.answer]
      BY <2>1 DEF Prefs!Kept, Prefs!Shapes, Prefs!Boots
    <3> QED BY <3>1 DEF Prefs!Kept, Prefs!Shapes, Prefs!Boots
  <2>3. Prefs!Shapes' BY <1>1, <2>1, <2>2, <2>7 DEF Prefs!Kept, Prefs!Shapes
  <2>4. "size" \notin v10 => Prefs!SizeOnItsWay' BY <1>1 DEF Prefs!Kept, Prefs!SizeOnItsWay,
    Prefs!Saving
  <2>5. "language" \notin v10 => Prefs!LanguageOnItsWay'
    BY <1>1, <2>1, <2>2 DEF Prefs!Kept, Prefs!LanguageOnItsWay, Prefs!Ahead
  <2>6. "language" \notin v9 \cup v10' => Prefs!StartRead'
    BY <1>1, <2>1, <2>2 DEF Prefs!Kept, Prefs!StartRead, Prefs!Detected
  <2> QED BY <1>1, <2>3, <2>4, <2>5, <2>6 DEF Prefs!Kept
<1>4. CASE Prefs!BootLanguage
  <2>1. /\ v4.pc = "language" /\ v4.read /\ v10' = v10
        /\ v4' = [pc |-> "size", answer |-> None, read |-> FALSE]
        /\ v2' = IF v4.answer = None THEN v2 ELSE Prefs!FromCode(v4.answer)
    BY <1>4 DEF Prefs!BootLanguage, Prefs!history
  <2>2. v4'.pc = "size" /\ v4'.answer = None /\ v4'.read = FALSE BY <2>1
  <2>3. v2' \in Prefs!Locales
    BY <2>1, FromCodeKnown DEF Prefs!PreferencesAssumption, Prefs!Kept, Prefs!Shapes
  <2>4. Prefs!Shapes' BY <1>1, <2>1, <2>3 DEF Prefs!Kept, Prefs!Shapes, Prefs!Boots
  <2>5. "size" \notin v10 => Prefs!SizeOnItsWay' BY <1>1 DEF Prefs!Kept, Prefs!SizeOnItsWay,
    Prefs!Saving
  <2>6. "language" \notin v10 => Prefs!LanguageOnItsWay'
    BY <1>1, <2>1, <2>2 DEF Prefs!Kept, Prefs!LanguageOnItsWay
  <2>7. v4.answer # None => Prefs!Code(v2') = v4.answer
    <3>1. ASSUME v4.answer # None PROVE \E l \in Prefs!Locales : v4.answer = Prefs!Code(l)
      BY <2>1, <3>1 DEF Prefs!Kept, Prefs!Shapes, Prefs!Codes
    <3> QED BY <2>1, <3>1, RoundTrip DEF Prefs!PreferencesAssumption
  <2>8. "language" \notin v9 \cup v10 => Prefs!StartRead'
    BY <1>1, <2>1, <2>2, <2>7 DEF Prefs!Kept, Prefs!StartRead, Prefs!Detected
  <2> QED BY <1>1, <2>1, <2>4, <2>5, <2>6, <2>8 DEF Prefs!Kept
<1> QED BY <1>2, <1>3, <1>4

(* What the effects of a list send with a new page size.                   *)
LEMMA SizeSet ==
  ASSUME Prefs!PreferencesAssumption, Prefs!Kept, NEW w \in Workers, NEW n \in 1..500,
    Prefs!SetSize(w, n),
         UNCHANGED <<v1, v5>>
  PROVE  /\ v3' = n /\ v7' \in Nat
         /\ job' \in [Workers -> Prefs!Jobs]
         /\ \A v \in Workers : job'[v] = job[v] \/ (job'[v].op = "size" /\ job'[v].size = n)
         /\ \A v \in Workers : job'[v].op # "size" => job'[v] = job[v]
         /\ \A v \in Workers : job[v].op # "idle" => job'[v] = job[v]
         /\ v10 \subseteq v10' /\ ("language" \in v10' => "language" \in v10)
         /\ "size" \notin v10' => Prefs!SizeOnItsWay'
<1>1. v3' = n BY DEF Prefs!SetSize
<1>2. v7' \in Nat
  <2>1. n \in Nat \ {0} OBVIOUS
  <2> QED BY <2>1, ClampNat DEF Prefs!SetSize, Prefs!Kept, Prefs!Shapes
<1>3. CASE v5
  <2>1. Prefs!Sends(w, "size", n) /\ Prefs!Overlap("size") BY <1>3 DEF Prefs!SetSize
  <2>2. /\ ~Prefs!Active(w) /\ job' \in [Workers -> Prefs!Jobs]
        /\ \A v \in Workers \ {w} : job'[v] = job[v]
        /\ job'[w].op = "size" /\ job'[w].pc = "sent" /\ job'[w].size = n
    BY <2>1, Sending DEF Prefs!Kept
  <2>3. v10 \subseteq v10' /\ ("language" \in v10' => "language" \in v10)
        /\ (Prefs!Saving("size") => "size" \in v10')
    BY <2>1 DEF Prefs!Overlap, Prefs!Marked
  <2>4. ASSUME "size" \notin v10' PROVE Prefs!SizeOnItsWay'
    <3>1. \A v \in Workers : job'[v].op = "size" => v = w BY <2>2, <2>3, <2>4 DEF Prefs!Saving
    <3> QED BY <1>1, <2>2, <3>1 DEF Prefs!SizeOnItsWay, Prefs!Saving
  <2> QED BY <1>1, <1>2, <2>2, <2>3, <2>4 DEF Prefs!Active
<1>4. CASE ~v5
  <2>1. job' = job /\ v10' = v10 BY <1>4 DEF Prefs!SetSize
  <2>2. job \in [Workers -> Prefs!Jobs] BY DEF Prefs!Kept, Prefs!Shapes
  <2>3. ASSUME "size" \notin v10' PROVE Prefs!SizeOnItsWay'
    <3>1. ~v5' BY <1>4
    <3> QED BY <2>1, <2>3, <3>1 DEF Prefs!Kept, Prefs!SizeOnItsWay
  <2> QED BY <1>1, <1>2, <2>1, <2>2, <2>3
<1> QED BY <1>3, <1>4

LEMMA SizeKept ==
  ASSUME Prefs!PreferencesAssumption, Prefs!Kept, NEW w \in Workers, NEW n \in 1..500,
    Prefs!SetSize(w, n),
         UNCHANGED <<v1, v2, v5, v6, v8>>,
         v4' = v4 \/ (v4.pc # "language" /\ v4'.pc = "done" /\ v4' \in Prefs!Boots),
         "language" \in v9' <=> "language" \in v9
  PROVE  Prefs!Kept'
<1>1. Prefs!Shapes'
  <2>1. \A v \in Workers : job'[v] = job[v] \/ (job'[v].op = "size" /\ job'[v].size = n)
    BY SizeSet, ZenonT(60)
  <2>2. \A v \in Workers : /\ job'[v].op = "size" => job'[v].size \in 1..500
                           /\ job'[v].op \in {"language",
                             "repair"} => job'[v].code \in Prefs!Codes
    BY <2>1 DEF Prefs!Kept, Prefs!Shapes
  <2>3. v3' = n /\ v7' \in Nat /\ job' \in [Workers -> Prefs!Jobs] BY SizeSet
  <2>4. v4' \in Prefs!Boots /\ (v4'.pc = "language" => v4'.answer \in Prefs!Codes \cup {None})
    BY DEF Prefs!Kept, Prefs!Shapes
  <2>5. /\ v2' \in Prefs!Locales /\ v5' \in BOOLEAN /\ v6' \in Nat
        /\ v1' \in Prefs!Saves /\ v8' \in Prefs!Saves
    BY DEF Prefs!Kept, Prefs!Shapes
  <2> QED BY <2>2, <2>3, <2>4, <2>5 DEF Prefs!Shapes
<1>2. "size" \notin v10' => Prefs!SizeOnItsWay' BY SizeSet
<1>3. ASSUME "language" \notin v10 PROVE Prefs!LanguageOnItsWay'
  <2>1. \A v \in Workers : job'[v].op \in {"language", "repair"} => job'[v] = job[v]
    BY SizeSet
  <2>2. \A v \in Workers : Prefs!Ahead(job[v]) => Prefs!Ahead(job[v])'
    <3>1. \A v \in Workers : job[v].op # "idle" => job'[v] = job[v] BY SizeSet
    <3> QED BY <3>1 DEF Prefs!Ahead
  <2>3. Prefs!LanguageOnItsWay BY <1>3 DEF Prefs!Kept
  <2>4. v4.pc # "language" => v4'.pc # "language" OBVIOUS
  <2> HIDE DEF Prefs!Ahead
  <2>5. CASE "language" \in v9 BY <2>1, <2>2, <2>3, <2>4, <2>5 DEF Prefs!LanguageOnItsWay
  <2>6. CASE "language" \notin v9 BY <2>1, <2>3, <2>6 DEF Prefs!LanguageOnItsWay
  <2> QED BY <2>5, <2>6
<1>4. ASSUME "language" \notin v9 \cup v10 PROVE Prefs!StartRead'
  BY <1>4 DEF Prefs!Kept, Prefs!StartRead, Prefs!Detected
<1>5. v10 \subseteq v10' /\ ("language" \in v10' => "language" \in v10) BY SizeSet
<1> QED BY <1>1, <1>2, <1>3, <1>4, <1>5 DEF Prefs!Kept

LEMMA SizesKept ==
  ASSUME Prefs!PreferencesAssumption, Prefs!Kept, NEW w \in Workers,
         \/ Prefs!BootSize(w)
         \/ \E n \in Sizes : Prefs!ChooseSize(w, n)
  PROVE  Prefs!Kept'
<1>1. CASE Prefs!BootSize(w)
  <2>1. /\ v4.pc = "size" /\ v4' = [pc |-> "done", answer |-> None, read |-> FALSE]
        /\ UNCHANGED <<v1, v2, v5, v6, v8, v9>>
    BY <1>1 DEF Prefs!BootSize
  <2>2. v4' \in Prefs!Boots /\ v4'.pc = "done" BY <2>1 DEF Prefs!Boots
  <2>3. CASE v4.answer \in 1..500
    <3>1. Prefs!SetSize(w, v4.answer) BY <1>1, <2>3 DEF Prefs!BootSize
    <3> QED BY <2>1, <2>2, <2>3, <3>1, SizeKept
  <2>4. CASE v4.answer \notin 1..500
    <3>1. UNCHANGED <<v3, v7, job, v10>> BY <1>1, <2>4 DEF Prefs!BootSize
    <3>2. Prefs!Shapes' BY <2>1, <2>2, <3>1 DEF Prefs!Kept, Prefs!Shapes
    <3>3. "size" \notin v10 => Prefs!SizeOnItsWay' BY <2>1, <3>1 DEF Prefs!Kept,
      Prefs!SizeOnItsWay, Prefs!Saving
    <3>4. "language" \notin v10 => Prefs!LanguageOnItsWay'
      BY <2>1, <2>2, <3>1 DEF Prefs!Kept, Prefs!LanguageOnItsWay, Prefs!Ahead
    <3>5. "language" \notin v9 \cup v10 => Prefs!StartRead'
      BY <2>1, <2>2, <3>1 DEF Prefs!Kept, Prefs!StartRead, Prefs!Detected
    <3> QED BY <2>1, <3>1, <3>2, <3>3, <3>4, <3>5 DEF Prefs!Kept
  <2> QED BY <2>3, <2>4
<1>2. ASSUME NEW n \in Sizes, Prefs!ChooseSize(w, n) PROVE Prefs!Kept'
  <2>1. n \in 1..500 BY DEF Prefs!PreferencesAssumption
  <2>2. /\ Prefs!SetSize(w, n) /\ UNCHANGED <<v1, v2, v4, v5, v6, v8>>
        /\ v9' = v9 \cup {"size"}
    BY <1>2 DEF Prefs!ChooseSize
  <2> QED BY <2>1, <2>2, SizeKept
<1> QED BY <1>1, <1>2

(* Leaving the list, opening it, and what changes its rows and its page.   *)
LEMMA ListKept ==
  ASSUME Prefs!PreferencesAssumption, Prefs!Kept,
         \/ Prefs!LeaveList
         \/ \E w \in Workers : Prefs!OpenList(w)
         \/ \E n \in Counts : Prefs!ListChanges(n) \/ Prefs!Filter(n)
         \/ \E p \in Prefs!Turns : Prefs!GoTo(p)
  PROVE  Prefs!Kept'
<1>1. UNCHANGED <<v1, v2, v3, v4, v8, v9>>
  BY DEF Prefs!LeaveList, Prefs!OpenList, Prefs!ListChanges, Prefs!Filter, Prefs!GoTo,
    Prefs!history
<1>2. Prefs!Turns \subseteq Nat /\ Counts \subseteq Nat
  <2>1. Counts \subseteq Nat BY DEF Prefs!PreferencesAssumption
  <2>2. \A n \in Counts : 1..n \subseteq Nat BY <2>1
  <2>3. ASSUME NEW p \in Prefs!Turns PROVE p \in Nat
    <3>1. CASE p = 0 BY <3>1
    <3>2. CASE p # 0
      <4>1. p \in UNION {1..n : n \in Counts} BY <3>2 DEF Prefs!Turns
      <4>2. PICK S \in {1..n : n \in Counts} : p \in S BY <4>1
      <4> QED BY <2>2, <4>2
    <3> QED BY <3>1, <3>2
  <2> QED BY <2>1, <2>3
<1>3. CASE \/ Prefs!LeaveList
           \/ \E n \in Counts : Prefs!ListChanges(n) \/ Prefs!Filter(n)
           \/ \E p \in Prefs!Turns : Prefs!GoTo(p)
  <2>1. job' = job /\ v10' = v10
    BY <1>3 DEF Prefs!LeaveList, Prefs!ListChanges, Prefs!Filter, Prefs!GoTo, Prefs!history
  <2>2. v5' \in BOOLEAN /\ (v5' => v5)
    BY <1>3 DEF Prefs!LeaveList, Prefs!ListChanges, Prefs!Filter, Prefs!GoTo, Prefs!Kept,
      Prefs!Shapes
  <2>3. v6' \in Nat /\ v7' \in Nat
    <3>1. v3 \in Nat \ {0} /\ v6 \in Nat /\ v7 \in Nat BY DEF Prefs!Kept, Prefs!Shapes
    <3>2. ASSUME NEW n \in Counts, Prefs!ListChanges(n) \/ Prefs!Filter(n)
          PROVE  v6' \in Nat /\ v7' \in Nat
      <4>1. n \in Nat BY <1>2
      <4>2. CASE Prefs!ListChanges(n) BY <3>1, <4>1, <4>2, ClampNat DEF Prefs!ListChanges
      <4>3. CASE Prefs!Filter(n) BY <4>1, <4>3 DEF Prefs!Filter
      <4> QED BY <3>2, <4>2, <4>3
    <3>3. ASSUME NEW p \in Prefs!Turns, Prefs!GoTo(p) PROVE v6' \in Nat /\ v7' \in Nat
      <4>1. p \in Nat BY <1>2
      <4> QED BY <3>1, <3>3, <4>1, ClampNat DEF Prefs!GoTo
    <3>4. CASE Prefs!LeaveList BY <3>4 DEF Prefs!LeaveList
    <3> QED BY <1>3, <3>2, <3>3, <3>4
  <2>4. Prefs!Shapes' BY <1>1, <2>1, <2>2, <2>3 DEF Prefs!Kept, Prefs!Shapes
  <2>5. "size" \notin v10 => Prefs!SizeOnItsWay'
    BY <1>1, <2>1, <2>2 DEF Prefs!Kept, Prefs!SizeOnItsWay, Prefs!Saving
  <2>6. "language" \notin v10 => Prefs!LanguageOnItsWay'
    BY <1>1, <2>1 DEF Prefs!Kept, Prefs!LanguageOnItsWay, Prefs!Ahead
  <2>7. "language" \notin v9 \cup v10 => Prefs!StartRead'
    BY <1>1, <2>1 DEF Prefs!Kept, Prefs!StartRead, Prefs!Detected
  <2> QED BY <1>1, <2>1, <2>4, <2>5, <2>6, <2>7 DEF Prefs!Kept
<1>4. ASSUME NEW w \in Workers, Prefs!OpenList(w) PROVE Prefs!Kept'
  <2>1. Prefs!Sends(w, "size", v3) /\ Prefs!Overlap("size") /\ v5' = TRUE
        /\ UNCHANGED <<v6, v7>>
    BY <1>4 DEF Prefs!OpenList
  <2>2. /\ ~Prefs!Active(w) /\ job' \in [Workers -> Prefs!Jobs]
        /\ \A v \in Workers \ {w} : job'[v] = job[v]
        /\ job'[w].op = "size" /\ job'[w].pc = "sent" /\ job'[w].size = v3
    BY <2>1, Sending DEF Prefs!Kept, Prefs!Shapes
  <2>3. v10 \subseteq v10' /\ ("language" \in v10' => "language" \in v10)
        /\ (Prefs!Saving("size") => "size" \in v10')
    BY <2>1 DEF Prefs!Overlap, Prefs!Marked
  <2>4. Prefs!Shapes' BY <1>1, <2>1, <2>2 DEF Prefs!Kept, Prefs!Shapes
  <2>5. ASSUME "size" \notin v10' PROVE Prefs!SizeOnItsWay'
    <3>1. \A v \in Workers : job'[v].op = "size" => v = w BY <2>2, <2>3, <2>5 DEF Prefs!Saving
    <3> QED BY <1>1, <2>2, <3>1 DEF Prefs!SizeOnItsWay, Prefs!Saving
  <2>6. ASSUME "language" \notin v10 PROVE Prefs!LanguageOnItsWay'
    <3>1. Prefs!LanguageOnItsWay BY <2>6 DEF Prefs!Kept
    <3>2. \A v \in Workers : Prefs!Ahead(job[v]) => Prefs!Ahead(job[v])'
      BY <1>1, <2>2 DEF Prefs!Ahead, Prefs!Active
    <3> HIDE DEF Prefs!Ahead
    <3> QED BY <1>1, <2>2, <3>1, <3>2 DEF Prefs!LanguageOnItsWay
  <2>7. "language" \notin v9 \cup v10 => Prefs!StartRead'
    BY <1>1 DEF Prefs!Kept, Prefs!StartRead, Prefs!Detected
  <2> QED BY <1>1, <2>3, <2>4, <2>5, <2>6, <2>7 DEF Prefs!Kept
<1> QED BY <1>3, <1>4

(* A choice is on its way itself.                                          *)
LEMMA ChoiceKept ==
  ASSUME Prefs!PreferencesAssumption, Prefs!Kept, NEW w \in Workers, NEW l \in Langs,
    Prefs!ChooseLanguage(w, l)
  PROVE  Prefs!Kept'
<1>1. /\ v2' = l /\ l \in Prefs!Locales /\ v9' = v9 \cup {"language"}
      /\ UNCHANGED <<v1, v3, v4, v5, v6, v7, v8>>
  BY DEF Prefs!ChooseLanguage, Prefs!Locales
<1>2. Prefs!Code(l) \in Prefs!Codes BY <1>1 DEF Prefs!Codes
<1>3. /\ ~Prefs!Active(w) /\ job' \in [Workers -> Prefs!Jobs]
      /\ \A v \in Workers \ {w} : job'[v] = job[v]
      /\ job'[w].op = "language" /\ job'[w].pc = "sent" /\ job'[w].code = Prefs!Code(l)
  BY <1>2, Sending DEF Prefs!ChooseLanguage, Prefs!Kept
<1>4. /\ v10 \subseteq v10' /\ ("size" \in v10' => "size" \in v10)
      /\ (Prefs!Saving("repair") \/ v4.pc = "language") => "language" \in v10'
  BY DEF Prefs!ChooseLanguage, Prefs!Marked
<1>5. Prefs!Shapes' BY <1>1, <1>2, <1>3 DEF Prefs!Kept, Prefs!Shapes
<1>6. "size" \notin v10 => Prefs!SizeOnItsWay'
  <2>1. \A v \in Workers : job'[v].op = "size" <=> job[v].op = "size" BY <1>3 DEF Prefs!Active
  <2>2. \A v \in Workers : job'[v].op = "size" => job'[v] = job[v] BY <1>3
  <2> QED BY <1>1, <2>1, <2>2 DEF Prefs!Kept, Prefs!SizeOnItsWay, Prefs!Saving
<1>7. ASSUME "language" \notin v10' PROVE Prefs!LanguageOnItsWay'
  <2>1. Prefs!Ahead(job[w])' BY <1>1, <1>3 DEF Prefs!Ahead
  <2>2. \A v \in Workers : job'[v].op # "repair" BY <1>3, <1>4, <1>7 DEF Prefs!Saving
  <2>3. v4'.pc # "language" BY <1>1, <1>4, <1>7
  <2> HIDE DEF Prefs!Ahead
  <2> QED BY <1>1, <2>1, <2>2, <2>3 DEF Prefs!LanguageOnItsWay
<1>8. "language" \in v9' BY <1>1
<1> QED BY <1>4, <1>5, <1>6, <1>7, <1>8 DEF Prefs!Kept

(* A call that goes on, or ends, and leaves the window as it is.           *)
LEMMA Moved ==
  ASSUME Prefs!PreferencesAssumption, Prefs!Kept, NEW w \in Workers, NEW j \in Prefs!Jobs,
    Prefs!Becomes(w, j),
         j.op = "size" => j.size \in 1..500,
         j.op \in {"language", "repair"} => j.code \in Prefs!Codes,
         v1' \in Prefs!Saves, UNCHANGED <<Prefs!window, v8, v9>>
  PROVE  /\ Prefs!Shapes'
         /\ job'[w] = j /\ \A v \in Workers \ {w} : job'[v] = job[v]
         /\ UNCHANGED <<v2, v3, v4, v5, v8, v9>>
         /\ "language" \notin v9 \cup v10 => Prefs!StartRead'
<1>1. job \in [Workers -> Prefs!Jobs] BY DEF Prefs!Kept, Prefs!Shapes
<1>2. /\ job' \in [Workers -> Prefs!Jobs]
      /\ job'[w] = j /\ \A v \in Workers \ {w} : job'[v] = job[v]
  BY <1>1 DEF Prefs!Becomes
<1>3. UNCHANGED <<v2, v3, v4, v5, v6, v7, v8, v9>> BY DEF Prefs!window
<1>4. Prefs!Shapes' BY <1>2, <1>3 DEF Prefs!Kept, Prefs!Shapes
<1>5. "language" \notin v9 \cup v10 => Prefs!StartRead'
  BY <1>3 DEF Prefs!Kept, Prefs!StartRead, Prefs!Detected
<1> QED BY <1>2, <1>3, <1>4, <1>5

(* Saves land, or fail, in any order.                                      *)
LEMMA LandedKept ==
  ASSUME Prefs!PreferencesAssumption, Prefs!Kept, NEW w \in Workers,
    Prefs!Land(w) \/ Prefs!LandFails(w) PROVE Prefs!Kept'
<1>1. PICK j : j = [job[w] EXCEPT !.pc = "landed"] OBVIOUS
<1>2. /\ Prefs!Active(w) /\ job[w].pc = "sent" /\ Prefs!Becomes(w, j)
      /\ UNCHANGED <<Prefs!window, v8, v9>>
  BY <1>1 DEF Prefs!Land, Prefs!LandFails, Prefs!history
<1>3. job[w] \in Prefs!Jobs BY DEF Prefs!Kept, Prefs!Shapes
<1>4. /\ j.op = job[w].op /\ j.code = job[w].code /\ j.size = job[w].size /\ j.pc = "landed"
      /\ j \in Prefs!Jobs
  BY <1>1, <1>3 DEF Prefs!Jobs
<1>5. /\ j.op = "size" => j.size \in 1..500
      /\ j.op \in {"language", "repair"} => j.code \in Prefs!Codes
  BY <1>4 DEF Prefs!Kept, Prefs!Shapes
<1>6. job[w].op \in {"size", "language", "repair"} BY <1>2, <1>3 DEF Prefs!Active, Prefs!Jobs
<1>7. CASE Prefs!Land(w)
  <2>1. v10' = v10 BY <1>7 DEF Prefs!Land, Prefs!history
  <2>2. CASE job[w].op = "size"
    <3>1. v1' = [v1 EXCEPT !.size = job[w].size] BY <1>7, <2>2 DEF Prefs!Land, Prefs!Setting
    <3>2. v1' \in Prefs!Saves /\ v1'.size = job[w].size /\ v1'.language = v1.language
      BY <1>4, <1>5, <2>2, <3>1 DEF Prefs!Kept, Prefs!Shapes, Prefs!Saves
    <3>3. /\ Prefs!Shapes'
          /\ job'[w] = j /\ \A v \in Workers \ {w} : job'[v] = job[v]
          /\ UNCHANGED <<v2, v3, v4, v5, v8, v9>>
          /\ "language" \notin v9 \cup v10 => Prefs!StartRead'
      BY <1>2, <1>4, <1>5, <3>2, Moved
    <3>4. ASSUME "size" \notin v10 PROVE Prefs!SizeOnItsWay'
      <4>1. \A v \in Workers : job[v].op = "size" => v = w
        BY <2>2, <3>4 DEF Prefs!Kept, Prefs!SizeOnItsWay
      <4>2. \A v \in Workers : job'[v].op = "size" => v = w BY <3>3, <4>1
      <4>3. v5 => job[w].size = v3 BY <2>2, <3>4 DEF Prefs!Kept, Prefs!SizeOnItsWay
      <4>4. \E v \in Workers : job'[v].op = "size" BY <1>4, <2>2, <3>3
      <4> QED BY <1>4, <3>2, <3>3, <4>2, <4>3, <4>4 DEF Prefs!SizeOnItsWay, Prefs!Saving
    <3>5. ASSUME "language" \notin v10 PROVE Prefs!LanguageOnItsWay'
      <4>1. \A v \in Workers : job'[v].op = "repair" => job'[v] = job[v] BY <1>4, <2>2, <3>3
      <4>2. \A v \in Workers : job'[v].op \in {"language", "repair"} => job'[v] = job[v]
        BY <1>4, <2>2, <3>3
      <4>3. \A v \in Workers : Prefs!Ahead(job[v]) => Prefs!Ahead(job[v])' BY <2>2, <3>3
        DEF Prefs!Ahead
      <4> HIDE DEF Prefs!Ahead
      <4> QED BY <3>2, <3>3, <3>5, <4>1, <4>2, <4>3 DEF Prefs!Kept, Prefs!LanguageOnItsWay
    <3> QED BY <2>1, <3>3, <3>4, <3>5 DEF Prefs!Kept
  <2>3. CASE job[w].op \in {"language", "repair"}
    <3>1. v1' = [v1 EXCEPT !.language = job[w].code] BY <1>7, <2>3 DEF Prefs!Land, Prefs!Setting
    <3>2. v1' \in Prefs!Saves /\ v1'.language = job[w].code /\ v1'.size = v1.size
      BY SMTT(30), <1>4, <1>5, <2>3, <3>1 DEF Prefs!Kept, Prefs!Shapes, Prefs!Saves
    <3>3. /\ Prefs!Shapes'
          /\ job'[w] = j /\ \A v \in Workers \ {w} : job'[v] = job[v]
          /\ UNCHANGED <<v2, v3, v4, v5, v8, v9>>
          /\ "language" \notin v9 \cup v10 => Prefs!StartRead'
      BY <1>2, <1>4, <1>5, <3>2, Moved
    <3>4. ASSUME "size" \notin v10 PROVE Prefs!SizeOnItsWay'
      <4>1. \A v \in Workers : /\ job'[v].op = "size" <=> job[v].op = "size"
                               /\ job[v].op = "size" => job'[v] = job[v]
        BY <1>4, <2>3, <3>3
      <4> QED BY <3>2, <3>3, <3>4, <4>1 DEF Prefs!Kept, Prefs!SizeOnItsWay, Prefs!Saving
    <3>5. ASSUME "language" \notin v10 PROVE Prefs!LanguageOnItsWay'
      <4>1. Prefs!LanguageOnItsWay BY <3>5 DEF Prefs!Kept
      <4>2. "language" \in v9 BY <2>3, <4>1 DEF Prefs!LanguageOnItsWay
      <4>3. v4.pc # "language" BY <4>1, <4>2 DEF Prefs!LanguageOnItsWay
      <4>4. job[w].op = "repair" => job[w].code = Prefs!Code(v2) BY <4>1
        DEF Prefs!LanguageOnItsWay
      <4>5. v1'.language = Prefs!Code(v2') \/ Prefs!Ahead(job[w])'
        BY <1>4, <2>3, <3>2, <3>3, <4>4 DEF Prefs!Ahead
      <4>6. \A v \in Workers : job'[v].op = "repair" => job'[v].code = Prefs!Code(v2)
        BY <1>4, <3>3, <4>1 DEF Prefs!LanguageOnItsWay
      <4> HIDE DEF Prefs!Ahead
      <4> QED BY <3>3, <4>2, <4>3, <4>5, <4>6 DEF Prefs!LanguageOnItsWay
    <3> QED BY <2>1, <3>3, <3>4, <3>5 DEF Prefs!Kept
  <2> QED BY <1>6, <2>2, <2>3
<1>8. CASE Prefs!LandFails(w)
  <2>1. v1' = v1 /\ v10' = v10 \cup {Prefs!Setting(job[w].op)}
    BY <1>8 DEF Prefs!LandFails, Prefs!Marked
  <2>2. /\ Prefs!Shapes'
        /\ job'[w] = j /\ \A v \in Workers \ {w} : job'[v] = job[v]
        /\ UNCHANGED <<v2, v3, v4, v5, v8, v9>>
        /\ "language" \notin v9 \cup v10 => Prefs!StartRead'
    <3>1. v1' \in Prefs!Saves BY <2>1 DEF Prefs!Kept, Prefs!Shapes
    <3> QED BY <1>2, <1>4, <1>5, <3>1, Moved
  <2>3. ASSUME "size" \notin v10' PROVE Prefs!SizeOnItsWay'
    <3>1. job[w].op # "size" BY <2>1, <2>3 DEF Prefs!Setting
    <3>2. \A v \in Workers : /\ job'[v].op = "size" <=> job[v].op = "size"
                             /\ job[v].op = "size" => job'[v] = job[v]
      BY <1>4, <2>2, <3>1
    <3> QED BY <2>1, <2>2, <2>3, <3>2 DEF Prefs!Kept, Prefs!SizeOnItsWay, Prefs!Saving
  <2>4. ASSUME "language" \notin v10' PROVE Prefs!LanguageOnItsWay'
    <3>1. job[w].op = "size" BY <1>6, <2>1, <2>4 DEF Prefs!Setting
    <3>2. \A v \in Workers : job'[v].op \in {"language", "repair"} => job'[v] = job[v]
      BY <1>4, <2>2, <3>1
    <3>3. \A v \in Workers : Prefs!Ahead(job[v]) => Prefs!Ahead(job[v])' BY <2>2, <3>1
      DEF Prefs!Ahead
    <3> HIDE DEF Prefs!Ahead
    <3> QED BY <2>1, <2>2, <2>4, <3>2, <3>3 DEF Prefs!Kept, Prefs!LanguageOnItsWay
  <2> QED BY <2>1, <2>2, <2>3, <2>4 DEF Prefs!Kept
<1> QED BY <1>7, <1>8

(* Saves are answered; an older language is repaired.                      *)
LEMMA AnsweredKept ==
  ASSUME Prefs!PreferencesAssumption, Prefs!Kept, NEW w \in Workers,
    Prefs!AnsweredLanguage(w) \/ Prefs!Answered(w)
  PROVE  Prefs!Kept'
<1>1. PICK i : i = Prefs!Idle OBVIOUS
<1>2. i \in Prefs!Jobs /\ i.op = "idle" BY <1>1 DEF Prefs!Idle, Prefs!Save, Prefs!Jobs
<1>3. UNCHANGED <<v1, Prefs!window, Prefs!history>> /\ v1 \in Prefs!Saves
  BY DEF Prefs!AnsweredLanguage, Prefs!Answered, Prefs!Kept, Prefs!Shapes
<1>4. UNCHANGED <<Prefs!window, v8, v9, v10>> BY <1>3 DEF Prefs!history
<1>5. CASE Prefs!AnsweredLanguage(w) /\ Prefs!Code(v2) # job[w].code
  <2>1. PICK j : j = Prefs!Save("repair", Prefs!Code(v2)) OBVIOUS
  <2>2. Prefs!Code(v2) \in Prefs!Codes BY DEF Prefs!Kept, Prefs!Shapes, Prefs!Codes
  <2>3. j \in Prefs!Jobs /\ j.op = "repair" /\ j.code = Prefs!Code(v2) /\ j.pc = "sent"
    BY <2>1, <2>2 DEF Prefs!Save, Prefs!Jobs
  <2>4. Prefs!Becomes(w, j) /\ job[w].op = "language" BY <1>5, <2>1 DEF Prefs!AnsweredLanguage
  <2>5. /\ Prefs!Shapes'
        /\ job'[w] = j /\ \A v \in Workers \ {w} : job'[v] = job[v]
        /\ UNCHANGED <<v2, v3, v4, v5, v8, v9>>
        /\ "language" \notin v9 \cup v10 => Prefs!StartRead'
    BY <1>3, <1>4, <2>2, <2>3, <2>4, Moved
  <2>6. ASSUME "size" \notin v10 PROVE Prefs!SizeOnItsWay'
    <3>1. \A v \in Workers : /\ job'[v].op = "size" <=> job[v].op = "size"
                             /\ job[v].op = "size" => job'[v] = job[v]
      BY <2>3, <2>4, <2>5
    <3> QED BY <1>3, <2>5, <2>6, <3>1 DEF Prefs!Kept, Prefs!SizeOnItsWay, Prefs!Saving
  <2>7. ASSUME "language" \notin v10 PROVE Prefs!LanguageOnItsWay'
    <3>1. Prefs!LanguageOnItsWay BY <2>7 DEF Prefs!Kept
    <3>2. "language" \in v9 /\ v4.pc # "language"
      BY <2>4, <3>1 DEF Prefs!LanguageOnItsWay
    <3>3. Prefs!Ahead(job[w])' BY <2>3, <2>5 DEF Prefs!Ahead
    <3>4. \A v \in Workers : job'[v].op = "repair" => job'[v].code = Prefs!Code(v2)
      BY <2>3, <2>5, <3>1 DEF Prefs!LanguageOnItsWay
    <3> HIDE DEF Prefs!Ahead
    <3> QED BY <2>5, <3>2, <3>3, <3>4 DEF Prefs!LanguageOnItsWay
  <2> QED BY <1>4, <2>5, <2>6, <2>7 DEF Prefs!Kept
<1>6. CASE Prefs!Answered(w) \/ Prefs!Code(v2) = job[w].code
  <2>1. Prefs!Becomes(w, i) /\ job[w].pc = "landed"
    BY <1>1, <1>6 DEF Prefs!AnsweredLanguage, Prefs!Answered, Prefs!Ends
  <2>2. /\ Prefs!Shapes'
        /\ job'[w] = i /\ \A v \in Workers \ {w} : job'[v] = job[v]
        /\ UNCHANGED <<v2, v3, v4, v5, v8, v9>>
        /\ "language" \notin v9 \cup v10 => Prefs!StartRead'
    BY <1>2, <1>3, <1>4, <2>1, Moved
  <2>3. ASSUME "size" \notin v10 PROVE Prefs!SizeOnItsWay'
    <3>1. Prefs!SizeOnItsWay BY <2>3 DEF Prefs!Kept
    <3>2. \A v \in Workers : job'[v].op = "size" => v # w /\ job[v].op = "size" /\ job'[v] = job[v]
      BY <1>2, <2>2
    <3>3. \A v \in Workers : job'[v].op # "size" /\ job[v].op = "size" => v = w BY <2>2
    <3>4. v5 /\ ~Prefs!Saving("size")' => v1.size = v3
      <4>1. ASSUME v5, ~Prefs!Saving("size")', Prefs!Saving("size") PROVE v1.size = v3
        <5>1. job[w].op = "size" BY <3>3, <4>1 DEF Prefs!Saving
        <5> QED BY <2>1, <3>1, <4>1, <5>1 DEF Prefs!SizeOnItsWay
      <4> QED BY <3>1, <4>1 DEF Prefs!SizeOnItsWay
    <3> QED BY <1>3, <2>2, <3>1, <3>2, <3>4 DEF Prefs!SizeOnItsWay
  <2>4. ASSUME "language" \notin v10 PROVE Prefs!LanguageOnItsWay'
    <3>1. ~Prefs!Ahead(job[w]) BY <1>6, <2>1 DEF Prefs!Ahead, Prefs!Answered
    <3>2. \A v \in Workers : Prefs!Ahead(job[v]) => Prefs!Ahead(job[v])' BY <2>2, <3>1
      DEF Prefs!Ahead
    <3>3. \A v \in Workers : job'[v].op \in {"language", "repair"} => job'[v] = job[v]
      BY <1>2, <2>2
    <3> HIDE DEF Prefs!Ahead
    <3> QED BY <1>3, <2>2, <2>4, <3>2, <3>3 DEF Prefs!Kept, Prefs!LanguageOnItsWay
  <2> QED BY <1>4, <2>2, <2>3, <2>4 DEF Prefs!Kept
<1> QED BY <1>5, <1>6

LEMMA KeptStep == ASSUME Prefs!PreferencesAssumption, Prefs!Kept, Prefs!Next PROVE Prefs!Kept'
<1>1. CASE Prefs!Restart BY <1>1, RestartKept DEF Prefs!Kept
<1>2. CASE Prefs!BootReads \/ Prefs!BootFails \/ Prefs!BootLanguage BY <1>2, BootKept
<1>3. ASSUME NEW w \in Workers, Prefs!BootSize(w) \/ \E n \in Sizes : Prefs!ChooseSize(w, n)
      PROVE  Prefs!Kept'
  BY <1>3, SizesKept
<1>4. ASSUME NEW w \in Workers, NEW l \in Langs, Prefs!ChooseLanguage(w, l) PROVE Prefs!Kept'
  BY <1>4, ChoiceKept
<1>5. ASSUME NEW w \in Workers, Prefs!OpenList(w) PROVE Prefs!Kept' BY <1>5, ListKept
<1>6. ASSUME NEW w \in Workers, Prefs!Land(w) \/ Prefs!LandFails(w) PROVE Prefs!Kept'
  BY <1>6, LandedKept
<1>7. ASSUME NEW w \in Workers, Prefs!AnsweredLanguage(w) \/ Prefs!Answered(w) PROVE Prefs!Kept'
  BY <1>7, AnsweredKept
<1>8. CASE \/ Prefs!LeaveList
           \/ \E n \in Counts : Prefs!ListChanges(n) \/ Prefs!Filter(n)
           \/ \E p \in Prefs!Turns : Prefs!GoTo(p)
  BY <1>8, ListKept
<1> QED BY <1>1, <1>2, <1>3, <1>4, <1>5, <1>6, <1>7, <1>8 DEF Prefs!Next

LEMMA PreferencesKept == Spec => [](part = "preferences" => Prefs!Kept)
<1>1. Init => (part = "preferences" => Prefs!Kept) BY StartKept, WindowAssumption DEF Init
<1>2. (part = "preferences" => Prefs!Kept) /\ [Next]_vars
        => (part = "preferences" => Prefs!Kept)'
  <2> SUFFICES ASSUME part' = "preferences",
    part' = "preferences" /\ part = part' => Prefs!Kept,
                      [Next]_vars
               PROVE  Prefs!Kept'
    BY Onward
  <2>1. part = "preferences" BY Onward
  <2>2. CASE UNCHANGED vars
    <3>1. UNCHANGED <<v1, v2, v3, v4, v5, v6, v7, v8, v9, v10, job>> BY <2>2 DEF vars
    <3> QED BY <2>1, <3>1 DEF Prefs!Kept, Prefs!Shapes, Prefs!SizeOnItsWay,
              Prefs!LanguageOnItsWay, Prefs!Ahead, Prefs!StartRead, Prefs!Saving, Prefs!Detected
  <2>3. CASE Prefs!Next BY <2>1, <2>3, KeptStep, WindowAssumption
  <2> QED BY <2>1, <2>2, <2>3 DEF Next
<1> QED BY <1>1, <1>2, PTL DEF Spec

(* The saved language is the one the user ended on, the next start brings  *)
(* it back, and the saved page size is the one shown, for any languages    *)
(* and sizes and any number of calls that land and are answered in any     *)
(* order (apply_locale and its repair, the start of App, the effects that  *)
(* call set_page_size).                                                    *)
THEOREM SettingsAreKept == Spec => []SettingsKept
<1>1. (part = "preferences" => Prefs!Kept) => SettingsKept
  <2> SUFFICES ASSUME part = "preferences", Prefs!Kept PROVE Prefs!SettingsKept
    BY DEF SettingsKept
  <2>1. Prefs!LanguageSettles
    <3>1. ASSUME Prefs!Quiet, "language" \notin v10
          PROVE  IF "language" \in v9 THEN v1.language = Prefs!Code(v2)
                 ELSE v1.language = v8.language
      BY <3>1 DEF Prefs!Kept, Prefs!LanguageOnItsWay, Prefs!Ahead, Prefs!Quiet, Prefs!Active
    <3> QED BY <3>1 DEF Prefs!LanguageSettles
  <2>2. Prefs!LanguageRestored BY DEF Prefs!Kept, Prefs!StartRead, Prefs!LanguageRestored
  <2>3. Prefs!PageSizeSettles
    <3>1. ASSUME Prefs!Quiet PROVE ~Prefs!Saving("size")
      BY <3>1 DEF Prefs!Quiet, Prefs!Saving, Prefs!Active
    <3> QED BY <3>1 DEF Prefs!Kept, Prefs!SizeOnItsWay, Prefs!PageSizeSettles
  <2> QED BY <2>1, <2>2, <2>3 DEF Prefs!SettingsKept
<1> QED BY <1>1, PreferencesKept, PTL

(* The pages of a list show every match, each on one page, and the page in *)
(* view is never empty when there are matches, whatever the length of the  *)
(* list, the page size and the page asked for (paged, safe_page).          *)
THEOREM PagesPartitionTheMatches == Spec => []PagesShowTheMatches
<1>1. (part = "preferences" => Prefs!Kept) => PagesShowTheMatches
  <2>1. ASSUME Prefs!Kept PROVE v6 \in Nat /\ v7 \in Nat /\ v3 \in Nat \ {0}
    BY <2>1 DEF Prefs!Kept, Prefs!Shapes
  <2> QED BY <2>1, PagesPartition DEF PagesShowTheMatches, Prefs!PagesShowTheMatches
<1> QED BY <1>1, PreferencesKept, PTL
-----------------------------------------------------------------------------
(* The dialogs of the Repos screen: v1 is keys, v2 chosen, v3 late.        *)

(* The greatest of a finite set of numbers is there to be chosen.          *)
LEMMA HasNewest ==
  ASSUME NEW S \in SUBSET Nat, IsFiniteSet(S), S # {}
  PROVE  \E i \in S : \A j \in S : j <= i
<1> DEFINE Above(i) == {j \in S : i < j}
           T == {Above(i) : i \in S}
<1>1. IsWellFoundedOn(StrictSubsetOrdering(S), FiniteSubsetsOf(S))
  BY FS_StrictSubsetOrderingWellFounded
<1>2. T \subseteq FiniteSubsetsOf(S)
  <2>1. \A i \in S : Above(i) \in SUBSET S OBVIOUS
  <2>2. \A i \in S : IsFiniteSet(Above(i)) BY <2>1, FS_Subset
  <2> QED BY <2>1, <2>2 DEF FiniteSubsetsOf
<1>3. T # {} OBVIOUS
<1>4. PICK A \in T : \A B \in T : <<B, A>> \notin StrictSubsetOrdering(S)
  BY <1>1, <1>2, <1>3, WFMin
<1>5. PICK i \in S : A = Above(i) BY <1>4
<1>6. ASSUME NEW j \in S, i < j PROVE FALSE
  <2>1. Above(j) \subseteq Above(i)
    <3>1. \A k \in S : j < k => i < k BY <1>6
    <3> QED BY <3>1
  <2>2. j \in Above(i) /\ j \notin Above(j) BY <1>6
  <2>3. Above(i) \in SUBSET S /\ Above(j) \in SUBSET S OBVIOUS
  <2>4. <<Above(j), Above(i)>> \in StrictSubsetOrdering(S)
    BY <2>1, <2>2, <2>3 DEF StrictSubsetOrdering
  <2> QED BY <1>4, <1>5, <2>4
<1> QED BY <1>6

LEMMA NewestOnOffer ==
  ASSUME Actions!RepoActionsAssumption, NEW S \in SUBSET Ids
  PROVE  Actions!Newest(S) \in S \cup {0}
<1>1. IsFiniteSet(S) /\ S \in SUBSET Nat
  <2>1. IsFiniteSet(Ids) /\ Ids \subseteq Nat
    BY DEF Actions!RepoActionsAssumption, Actions!IsFiniteSet, IsFiniteSet
  <2> QED BY <2>1, FS_Subset
<1>2. CASE S # {} BY <1>1, <1>2, HasNewest DEF Actions!Newest
<1> QED BY <1>2 DEF Actions!Newest

(* What a new call looks like, and what the calls are after a step.        *)
LEMMA ActingIdle ==
  /\ Actions!Idle \in Actions!Jobs /\ Actions!Idle.op = "idle" /\ ~Actions!Idle.here
  /\ Actions!Call("list") \in Actions!Jobs /\ Actions!Call("list").op = "list"
  /\ Actions!Call("list").here /\ Actions!Call("list").answer = {}
BY DEF Actions!Idle, Actions!Call, Actions!Jobs

LEMMA ActingBecomes ==
  ASSUME job \in [Workers -> Actions!Jobs], NEW w \in Workers, NEW j \in Actions!Jobs,
         Actions!Becomes(w, j)
  PROVE  /\ job' \in [Workers -> Actions!Jobs] /\ job'[w] = j
         /\ \A v \in Workers \ {w} : job'[v] = job[v]
BY DEF Actions!Becomes

LEMMA ActingStarts == ASSUME Actions!Init PROVE Actions!Acting
<1>1. PICK i : i = Actions!Idle OBVIOUS
<1>2. i \in Actions!Jobs /\ i.op = "idle" /\ ~i.here BY <1>1, ActingIdle
<1>3. job = [w \in Workers |-> i] BY <1>1 DEF Actions!Init
<1>4. ui \in Actions!Screens /\ ~ui.mounted /\ ui.repo = None /\ ui.menu = None /\ ui.selected = 0
  BY DEF Actions!Init, Actions!Closed, Actions!Screens
<1>5. Actions!Shapes BY <1>2, <1>3, <1>4 DEF Actions!Init, Actions!Shapes
<1>6. Actions!CallsOnRecord /\ Actions!OneCall("list") /\ ~Actions!Listing
  BY <1>2, <1>3 DEF Actions!CallsOnRecord, Actions!OneCall, Actions!Listing
<1> QED BY <1>4, <1>5, <1>6 DEF Actions!Acting, Actions!ChoiceStands, Actions!Init

(* The screen is opened and left; keys change while nobody looks.          *)
LEMMA ActingMounts ==
  ASSUME Actions!RepoActionsAssumption, Actions!Acting,
         Actions!OpenScreen \/ Actions!LeaveScreen \/ \E ids \in SUBSET Ids : Actions!OtherKeys(ids)
  PROVE  Actions!Acting'
<1>1. CASE Actions!OpenScreen
  <2>1. UNCHANGED <<v1, job, v2, v3>> /\ \A w \in Workers : ~job[w].here
    BY <1>1 DEF Actions!OpenScreen, Actions!Acting, Actions!Shapes
  <2>2. ui' \in Actions!Screens /\ ui'.mounted /\ ui'.repo = None /\ ui'.selected = 0
    BY <1>1 DEF Actions!OpenScreen, Actions!Closed, Actions!Screens
  <2>3. Actions!Shapes' BY <2>1, <2>2 DEF Actions!Acting, Actions!Shapes
  <2>4. Actions!CallsOnRecord'
    BY <2>1 DEF Actions!Acting, Actions!CallsOnRecord, Actions!OneCall
  <2>5. Actions!ChoiceStands'
    BY <2>1, <2>2 DEF Actions!ChoiceStands, Actions!OneCall, Actions!Listing
  <2> QED BY <2>2, <2>3, <2>4, <2>5 DEF Actions!Acting
<1>2. CASE Actions!LeaveScreen
  <2>1. UNCHANGED <<v1, v2, v3>> /\ ui' = Actions!Closed
        /\ job' = [w \in Workers |-> [job[w] EXCEPT !.here = FALSE]]
    BY <1>2 DEF Actions!LeaveScreen
  <2>2. ui' \in Actions!Screens /\ ~ui'.mounted /\ ui'.repo = None /\ ui'.menu = None
        /\ ui'.selected = 0
    BY <2>1 DEF Actions!Closed, Actions!Screens
  <2>3. \A w \in Workers : job[w] \in Actions!Jobs BY DEF Actions!Acting, Actions!Shapes
  <2>4. \A w \in Workers : /\ job'[w] \in Actions!Jobs /\ ~job'[w].here /\ job'[w].op = job[w].op
                           /\ job'[w].answer = job[w].answer /\ job'[w].repo = job[w].repo
    BY <2>1, <2>3 DEF Actions!Jobs
  <2>5. job' \in [Workers -> Actions!Jobs] BY <2>1, <2>4
  <2>6. Actions!Shapes' BY <2>1, <2>2, <2>4, <2>5 DEF Actions!Acting, Actions!Shapes
  <2>7. Actions!CallsOnRecord'
    BY <2>4 DEF Actions!Acting, Actions!CallsOnRecord, Actions!OneCall
  <2>8. Actions!ChoiceStands'
    BY <2>2, <2>4 DEF Actions!ChoiceStands, Actions!OneCall, Actions!Listing
  <2> QED BY <2>2, <2>6, <2>7, <2>8 DEF Actions!Acting
<1>3. ASSUME NEW ids \in SUBSET Ids, Actions!OtherKeys(ids) PROVE Actions!Acting'
  <2>1. UNCHANGED <<ui, job, v2, v3>> /\ v1' = ids BY <1>3 DEF Actions!OtherKeys
  <2> QED
    BY <2>1 DEF Actions!Acting, Actions!Shapes, Actions!CallsOnRecord, Actions!ChoiceStands,
      Actions!OneCall, Actions!Listing
<1> QED BY <1>1, <1>2, <1>3

(* What the user does in the dialog and with the menu, without a call.     *)
LEMMA ActingChooses ==
  ASSUME Actions!RepoActionsAssumption, Actions!Acting,
         \/ Actions!CloseBindDialog \/ Actions!AllowPush \/ Actions!CloseMenu
         \/ \E i \in Ids : Actions!ChooseKey(i)
         \/ \E r \in Repos : Actions!OpenMenu(r)
  PROVE  Actions!Acting'
<1>1. UNCHANGED <<v1, job, v3>> /\ ui \in Actions!Screens
  BY DEF Actions!CloseBindDialog, Actions!AllowPush, Actions!CloseMenu, Actions!ChooseKey,
    Actions!OpenMenu, Actions!Acting, Actions!Shapes
<1>2. /\ ui' \in Actions!Screens
      /\ UNCHANGED <<ui.mounted, ui.list, ui.loading, ui.submitting, ui.remote>>
  BY <1>1 DEF Actions!CloseBindDialog, Actions!AllowPush, Actions!CloseMenu, Actions!ChooseKey,
    Actions!OpenMenu, Actions!Screens
<1>3. /\ ui'.repo = ui.repo \/ (ui'.repo = None /\ ~ui.submitting)
      /\ \/ v2' = v2 /\ ui'.selected = ui.selected
         \/ v2' \in Ids /\ ui'.selected = v2' /\ ~ui.loading /\ v2' \in ui.list
  BY <1>1 DEF Actions!CloseBindDialog, Actions!AllowPush, Actions!CloseMenu, Actions!ChooseKey,
    Actions!OpenMenu, Actions!Screens
<1>4. ui.mounted \/ (ui'.repo = None /\ ui'.menu = None)
  <2>1. ui.repo # None \/ ui.menu # None => ui.mounted BY DEF Actions!Acting, Actions!Shapes
  <2> QED BY <1>1, <2>1 
        DEF Actions!CloseBindDialog, Actions!AllowPush, Actions!CloseMenu, Actions!ChooseKey,
          Actions!OpenMenu, Actions!Screens, Actions!Uncovered
<1>5. Actions!Shapes' BY <1>1, <1>2, <1>3, <1>4 DEF Actions!Acting, Actions!Shapes
<1>6. Actions!CallsOnRecord'
  BY <1>1, <1>2, <1>3 DEF Actions!Acting, Actions!CallsOnRecord, Actions!OneCall
<1>7. ui'.selected \in ui'.list \cup {0} BY <1>2, <1>3 DEF Actions!Acting
<1>8. Actions!ChoiceStands'
  BY <1>1, <1>2, <1>3 DEF Actions!Acting, Actions!ChoiceStands, Actions!OneCall, Actions!Listing
<1> QED BY <1>5, <1>6, <1>7, <1>8 DEF Actions!Acting

(* A dialog opens, and asks for the list.                                  *)
LEMMA ActingOpens ==
  ASSUME Actions!RepoActionsAssumption, Actions!Acting, NEW w \in Workers, NEW r \in Repos,
         Actions!OpenBindDialog(w, r)
  PROVE  Actions!Acting'
<1>1. /\ ui.mounted /\ ui.repo = None /\ ~Actions!Active(w)
      /\ Actions!Becomes(w, Actions!Call("list"))
      /\ v2' = 0 /\ v3' = Actions!Listing /\ v1' = v1
      /\ ui' = [ui EXCEPT !.repo = r, !.list = {}, !.selected = 0, !.writable = FALSE,
                          !.loading = TRUE]
  BY DEF Actions!OpenBindDialog, Actions!Uncovered, Actions!Sends
<1>2. ui \in Actions!Screens /\ job \in [Workers -> Actions!Jobs]
  BY DEF Actions!Acting, Actions!Shapes
<1>3. /\ ui' \in Actions!Screens /\ ui'.repo = r /\ ui'.selected = 0 /\ ui'.loading
      /\ UNCHANGED <<ui.mounted, ui.menu, ui.submitting, ui.remote>>
  BY <1>1, <1>2 DEF Actions!Screens
<1>4. PICK j \in Actions!Jobs : j = Actions!Call("list") BY ActingIdle
<1>5. j.op = "list" /\ j.here /\ j.answer = {} BY <1>4, ActingIdle
<1>6. /\ job' \in [Workers -> Actions!Jobs] /\ job'[w] = j
      /\ \A v \in Workers \ {w} : job'[v] = job[v]
  BY <1>1, <1>2, <1>4, ActingBecomes
<1>7. Actions!Shapes'
  BY <1>1, <1>3, <1>5, <1>6 DEF Actions!Acting, Actions!Shapes, Actions!Listing
<1>8. \A v \in Workers : ~(job[v].op = "bind" /\ job[v].here)
  BY <1>1, <1>2 DEF Actions!Acting, Actions!CallsOnRecord, Actions!RepoActionsAssumption
<1>9. Actions!CallsOnRecord'
  BY <1>3, <1>5, <1>6, <1>8 DEF Actions!Acting, Actions!CallsOnRecord, Actions!OneCall
<1>10. Actions!ChoiceStands'
  BY <1>1, <1>3, <1>5, <1>6 DEF Actions!ChoiceStands, Actions!OneCall, Actions!Listing
<1> QED BY <1>3, <1>7, <1>9, <1>10 DEF Actions!Acting

(* A key is bound, or a remote connected or tested: one at a time.         *)
LEMMA ActingCalls ==
  ASSUME Actions!RepoActionsAssumption, Actions!Acting, NEW w \in Workers,
         Actions!SubmitBindKey(w) \/ Actions!RunRemote(w)
  PROVE  Actions!Acting'
<1>1. /\ UNCHANGED <<v1, v2, v3>> /\ ~Actions!Active(w)
      /\ ui \in Actions!Screens /\ job \in [Workers -> Actions!Jobs]
      /\ ui.repo # None \/ ui.menu # None => ui.mounted
  BY DEF Actions!SubmitBindKey, Actions!RunRemote, Actions!Sends, Actions!Acting, Actions!Shapes
<1>2. CASE Actions!SubmitBindKey(w)
  <2>1. PICK j : j = [Actions!Call("bind") EXCEPT !.repo = ui.repo, !.key = ui.selected] OBVIOUS
  <2>2. ui.repo \in Repos /\ ui.selected \in Ids \cup {0} /\ ~ui.submitting /\ ui.mounted
        /\ ~ui.loading
    BY <1>1, <1>2 DEF Actions!SubmitBindKey, Actions!CanBind, Actions!Screens
  <2>3. j \in Actions!Jobs /\ j.op = "bind" /\ j.repo = ui.repo /\ j.here
    BY <2>1, <2>2 DEF Actions!Call, Actions!Idle, Actions!Jobs
  <2>4. /\ job' \in [Workers -> Actions!Jobs] /\ job'[w] = j
        /\ \A v \in Workers \ {w} : job'[v] = job[v]
    BY <1>1, <1>2, <2>1, <2>3, ActingBecomes DEF Actions!SubmitBindKey, Actions!Sends
  <2>5. /\ ui' \in Actions!Screens /\ ui'.submitting
        /\ UNCHANGED <<ui.mounted, ui.repo, ui.menu, ui.remote, ui.list, ui.selected,
          ui.loading>>
    BY <1>1, <1>2 DEF Actions!SubmitBindKey, Actions!Screens
  <2>6. Actions!Shapes' BY <1>1, <2>2, <2>3, <2>4, <2>5 DEF Actions!Acting, Actions!Shapes
  <2>7. \A v \in Workers : ~(job[v].op = "bind" /\ job[v].here)
    BY <2>2 DEF Actions!Acting, Actions!CallsOnRecord
  <2>8. Actions!CallsOnRecord'
    BY <2>2, <2>3, <2>4, <2>5, <2>7 DEF Actions!Acting, Actions!CallsOnRecord, Actions!OneCall
  <2>9. Actions!ChoiceStands'
    BY <1>1, <2>3, <2>4, <2>5 DEF Actions!Acting, Actions!ChoiceStands, Actions!OneCall,
      Actions!Listing
  <2> QED BY <2>5, <2>6, <2>8, <2>9 DEF Actions!Acting
<1>3. CASE Actions!RunRemote(w)
  <2>1. PICK j : j = [Actions!Call("remote") EXCEPT !.repo = ui.menu] OBVIOUS
  <2>2. ui.menu \in Repos /\ ui.remote = None /\ ui.mounted
    BY <1>1, <1>3 DEF Actions!RunRemote, Actions!Screens
  <2>3. j \in Actions!Jobs /\ j.op = "remote" /\ j.repo = ui.menu /\ j.here
    BY <2>1, <2>2 DEF Actions!Call, Actions!Idle, Actions!Jobs
  <2>4. /\ job' \in [Workers -> Actions!Jobs] /\ job'[w] = j
        /\ \A v \in Workers \ {w} : job'[v] = job[v]
    BY <1>1, <1>3, <2>1, <2>3, ActingBecomes DEF Actions!RunRemote, Actions!Sends
  <2>5. /\ ui' \in Actions!Screens /\ ui'.remote = ui.menu
        /\ UNCHANGED <<ui.mounted, ui.repo, ui.submitting, ui.list, ui.selected, ui.loading>>
    BY <1>1, <1>3, <2>2 DEF Actions!RunRemote, Actions!Screens
  <2>6. Actions!Shapes' BY <1>1, <2>2, <2>3, <2>4, <2>5 DEF Actions!Acting, Actions!Shapes
  <2>7. \A v \in Workers : ~(job[v].op = "remote" /\ job[v].here)
    BY <2>2 DEF Actions!Acting, Actions!CallsOnRecord, Actions!RepoActionsAssumption
  <2>8. Actions!CallsOnRecord'
    BY <2>2, <2>3, <2>4, <2>5, <2>7 DEF Actions!Acting, Actions!CallsOnRecord, Actions!OneCall
  <2>9. Actions!ChoiceStands'
    BY <1>1, <2>3, <2>4, <2>5 DEF Actions!Acting, Actions!ChoiceStands, Actions!OneCall,
      Actions!Listing
  <2> QED BY <2>5, <2>6, <2>8, <2>9 DEF Actions!Acting
<1> QED BY <1>2, <1>3

(* The calls run.                                                          *)
LEMMA ActingRuns ==
  ASSUME Actions!RepoActionsAssumption, Actions!Acting, NEW w \in Workers,
         Actions!ListKeys(w) \/ Actions!Runs(w)
  PROVE  Actions!Acting'
<1>1. /\ UNCHANGED <<v1, ui, v2, v3>> /\ job \in [Workers -> Actions!Jobs]
      /\ v1 \in SUBSET Ids
  BY DEF Actions!ListKeys, Actions!Runs, Actions!Acting, Actions!Shapes
<1>2. PICK a \in SUBSET (Ids \cup {0}) :
        /\ Actions!Becomes(w, [job[w] EXCEPT !.pc = "answered", !.answer = a])
        /\ job[w].op = "list" => a \in (SUBSET Ids) \cup {{0}}
  BY <1>1 DEF Actions!ListKeys, Actions!Runs
<1>3. PICK j : j = [job[w] EXCEPT !.pc = "answered", !.answer = a] OBVIOUS
<1>4. /\ j \in Actions!Jobs /\ j.op = job[w].op /\ j.here = job[w].here /\ j.repo = job[w].repo
      /\ j.answer = a
  BY <1>1, <1>3 DEF Actions!Jobs
<1>5. /\ job' \in [Workers -> Actions!Jobs] /\ job'[w] = j
      /\ \A v \in Workers \ {w} : job'[v] = job[v]
  BY <1>1, <1>2, <1>3, <1>4, ActingBecomes
<1>6. \A v \in Workers : /\ job'[v].op = job[v].op /\ job'[v].here = job[v].here
                         /\ job'[v].repo = job[v].repo
  BY <1>4, <1>5
<1>7. Actions!Shapes' BY <1>1, <1>2, <1>4, <1>5, <1>6 DEF Actions!Acting, Actions!Shapes
<1>8. Actions!CallsOnRecord'
  BY <1>1, <1>6 DEF Actions!Acting, Actions!CallsOnRecord, Actions!OneCall
<1>9. Actions!ChoiceStands'
  BY <1>1, <1>6 DEF Actions!Acting, Actions!ChoiceStands, Actions!OneCall, Actions!Listing
<1> QED BY <1>1, <1>7, <1>8, <1>9 DEF Actions!Acting

(* The answers, of this opening of the screen and of earlier ones.         *)
LEMMA ActingAnswered ==
  ASSUME Actions!RepoActionsAssumption, Actions!Acting, NEW w \in Workers,
         Actions!ListAnswered(w) \/ Actions!BindAnswered(w) \/ Actions!RemoteAnswered(w)
  PROVE  Actions!Acting'
<1>1. /\ UNCHANGED <<v1, v2, v3>> /\ Actions!Becomes(w, Actions!Idle)
      /\ ui \in Actions!Screens /\ job \in [Workers -> Actions!Jobs] /\ job[w] \in Actions!Jobs
      /\ job[w].here => ui.mounted
  BY DEF Actions!ListAnswered, Actions!BindAnswered, Actions!RemoteAnswered, Actions!Acting,
    Actions!Shapes
<1>2. PICK j \in Actions!Jobs : j = Actions!Idle BY ActingIdle
<1>3. j.op = "idle" /\ ~j.here BY <1>2, ActingIdle
<1>4. /\ job' \in [Workers -> Actions!Jobs] /\ job'[w] = j
      /\ \A v \in Workers \ {w} : job'[v] = job[v]
  BY <1>1, <1>2, ActingBecomes
<1>5. /\ Actions!Listing' => Actions!Listing
      /\ \A op \in {"list", "bind", "remote"} : Actions!OneCall(op) => Actions!OneCall(op)'
      /\ Actions!OneCall("list") /\ job[w].op = "list" /\ job[w].here => ~Actions!Listing'
  BY <1>3, <1>4 DEF Actions!Listing, Actions!OneCall
<1>6. CASE ui' = ui
  <2>1. Actions!Shapes' BY <1>1, <1>3, <1>4, <1>6 DEF Actions!Acting, Actions!Shapes
  <2>2. Actions!CallsOnRecord'
    BY <1>3, <1>4, <1>5, <1>6 DEF Actions!Acting, Actions!CallsOnRecord
  <2>3. Actions!ChoiceStands' BY <1>1, <1>5, <1>6 DEF Actions!Acting, Actions!ChoiceStands
  <2> QED BY <1>6, <2>1, <2>2, <2>3 DEF Actions!Acting
<1>7. CASE Actions!ListAnswered(w) /\ job[w].here
  <2>1. job[w].op = "list" BY <1>7 DEF Actions!ListAnswered
  <2>2. PICK a : a = job[w].answer OBVIOUS
  <2>3. \/ ui' = [ui EXCEPT !.loading = FALSE]
        \/ /\ ui' = [ui EXCEPT !.loading = FALSE, !.list = a, !.selected = Actions!Newest(a)]
           /\ a \in SUBSET Ids
    <3>1. a \in (SUBSET Ids) \cup {{0}} BY <2>1, <2>2 DEF Actions!Acting, Actions!Shapes
    <3> QED BY <1>7, <2>2, <3>1 DEF Actions!ListAnswered, Actions!Failed
  <2>4. a \in SUBSET Ids => Actions!Newest(a) \in Ids \cup {0} /\ Actions!Newest(a) \in a \cup {0}
    BY NewestOnOffer
  <2>5. /\ ui' \in Actions!Screens /\ ~ui'.loading /\ ui'.selected \in ui'.list \cup {0}
        /\ UNCHANGED <<ui.mounted, ui.repo, ui.menu, ui.submitting, ui.remote>>
    BY <1>1, <2>3, <2>4 DEF Actions!Screens, Actions!Acting
  <2>6. Actions!Shapes' BY <1>1, <1>3, <1>4, <2>5 DEF Actions!Acting, Actions!Shapes
  <2>7. Actions!CallsOnRecord'
    BY <1>3, <1>4, <1>5, <2>5 DEF Actions!Acting, Actions!CallsOnRecord
  <2>8. Actions!ChoiceStands'
    <3> SUFFICES ASSUME ~v3 PROVE Actions!ChoiceStands' BY <1>1 DEF Actions!ChoiceStands
    <3>1. ui.loading /\ Actions!OneCall("list")
      BY <1>7, <2>1 DEF Actions!Acting, Actions!ChoiceStands, Actions!Listing
    <3>2. ui.repo = None \/ v2 = 0 BY <3>1 DEF Actions!Acting, Actions!ChoiceStands
    <3> QED BY <1>1, <1>5, <1>7, <2>1, <2>5, <3>1, <3>2 DEF Actions!ChoiceStands
  <2> QED BY <2>5, <2>6, <2>7, <2>8 DEF Actions!Acting
<1>8. CASE Actions!BindAnswered(w) /\ job[w].here
  <2>1. job[w].op = "bind" BY <1>8 DEF Actions!BindAnswered
  <2>2. /\ ui' \in Actions!Screens
        /\ UNCHANGED <<ui.mounted, ui.list, ui.selected, ui.loading, ui.menu, ui.remote>>
        /\ ui'.repo \in {ui.repo, None}
    BY <1>1, <1>8 DEF Actions!BindAnswered, Actions!Screens
  <2>3. \A v \in Workers : ~(job'[v].op = "bind" /\ job'[v].here)
    BY <1>3, <1>4, <1>8, <2>1 DEF Actions!Acting, Actions!CallsOnRecord, Actions!OneCall
  <2>4. Actions!Shapes' BY <1>1, <1>3, <1>4, <2>2 DEF Actions!Acting, Actions!Shapes
  <2>5. Actions!CallsOnRecord'
    BY <1>3, <1>4, <1>5, <2>2, <2>3 DEF Actions!Acting, Actions!CallsOnRecord
  <2>6. Actions!ChoiceStands' BY <1>1, <1>5, <2>2 DEF Actions!Acting, Actions!ChoiceStands
  <2> QED BY <2>2, <2>4, <2>5, <2>6 DEF Actions!Acting
<1>9. CASE Actions!RemoteAnswered(w) /\ job[w].here
  <2>1. job[w].op = "remote" BY <1>9 DEF Actions!RemoteAnswered
  <2>2. /\ ui' \in Actions!Screens
        /\ UNCHANGED <<ui.mounted, ui.list, ui.selected, ui.loading, ui.menu, ui.repo,
                       ui.submitting>>
    BY <1>1, <1>9 DEF Actions!RemoteAnswered, Actions!Screens
  <2>3. \A v \in Workers : ~(job'[v].op = "remote" /\ job'[v].here)
    BY <1>3, <1>4, <1>9, <2>1 DEF Actions!Acting, Actions!CallsOnRecord, Actions!OneCall
  <2>4. Actions!Shapes' BY <1>1, <1>3, <1>4, <2>2 DEF Actions!Acting, Actions!Shapes
  <2>5. Actions!CallsOnRecord'
    BY <1>3, <1>4, <1>5, <2>2, <2>3 DEF Actions!Acting, Actions!CallsOnRecord
  <2>6. Actions!ChoiceStands' BY <1>1, <1>5, <2>2 DEF Actions!Acting, Actions!ChoiceStands
  <2> QED BY <2>2, <2>4, <2>5, <2>6 DEF Actions!Acting
<1> QED
  BY <1>6, <1>7, <1>8, <1>9 DEF Actions!ListAnswered, Actions!BindAnswered,
    Actions!RemoteAnswered

LEMMA ActingStep == ASSUME Actions!RepoActionsAssumption, Actions!Acting,
  Actions!ActionsNext PROVE Actions!Acting'
<1>1. CASE Actions!OpenScreen \/ Actions!LeaveScreen
           \/ \E ids \in SUBSET Ids : Actions!OtherKeys(ids)
  BY <1>1, ActingMounts
<1>2. CASE \/ Actions!CloseBindDialog \/ Actions!AllowPush \/ Actions!CloseMenu
           \/ \E i \in Ids : Actions!ChooseKey(i)
           \/ \E r \in Repos : Actions!OpenMenu(r)
  BY <1>2, ActingChooses
<1>3. ASSUME NEW w \in Workers, NEW r \in Repos, Actions!OpenBindDialog(w, r)
      PROVE Actions!Acting'
  BY <1>3, ActingOpens
<1>4. ASSUME NEW w \in Workers, Actions!SubmitBindKey(w) \/ Actions!RunRemote(w)
      PROVE Actions!Acting'
  BY <1>4, ActingCalls
<1>5. ASSUME NEW w \in Workers, Actions!ListKeys(w) \/ Actions!Runs(w) PROVE Actions!Acting'
  BY <1>5, ActingRuns
<1>6. ASSUME NEW w \in Workers,
             Actions!ListAnswered(w) \/ Actions!BindAnswered(w) \/ Actions!RemoteAnswered(w)
      PROVE  Actions!Acting'
  BY <1>6, ActingAnswered
<1> QED BY <1>1, <1>2, <1>3, <1>4, <1>5, <1>6 DEF Actions!ActionsNext

LEMMA ActingStays == ASSUME Actions!Acting, UNCHANGED Actions!vars PROVE Actions!Acting'
<1>1. UNCHANGED <<v1, ui, job, v2, v3>> BY DEF Actions!vars
<1> QED
  BY <1>1 DEF Actions!Acting, Actions!Shapes, Actions!CallsOnRecord, Actions!ChoiceStands,
    Actions!OneCall, Actions!Listing

LEMMA ActingSafe ==
  ASSUME Actions!Acting PROVE Actions!BindsTheKeyOnOffer /\ Actions!CallsKeepTheirDialog
<1>1. Actions!BindsTheKeyOnOffer
  BY DEF Actions!Acting, Actions!ChoiceStands, Actions!BindsTheKeyOnOffer, Actions!CanBind
<1>2. Actions!CallsKeepTheirDialog
  BY DEF Actions!Acting, Actions!CallsOnRecord, Actions!CallsKeepTheirDialog
<1> QED BY <1>1, <1>2

LEMMA ActionsKept == Spec => [](part = "actions" => Actions!Acting)
<1>1. Init => (part = "actions" => Actions!Acting) BY ActingStarts, WindowAssumption DEF Init
<1>2. (part = "actions" => Actions!Acting) /\ [Next]_vars
        => (part = "actions" => Actions!Acting)'
  <2> SUFFICES ASSUME part' = "actions", part' = "actions" /\ part = part' => Actions!Acting,
                      [Next]_vars
               PROVE  Actions!Acting'
    BY Onward
  <2>1. part = "actions" BY Onward
  <2>2. CASE UNCHANGED vars
    <3>1. UNCHANGED Actions!vars BY <2>2 DEF vars, Actions!vars
    <3> QED BY <2>1, <3>1, ActingStays
  <2>3. CASE Actions!ActionsNext BY <2>1, <2>3, ActingStep, WindowAssumption
  <2> QED BY <2>1, <2>2, <2>3 DEF Next
<1> QED BY <1>1, <1>2, PTL DEF Spec

(* The key that is bound is one the dialog lists, and the one the user     *)
(* chose; and a dialog stays as long as its call runs: for any number of   *)
(* repositories, keys and calls in flight, and in whatever order the       *)
(* answers come (open_bind_dialog and its list, submit_bind_key,           *)
(* connect_repo, test_repo).                                               *)
THEOREM ActionsAreSafe == Spec => []ActionsSafe
<1>1. (part = "actions" => Actions!Acting) => ActionsSafe BY ActingSafe DEF ActionsSafe
<1> QED BY <1>1, ActionsKept, PTL
-----------------------------------------------------------------------------
(* The window and its tutorial: v1 is screen, v2 section, v3 account, v5   *)
(* calls, v8 over, v9 seen, v10 tour, v11 late, v12 moved.                 *)

LEMMA StepNames ==
  /\ Len(Shell!Steps) = 8
  /\ \A i \in 1..8 : Shell!Steps[i] \in Shell!Names
  /\ Shell!Names = {"SignIn", "Sync", "Connect", "CreateKey", "BindKey", "CloneRepo", "ConnectRepo",
              "TestRepo"}
<1>1. Len(Shell!Steps) = 8 BY DEF Shell!Steps
<1>2. Shell!Names = {Shell!Steps[i] : i \in 1..8} BY <1>1 DEF Shell!Names
<1>3. /\ Shell!Steps[1] = "SignIn" /\ Shell!Steps[2] = "Sync" /\ Shell!Steps[3] = "Connect"
      /\ Shell!Steps[4] = "CreateKey" /\ Shell!Steps[5] = "BindKey" /\ Shell!Steps[6] = "CloneRepo"
      /\ Shell!Steps[7] = "ConnectRepo" /\ Shell!Steps[8] = "TestRepo"
  BY DEF Shell!Steps
<1>4. 1..8 = {1, 2, 3, 4, 5, 6, 7, 8} OBVIOUS
<1> HIDE DEF Shell!Names
<1>5. \A x : x \in {Shell!Steps[i] : i \in 1..8} <=>
        x \in {"SignIn", "Sync", "Connect", "CreateKey", "BindKey", "CloneRepo", "ConnectRepo",
               "TestRepo"}
  BY <1>3, <1>4
<1> QED BY <1>1, <1>2, <1>5

LEMMA StepIndex ==
  ASSUME NEW s \in Shell!Names
  PROVE  Shell!Index(s) \in 1..8 /\ Shell!Steps[Shell!Index(s)] = s
<1>1. \E i \in 1..Len(Shell!Steps) : Shell!Steps[i] = s BY DEF Shell!Names
<1> QED BY <1>1, StepNames DEF Shell!Index

(* A step's target is drawn by its demonstration, but for the button to    *)
(* sign in when someone is.                                                *)
LEMMA StepFound ==
  ASSUME Shell!ShellAssumption, Shell!Main, v10.step \in Shell!Names
  PROVE  Shell!Find(v10.step) = v10.step \/ (v10.step = "SignIn" /\ v3)
<1>1. v10.step # None BY DEF Shell!ShellAssumption
<1>2. v10.step # "SignIn" => v10.step \in Shell!Demo(v10.step)
  BY StepNames DEF Shell!Demo, Shell!ReposDemo
<1>3. v1 # "SignIn" BY DEF Shell!Main
<1>4. v10.step # "SignIn" => v10.step \in Shell!Marked BY <1>1, <1>2, <1>3 DEF Shell!Marked
<1>5. v10.step = "SignIn" /\ ~v3 => v10.step \in Shell!Marked BY <1>3 DEF Shell!Marked
<1> QED BY <1>4, <1>5 DEF Shell!Find

LEMMA FindKnown == ASSUME NEW s \in Shell!Names PROVE Shell!Find(s) \in {s, None}
BY DEF Shell!Find

(* The frames after a step of the tutorial is shown.                       *)
LEMMA FramesGrow ==
  ASSUME NEW f \in Seq(Shell!Asked), NEW s \in Shell!Names
  PROVE  /\ Append(f, [step |-> s, here |-> TRUE]) \in Seq(Shell!Asked)
         /\ Append(f, [step |-> s, here |-> TRUE]) # <<>>
         /\ Append(f, [step |-> s, here |-> TRUE])[Len(Append(f, [step |-> s, here |-> TRUE]))]
              = [step |-> s, here |-> TRUE]
<1>1. [step |-> s, here |-> TRUE] \in Shell!Asked BY DEF Shell!Asked
<1> QED BY <1>1, AppendProperties

LEMMA OrphansKnown ==
  ASSUME Shell!Shapes
  PROVE  /\ Shell!Orphans \in Seq(Shell!Asked)
         /\ Shell!Orphans = <<>> <=> v10.frames = <<>>
<1>1. PICK f \in Seq(Shell!Asked) : f = v10.frames BY DEF Shell!Shapes, Shell!Tours
<1>2. Shell!Orphans = [i \in 1..Len(f) |-> [f[i] EXCEPT !.here = FALSE]]
  BY <1>1 DEF Shell!Orphans
<1>3. \A i \in 1..Len(f) : [f[i] EXCEPT !.here = FALSE] \in Shell!Asked
  <2> TAKE i \in 1..Len(f)
  <2>1. f[i] \in Shell!Asked BY <1>1
  <2> QED BY <2>1 DEF Shell!Asked
<1>4. Len(f) \in Nat BY <1>1
<1>5. Shell!Orphans \in Seq(Shell!Asked) BY <1>2, <1>3, <1>4
<1>6. Len(Shell!Orphans) = Len(f) BY <1>2, <1>4, <1>5
<1>7. \A g \in Seq(Shell!Asked) : g = <<>> <=> Len(g) = 0
  BY EmptySeq
<1> QED BY <1>1, <1>5, <1>6, <1>7

(* The tour of a window that is drawn anew once the tutorial has been seen. *)
LEMMA SeenTour ==
  ASSUME Shell!Shapes
  PROVE  /\ [Shell!NoTour EXCEPT !.frames = Shell!Orphans] \in Shell!Tours
         /\ [Shell!NoTour EXCEPT !.frames = Shell!Orphans].step = None
         /\ [Shell!NoTour EXCEPT !.frames = Shell!Orphans].glow = {}
         /\ [Shell!NoTour EXCEPT !.frames = Shell!Orphans].frames = Shell!Orphans
BY OrphansKnown DEF Shell!NoTour, Shell!Tours

LEMMA GuidedStarts == ASSUME Shell!ShellAssumption, Shell!Init PROVE Shell!Guided
<1>1. "SignIn" \in Shell!Names BY StepNames
<1>2. <<>> \in Seq(Shell!Asked) OBVIOUS
<1>3. PICK f : f = Append(<<>>, [step |-> "SignIn", here |-> TRUE]) OBVIOUS
<1>4. /\ f \in Seq(Shell!Asked) /\ f # <<>>
      /\ f[Len(f)] = [step |-> "SignIn", here |-> TRUE]
  BY <1>1, <1>2, <1>3, FramesGrow
<1>5. v10 = IF v9 THEN [Shell!NoTour EXCEPT !.frames = <<>>]
             ELSE [Shell!NoTour EXCEPT !.step = "SignIn", !.frames = f]
  BY <1>3 DEF Shell!Init, Shell!Built
<1>6. /\ v10 \in Shell!Tours /\ v10.glow = {}
      /\ v9 => v10.step = None /\ v10.frames = <<>>
      /\ ~v9 => v10.step = "SignIn" /\ v10.frames = f
  BY <1>1, <1>2, <1>4, <1>5 DEF Shell!NoTour, Shell!Tours
<1>7. /\ v1 = "Main" /\ v2 = "Repos" /\ v3 = FALSE /\ v9 \in BOOLEAN
      /\ v11 = FALSE /\ v12 = FALSE /\ v8 = Shell!Bare
      /\ v5 = [session |-> 1, signIn |-> 0, signOut |-> 0]
  BY DEF Shell!Init
<1>8. v5 \in [session : Nat, signIn : Nat, signOut : Nat] /\ ~(v5.signIn > 0) BY <1>7
<1>9. /\ v8 \in [settings : BOOLEAN, confirm : BOOLEAN, popover : BOOLEAN, routes : BOOLEAN]
      /\ ~v8.routes
  BY <1>7 DEF Shell!Bare
<1>10. Shell!Shapes BY <1>6, <1>7, <1>8, <1>9 DEF Shell!Shapes, Shell!Sections
<1>11. Shell!SeenFirst
  <2>1. None # "SignIn" BY <1>1 DEF Shell!ShellAssumption
  <2> QED BY <1>6, <1>7, <1>8, <1>9, <2>1 DEF Shell!SeenFirst, Shell!Main
<1>12. Shell!StepsOwnFrame
  <2>1. Shell!Section("SignIn") = "Repos" BY DEF Shell!Section
  <2> QED BY <1>4, <1>6, <1>7, <2>1 DEF Shell!StepsOwnFrame
<1>13. Shell!NothingLeft
  <2>1. None # "SignIn" BY <1>1 DEF Shell!ShellAssumption
  <2> QED BY <1>6, <1>7, <2>1 DEF Shell!NothingLeft
<1> QED BY <1>10, <1>11, <1>12, <1>13 DEF Shell!Guided

(* What leaves the tutorial alone.                                         *)
LEMMA GuidedAside ==
  ASSUME Shell!ShellAssumption, Shell!Guided,
         \/ \E s \in Shell!Sections : Shell!ClickNav(s) \/ Shell!PickRoute(s)
         \/ Shell!ClickSyncSignedOut \/ Shell!OpenSettings \/ Shell!CloseSettings
         \/ Shell!OpenRoutes \/ Shell!CloseRoutes
         \/ Shell!SubmitToken \/ Shell!SignInFails \/ Shell!TogglePopover \/ Shell!AskSignOut
         \/ Shell!CancelSignOut
         \/ Shell!ConfirmSignOut
  PROVE  Shell!Guided'
<1>1. /\ UNCHANGED <<v1, v3, v9, v10, v11, v12>>
      /\ v2' = v2 \/ (v2' \in Shell!Sections /\ v10.step = None)
  BY DEF Shell!ClickNav, Shell!PickRoute, Shell!ClickSyncSignedOut, Shell!OpenSettings,
    Shell!CloseSettings, Shell!OpenRoutes,
         Shell!CloseRoutes, Shell!SubmitToken, Shell!SignInFails, Shell!TogglePopover,
           Shell!AskSignOut, Shell!CancelSignOut,
         Shell!ConfirmSignOut, Shell!Guided, Shell!SeenFirst
<1>2. /\ v8' \in [settings : BOOLEAN, confirm : BOOLEAN, popover : BOOLEAN, routes : BOOLEAN]
      /\ v8'.routes => v8.routes \/ v10.step = None
  BY DEF Shell!ClickNav, Shell!PickRoute, Shell!ClickSyncSignedOut, Shell!OpenSettings,
    Shell!CloseSettings, Shell!OpenRoutes,
         Shell!CloseRoutes, Shell!SubmitToken, Shell!SignInFails, Shell!TogglePopover,
           Shell!AskSignOut, Shell!CancelSignOut,
         Shell!ConfirmSignOut, Shell!HeaderFree, Shell!Guided, Shell!Shapes
<1>3. /\ v5' \in [session : Nat, signIn : Nat, signOut : Nat]
      /\ v5'.signIn > 0 => v5.signIn > 0 \/ ~Shell!Main
  <2>1. v5 \in [session : Nat, signIn : Nat, signOut : Nat] BY DEF Shell!Guided, Shell!Shapes
  <2>2. CASE Shell!SubmitToken BY <2>1, <2>2 DEF Shell!SubmitToken, Shell!Main
  <2>3. CASE Shell!SignInFails BY <2>1, <2>3 DEF Shell!SignInFails
  <2>4. CASE Shell!ConfirmSignOut BY <2>1, <2>4 DEF Shell!ConfirmSignOut
  <2>5. CASE ~Shell!SubmitToken /\ ~Shell!SignInFails /\ ~Shell!ConfirmSignOut
    <3>1. v5' = v5
      BY <2>5 DEF Shell!ClickNav, Shell!PickRoute, Shell!ClickSyncSignedOut,
        Shell!OpenSettings, Shell!CloseSettings, Shell!OpenRoutes,
               Shell!CloseRoutes, Shell!TogglePopover, Shell!AskSignOut, Shell!CancelSignOut
    <3> QED BY <2>1, <3>1
  <2> QED BY <2>2, <2>3, <2>4, <2>5
<1>4. Shell!Shapes' BY <1>1, <1>2, <1>3 DEF Shell!Guided, Shell!Shapes
<1>5. Shell!SeenFirst' BY <1>1, <1>2, <1>3 DEF Shell!Guided, Shell!SeenFirst, Shell!Main
<1>6. Shell!StepsOwnFrame' BY <1>1 DEF Shell!Guided, Shell!StepsOwnFrame
<1>7. Shell!NothingLeft' BY <1>1 DEF Shell!Guided, Shell!NothingLeft
<1> QED BY <1>4, <1>5, <1>6, <1>7 DEF Shell!Guided

(* The button to sign in is drawn anew, and the bubble is moved.           *)
LEMMA GuidedDrawn ==
  ASSUME Shell!ShellAssumption, Shell!Guided,
         \/ \E b \in BOOLEAN : Shell!Resize(b) \/ Shell!SessionAnswered(b)
         \/ Shell!ToggleSidebar \/ Shell!HintTimer \/ Shell!SignedOut
  PROVE  Shell!Guided'
<1>1. v10 \in Shell!Tours /\ v3 \in BOOLEAN /\ v12 \in BOOLEAN BY DEF Shell!Guided, Shell!Shapes
<1>2. UNCHANGED <<v1, v2, v9, v11>>
  BY DEF Shell!Resize, Shell!SessionAnswered, Shell!ToggleSidebar, Shell!HintTimer,
    Shell!SignedOut
<1>3. /\ Shell!Redrawn(v10) \in Shell!Tours
      /\ Shell!Redrawn(v10).step = v10.step /\ Shell!Redrawn(v10).frames = v10.frames
      /\ Shell!Redrawn(v10).target = v10.target /\ Shell!Redrawn(v10).glow \subseteq v10.glow
  BY <1>1 DEF Shell!Redrawn, Shell!Tours
<1>4. /\ v10' \in Shell!Tours /\ v10'.step = v10.step /\ v10'.frames = v10.frames
      /\ v10'.glow \subseteq v10.glow
      /\ v10'.target = v10.target
         \/ (Shell!Main /\ v10.step # None /\ v10'.target = Shell!Find(v10.step))
  <2>1. CASE v10' = v10 \/ v10' = Shell!Redrawn(v10) BY <1>1, <1>3, <2>1
  <2>2. ASSUME NEW b \in BOOLEAN, Shell!Resize(b), Shell!Main, v10.step # None
        PROVE  /\ v10' \in Shell!Tours /\ v10'.step = v10.step /\ v10'.frames = v10.frames
               /\ v10'.glow \subseteq v10.glow /\ v10'.target = Shell!Find(v10.step)
    <3>1. PICK t \in {v10, Shell!Redrawn(v10)} : v10' = [t EXCEPT !.target = Shell!Find(t.step)]
      BY <2>2, <1>3 DEF Shell!Resize
    <3>2. t \in Shell!Tours /\ t.step = v10.step /\ t.frames = v10.frames
          /\ t.glow \subseteq v10.glow
      BY <1>1, <1>3
    <3>3. Shell!Find(v10.step) \in Shell!Names \cup {None}
          /\ Shell!Find(t.step) = Shell!Find(v10.step)
      BY <1>1, <2>2, <3>2, FindKnown DEF Shell!Tours
    <3> QED BY <3>1, <3>2, <3>3 DEF Shell!Tours
  <2>3. ASSUME NEW b \in BOOLEAN, Shell!Resize(b), ~Shell!Main \/ v10.step = None
        PROVE  v10' = v10 \/ v10' = Shell!Redrawn(v10)
    BY <1>3, <2>3 DEF Shell!Resize
  <2>4. v10' = v10 \/ v10' = Shell!Redrawn(v10) \/ \E b \in BOOLEAN : Shell!Resize(b)
    BY DEF Shell!SessionAnswered, Shell!ToggleSidebar, Shell!HintTimer, Shell!SignedOut
  <2> QED BY <2>1, <2>2, <2>3, <2>4
<1>5. /\ v3' \in BOOLEAN /\ v12' \in BOOLEAN
      /\ v3 \/ v12 => v3' \/ v12'
  BY <1>1 DEF Shell!Resize, Shell!SessionAnswered, Shell!ToggleSidebar, Shell!HintTimer,
    Shell!SignedOut
<1>6. /\ v8' \in [settings : BOOLEAN, confirm : BOOLEAN, popover : BOOLEAN, routes : BOOLEAN]
      /\ v8'.routes = v8.routes
  BY DEF Shell!Resize, Shell!SessionAnswered, Shell!ToggleSidebar, Shell!HintTimer,
    Shell!SignedOut, Shell!Guided, Shell!Shapes
<1>7. /\ v5' \in [session : Nat, signIn : Nat, signOut : Nat]
      /\ v5'.signIn = v5.signIn
  BY DEF Shell!Resize, Shell!SessionAnswered, Shell!ToggleSidebar, Shell!HintTimer,
    Shell!SignedOut, Shell!Guided, Shell!Shapes
<1>8. Shell!Shapes' BY <1>2, <1>4, <1>5, <1>6, <1>7 DEF Shell!Guided, Shell!Shapes
<1>9. Shell!SeenFirst' BY <1>2, <1>4, <1>6, <1>7 DEF Shell!Guided, Shell!SeenFirst, Shell!Main
<1>10. Shell!StepsOwnFrame'
  <2>1. v10.step # None => v10.step \in Shell!Names BY <1>1 DEF Shell!Tours
  <2>2. ASSUME v10.step # None, v10'.target # v10.target
        PROVE  v10'.target = v10.step \/ (v10.step = "SignIn" /\ v3)
    BY <1>4, <2>1, <2>2, StepFound
  <2> QED BY <1>2, <1>4, <1>5, <2>2 DEF Shell!Guided, Shell!StepsOwnFrame
<1>11. Shell!NothingLeft' BY <1>2, <1>4 DEF Shell!Guided, Shell!NothingLeft
<1> QED BY <1>8, <1>9, <1>10, <1>11 DEF Shell!Guided

(* The sign-in screen comes and goes: the frames asked for stay on their   *)
(* way.                                                                    *)
LEMMA GuidedElsewhere ==
  ASSUME Shell!ShellAssumption, Shell!Guided,
    Shell!ClickSignIn \/ Shell!CancelSignIn \/ Shell!SignedIn
  PROVE  Shell!Guided'
<1>1. v9 /\ v9' = v9
  BY DEF Shell!ClickSignIn, Shell!CancelSignIn, Shell!SignedIn, Shell!Guided, Shell!SeenFirst,
    Shell!Main
<1>2. v10' = [Shell!NoTour EXCEPT !.frames = Shell!Orphans]
  BY <1>1 DEF Shell!ClickSignIn, Shell!CancelSignIn, Shell!SignedIn, Shell!Built
<1>3. PICK t \in Shell!Tours : /\ v10' = t /\ t.step = None /\ t.glow = {}
                               /\ t.frames = Shell!Orphans
  BY <1>2, SeenTour DEF Shell!Guided
<1>4. /\ v1' \in {"Main", "SignIn"} /\ v2' \in Shell!Sections /\ v3' \in BOOLEAN
      /\ v12' \in BOOLEAN /\ v11' \in BOOLEAN
  BY <1>1 DEF Shell!ClickSignIn, Shell!CancelSignIn, Shell!SignedIn, Shell!Guided, Shell!Shapes
<1>5. v8' \in [settings : BOOLEAN, confirm : BOOLEAN, popover : BOOLEAN, routes : BOOLEAN]
  <2>1. Shell!Bare \in [settings : BOOLEAN, confirm : BOOLEAN, popover : BOOLEAN, routes : BOOLEAN]
    BY DEF Shell!Bare
  <2>2. v8' = v8 \/ v8' = Shell!Bare
    BY DEF Shell!ClickSignIn, Shell!CancelSignIn, Shell!SignedIn
  <2> QED BY <2>1, <2>2 DEF Shell!Guided, Shell!Shapes
<1>6. v5' \in [session : Nat, signIn : Nat, signOut : Nat]
  <2>1. v5 \in [session : Nat, signIn : Nat, signOut : Nat] BY DEF Shell!Guided, Shell!Shapes
  <2>2. CASE Shell!SignedIn BY <2>1, <2>2 DEF Shell!SignedIn
  <2>3. CASE ~Shell!SignedIn BY <2>1, <2>3 DEF Shell!ClickSignIn, Shell!CancelSignIn
  <2> QED BY <2>2, <2>3
<1>7. Shell!Shapes' BY <1>1, <1>3, <1>4, <1>5, <1>6 DEF Shell!Guided, Shell!Shapes
<1>8. Shell!SeenFirst' BY <1>1, <1>3 DEF Shell!SeenFirst
<1>9. Shell!StepsOwnFrame' BY <1>3 DEF Shell!StepsOwnFrame
<1>10. ~v11' => v10.frames = <<>>
  BY DEF Shell!ClickSignIn, Shell!CancelSignIn, Shell!SignedIn, Shell!Guided, Shell!SeenFirst,
    Shell!NothingLeft, Shell!Main
<1>11. Shell!NothingLeft' BY <1>3, <1>10, OrphansKnown DEF Shell!Guided, Shell!NothingLeft
<1> QED BY <1>7, <1>8, <1>9, <1>11 DEF Shell!Guided

(* A step is shown: its frame is asked for.                                *)
LEMMA GuidedShows ==
  ASSUME Shell!ShellAssumption, Shell!Guided, NEW s \in Shell!Names, Shell!ShowStep(s),
         Shell!Main, ~v8.routes,
         UNCHANGED <<v1, v3, v4, v5, v6, v7, v8, v9, v11>>
  PROVE  Shell!Guided'
<1>1. v10 \in Shell!Tours BY DEF Shell!Guided, Shell!Shapes
<1>2. PICK f : f = Append(v10.frames, [step |-> s, here |-> TRUE]) OBVIOUS
<1>3. /\ f \in Seq(Shell!Asked) /\ f # <<>>
      /\ f[Len(f)] = [step |-> s, here |-> TRUE]
  BY <1>1, <1>2, FramesGrow DEF Shell!Tours
<1>4. v10' = [v10 EXCEPT !.step = s, !.frames = f] /\ v2' = Shell!Section(s) /\ v12' = FALSE
  BY <1>2 DEF Shell!ShowStep
<1>5. v10' \in Shell!Tours /\ v10'.step = s /\ v10'.frames = f
  BY <1>1, <1>3, <1>4 DEF Shell!Tours
<1>6. s # None BY DEF Shell!ShellAssumption
<1>7. v2' \in Shell!Sections BY <1>4 DEF Shell!Section, Shell!Sections
<1>8. Shell!Shapes' BY <1>4, <1>5, <1>7 DEF Shell!Guided, Shell!Shapes
<1>9. Shell!SeenFirst' BY <1>5, <1>6 DEF Shell!Guided, Shell!SeenFirst, Shell!Main
<1>10. Shell!StepsOwnFrame' BY <1>3, <1>4, <1>5 DEF Shell!StepsOwnFrame
<1>11. Shell!NothingLeft' BY <1>5, <1>6 DEF Shell!NothingLeft
<1> QED BY <1>8, <1>9, <1>10, <1>11 DEF Shell!Guided

(* It is left: its mark goes.                                              *)
LEMMA GuidedHides ==
  ASSUME Shell!ShellAssumption, Shell!Guided, Shell!HideStep,
         UNCHANGED <<v1, v3, v4, v5, v6, v7, v8>>
  PROVE  Shell!Guided'
<1>1. /\ v9' = TRUE /\ v11' = (v10.frames # <<>>) /\ UNCHANGED <<v2, v12>>
      /\ v10' = [v10 EXCEPT !.step = None, !.glow = {}] /\ v10 \in Shell!Tours
  BY DEF Shell!HideStep, Shell!Guided, Shell!Shapes
<1>2. v10' \in Shell!Tours /\ v10'.step = None /\ v10'.glow = {} /\ v10'.frames = v10.frames
  BY <1>1 DEF Shell!Tours
<1>3. Shell!Shapes' BY <1>1, <1>2 DEF Shell!Guided, Shell!Shapes
<1>4. Shell!SeenFirst' BY <1>1, <1>2 DEF Shell!SeenFirst
<1>5. Shell!StepsOwnFrame' BY <1>2 DEF Shell!StepsOwnFrame
<1>6. Shell!NothingLeft' BY <1>1, <1>2 DEF Shell!NothingLeft
<1> QED BY <1>3, <1>4, <1>5, <1>6 DEF Shell!Guided

LEMMA GuidedTurns ==
  ASSUME Shell!ShellAssumption, Shell!Guided,
    Shell!OpenTutorial \/ Shell!GoPrevious \/ Shell!GoNext \/ Shell!Skip
  PROVE  Shell!Guided'
<1>1. v10.step \in Shell!Names \cup {None} BY DEF Shell!Guided, Shell!Shapes, Shell!Tours
<1>2. v10.step # None => ~v8.routes BY DEF Shell!Guided, Shell!SeenFirst
<1>3. CASE Shell!OpenTutorial
  <2>1. "SignIn" \in Shell!Names BY StepNames
  <2> QED BY <1>3, <2>1, GuidedShows DEF Shell!OpenTutorial, Shell!HeaderFree
<1>4. CASE Shell!GoPrevious
  <2>1. v10.step \in Shell!Names /\ Shell!Index(v10.step) \in 1..8 /\ Shell!Index(v10.step) > 1
    BY <1>1, <1>4, StepIndex DEF Shell!GoPrevious, Shell!TourFree
  <2>2. Shell!Index(v10.step) - 1 \in 1..8 BY <2>1
  <2>3. PICK s \in Shell!Names : s = Shell!Steps[Shell!Index(v10.step) - 1] BY <2>2, StepNames
  <2>4. Shell!ShowStep(s) /\ Shell!Main /\ UNCHANGED <<v1, v3, v4, v5, v6, v7, v8, v9, v11>>
        /\ ~v8.routes
    BY <1>2, <1>4, <2>3 DEF Shell!GoPrevious, Shell!TourFree
  <2> QED BY <2>3, <2>4, GuidedShows
<1>5. CASE Shell!GoNext
  <2>1. v10.step \in Shell!Names /\ Shell!Index(v10.step) \in 1..8
    BY <1>1, <1>5, StepIndex DEF Shell!GoNext, Shell!TourFree
  <2>2. CASE Shell!Index(v10.step) = Len(Shell!Steps)
    BY <1>5, <2>2, GuidedHides DEF Shell!GoNext
  <2>3. CASE Shell!Index(v10.step) # Len(Shell!Steps)
    <3>1. Shell!Index(v10.step) + 1 \in 1..8 BY <2>1, <2>3, StepNames
    <3>2. PICK s \in Shell!Names : s = Shell!Steps[Shell!Index(v10.step) + 1] BY <3>1, StepNames
    <3>3. Shell!ShowStep(s) /\ Shell!Main /\ UNCHANGED <<v1, v3, v4, v5, v6, v7, v8, v9, v11>>
          /\ ~v8.routes
      BY <1>2, <1>5, <2>3, <3>2 DEF Shell!GoNext, Shell!TourFree
    <3> QED BY <3>2, <3>3, GuidedShows
  <2> QED BY <2>2, <2>3
<1>6. CASE Shell!Skip BY <1>6, GuidedHides DEF Shell!Skip
<1> QED BY <1>3, <1>4, <1>5, <1>6

(* A frame is drawn; the step's own is the last.                           *)
LEMMA GuidedFrame ==
  ASSUME Shell!ShellAssumption, Shell!Guided, Shell!Frame PROVE Shell!Guided'
<1>1. /\ UNCHANGED <<v1, v2, v3, v5, v8, v9, v11, v12>>
      /\ v10 \in Shell!Tours /\ v10.frames # <<>>
  BY DEF Shell!Frame, Shell!Guided, Shell!Shapes
<1>2. PICK f \in Seq(Shell!Asked) : f = v10.frames BY <1>1 DEF Shell!Tours
<1>3. Len(f) \in Nat /\ Len(f) >= 1 BY <1>1, <1>2, EmptySeq
<1>4. PICK h \in Shell!Asked : h = Head(f) /\ h = f[1]
  BY <1>2, <1>3, HeadTailProperties
<1>5. /\ Tail(f) \in Seq(Shell!Asked) /\ Len(Tail(f)) = Len(f) - 1
      /\ Tail(f) = <<>> <=> Len(f) = 1
      /\ Len(f) > 1 => Tail(f)[Len(f) - 1] = f[Len(f)]
  <2>1. Tail(f) \in Seq(Shell!Asked) /\ Len(Tail(f)) = Len(f) - 1
        /\ \A i \in 1..Len(f) - 1 : Tail(f)[i] = f[i + 1]
    BY <1>2, <1>3, HeadTailProperties
  <2>2. Tail(f) = <<>> <=> Len(Tail(f)) = 0 BY <2>1, EmptySeq
  <2>3. Len(f) > 1 => Len(f) - 1 \in 1..Len(f) - 1 BY <1>3
  <2> QED BY <1>3, <2>1, <2>2, <2>3
<1>6. PICK m : m = Shell!Find(h.step) OBVIOUS
<1>7. m \in Shell!Names \cup {None}
  <2>1. h.step \in Shell!Names BY <1>4 DEF Shell!Asked
  <2> QED BY <1>6, <2>1, FindKnown
<1>8. v10' = [v10 EXCEPT !.frames = Tail(f), !.target = IF h.here THEN m ELSE v10.target,
                           !.glow = {m} \ {None}]
  BY <1>2, <1>4, <1>6 DEF Shell!Frame
<1>9. /\ v10' \in Shell!Tours /\ v10'.step = v10.step /\ v10'.frames = Tail(f)
      /\ v10'.target = IF h.here THEN m ELSE v10.target
  BY <1>1, <1>5, <1>7, <1>8 DEF Shell!Tours
<1>10. Shell!Shapes' BY <1>1, <1>9 DEF Shell!Guided, Shell!Shapes
<1>11. Shell!SeenFirst' BY <1>1, <1>9 DEF Shell!Guided, Shell!SeenFirst, Shell!Main
<1>12. Shell!StepsOwnFrame'
  <2> SUFFICES ASSUME v10.step # None PROVE Shell!StepsOwnFrame' BY <1>9 DEF Shell!StepsOwnFrame
  <2>1. f[Len(f)] = [step |-> v10.step, here |-> TRUE] /\ v2 = Shell!Section(v10.step)
    BY <1>1, <1>2 DEF Shell!Guided, Shell!StepsOwnFrame
  <2>2. CASE Len(f) = 1
    <3>1. h.step = v10.step /\ h.here BY <1>4, <2>1, <2>2 DEF Shell!Asked
    <3>2. Shell!Main /\ v10.step \in Shell!Names
      BY <1>1 DEF Shell!Guided, Shell!SeenFirst, Shell!Tours
    <3>3. m = v10.step \/ (v10.step = "SignIn" /\ v3) BY <1>6, <3>1, <3>2, StepFound
    <3> QED BY <1>1, <1>5, <1>9, <2>1, <2>2, <3>1, <3>3 DEF Shell!StepsOwnFrame
  <2>3. CASE Len(f) # 1
    <3>1. Tail(f)[Len(Tail(f))] = [step |-> v10.step, here |-> TRUE] /\ Tail(f) # <<>>
      BY <1>3, <1>5, <2>1, <2>3
    <3> QED BY <1>1, <1>9, <2>1, <3>1 DEF Shell!StepsOwnFrame
  <2> QED BY <2>2, <2>3
<1>13. Shell!NothingLeft' BY <1>1, <1>9 DEF Shell!Guided, Shell!NothingLeft
<1> QED BY <1>10, <1>11, <1>12, <1>13 DEF Shell!Guided

LEMMA GuidedStep == ASSUME Shell!ShellAssumption, Shell!Guided,
  Shell!ShellNext PROVE Shell!Guided'
<1>1. CASE \/ \E s \in Shell!Sections : Shell!ClickNav(s) \/ Shell!PickRoute(s)
           \/ Shell!ClickSyncSignedOut \/ Shell!OpenSettings \/ Shell!CloseSettings
           \/ Shell!OpenRoutes \/ Shell!CloseRoutes
           \/ Shell!SubmitToken \/ Shell!SignInFails \/ Shell!TogglePopover \/ Shell!AskSignOut
           \/ Shell!CancelSignOut
           \/ Shell!ConfirmSignOut
  BY <1>1, GuidedAside
<1>2. CASE \/ \E b \in BOOLEAN : Shell!Resize(b) \/ Shell!SessionAnswered(b)
           \/ Shell!ToggleSidebar \/ Shell!HintTimer \/ Shell!SignedOut
  BY <1>2, GuidedDrawn
<1>3. CASE Shell!ClickSignIn \/ Shell!CancelSignIn \/ Shell!SignedIn BY <1>3, GuidedElsewhere
<1>4. CASE Shell!OpenTutorial \/ Shell!GoPrevious \/ Shell!GoNext \/ Shell!Skip
  BY <1>4, GuidedTurns
<1>5. CASE Shell!Frame BY <1>5, GuidedFrame
<1> QED BY <1>1, <1>2, <1>3, <1>4, <1>5 DEF Shell!ShellNext

LEMMA GuidedStays == ASSUME Shell!Guided, UNCHANGED Shell!vars PROVE Shell!Guided'
<1>1. UNCHANGED <<v1, v2, v3, v5, v8, v9, v10, v11, v12>> BY DEF Shell!vars
<1> QED
  BY <1>1 DEF Shell!Guided, Shell!Shapes, Shell!SeenFirst, Shell!StepsOwnFrame,
    Shell!NothingLeft, Shell!Main

LEMMA GuidedSafe ==
  ASSUME Shell!ShellAssumption,
    Shell!Guided PROVE Shell!StepsArePointedOut /\ Shell!MarksGoWithTheTour
<1>1. Shell!StepsArePointedOut
  BY DEF Shell!Guided, Shell!StepsOwnFrame, Shell!StepsArePointedOut
<1>2. Shell!MarksGoWithTheTour
  BY DEF Shell!Guided, Shell!SeenFirst, Shell!NothingLeft, Shell!MarksGoWithTheTour
<1> QED BY <1>1, <1>2

LEMMA ShellKept == Spec => [](part = "shell" => Shell!Guided)
<1>1. Init => (part = "shell" => Shell!Guided) BY GuidedStarts, WindowAssumption DEF Init
<1>2. (part = "shell" => Shell!Guided) /\ [Next]_vars
        => (part = "shell" => Shell!Guided)'
  <2> SUFFICES ASSUME part' = "shell", part' = "shell" /\ part = part' => Shell!Guided,
                      [Next]_vars
               PROVE  Shell!Guided'
    BY Onward
  <2>1. part = "shell" BY Onward
  <2>2. CASE UNCHANGED vars
    <3>1. UNCHANGED Shell!vars BY <2>2 DEF vars, Shell!vars
    <3> QED BY <2>1, <3>1, GuidedStays
  <2>3. CASE Shell!ShellNext BY <2>1, <2>3, GuidedStep, WindowAssumption
  <2> QED BY <2>1, <2>2, <2>3 DEF Next
<1> QED BY <1>1, <1>2, PTL DEF Spec

(* As long as a step of the tutorial is on, the bubble points at what the  *)
(* step is about, and once it is left no mark stays: for any number of     *)
(* frames asked for and of sign-ins under way (TutorialGuide,              *)
(* refresh_target, mark_beginner_tutorial_seen, SignedIn in App).          *)
THEOREM ShellIsSafe == Spec => []ShellSafe
<1>1. (part = "shell" => Shell!Guided) => ShellSafe
  BY GuidedSafe, WindowAssumption DEF ShellSafe
<1> QED BY <1>1, ShellKept, PTL
-----------------------------------------------------------------------------
(* The settings page: v1 is active, v2 file, v3 temp, v4 dir, v5 made, v6  *)
(* page, v7 tab, v8 dirty, v9 foreign.                                     *)

LEMMA PathsHold ==
  ASSUME NEW f \in {"~", "/home", "/", ""}, NEW r \in Places
  PROVE  [from |-> f, rest |-> r] \in Settings!Paths
BY DEF Settings!Paths

(* Paths: a short form names the same place, and is its own short form.    *)
LEMMA ShortForm ==
  ASSUME NEW p \in Settings!Paths
  PROVE  /\ Settings!Expand(p) \in Settings!Paths /\ Settings!HomeRelative(p) \in Settings!Paths
         /\ Settings!Expand(p).from # "~"
         /\ Settings!HomeRelative(Settings!HomeRelative(p)) = Settings!HomeRelative(p)
         /\ Settings!Expand(Settings!HomeRelative(p)) = Settings!Expand(p)
<1>1. p.from \in {"~", "/home", "/", ""} /\ p.rest \in Places
      /\ p = [from |-> p.from, rest |-> p.rest]
  BY DEF Settings!Paths
<1>2. CASE p.from = "~"
  <2>1. Settings!Expand(p) = [from |-> "/home", rest |-> p.rest]
    BY <1>2 DEF Settings!Expand, Settings!Path
  <2>2. Settings!Expand(p) \in Settings!Paths BY <1>1, <2>1, PathsHold
  <2>4. Settings!Expand(p).from # "~" BY <2>1
  <2>3. Settings!HomeRelative(p) = p
    BY <1>1, <1>2, <2>1 DEF Settings!HomeRelative, Settings!Path
  <2> QED BY <2>2, <2>3, <2>4
<1>3. CASE p.from = "/home"
  <2>1. Settings!Expand(p) = p BY <1>3 DEF Settings!Expand
  <2>2. Settings!HomeRelative(p) = [from |-> "~", rest |-> p.rest]
    BY <1>3, <2>1 DEF Settings!HomeRelative, Settings!Path
  <2>3. Settings!Expand(Settings!HomeRelative(p)) = p
    BY <1>1, <1>3, <2>2 DEF Settings!Expand, Settings!Path
  <2>4. Settings!HomeRelative(Settings!HomeRelative(p)) = Settings!HomeRelative(p)
    BY <1>3, <2>2, <2>3 DEF Settings!HomeRelative, Settings!Path
  <2>5. Settings!HomeRelative(p) \in Settings!Paths BY <1>1, <2>2, PathsHold
  <2> QED BY <1>3, <2>1, <2>3, <2>4, <2>5
<1>4. CASE p.from \in {"/", ""}
  <2>1. Settings!Expand(p) = p BY <1>4 DEF Settings!Expand
  <2>2. Settings!HomeRelative(p) = p BY <1>4, <2>1 DEF Settings!HomeRelative
  <2> QED BY <1>1, <1>4, <2>1, <2>2
<1> QED BY <1>1, <1>2, <1>3, <1>4

LEMMA TypedAre == Settings!Typed \subseteq Settings!Paths
BY DEF Settings!Typed, Settings!Paths

LEMMA SettlingBecomes ==
  ASSUME Settings!Shapes, NEW w \in Workers, NEW j, Settings!Becomes(w, j)
  PROVE  /\ job' = [v \in Workers |-> job'[v]] /\ job'[w] = j
         /\ \A v \in Workers \ {w} : job'[v] = job[v]
<1>1. job = [v \in Workers |-> job[v]] BY DEF Settings!Shapes
<1>2. PICK f : f = job OBVIOUS
<1>3. f = [v \in Workers |-> f[v]] /\ job' = [f EXCEPT ![w] = j]
  BY <1>1, <1>2 DEF Settings!Becomes
<1> QED BY <1>2, <1>3

LEMMA SettlingCall ==
  ASSUME NEW op \in {"load", "pick", "save"}, NEW t, NEW text \in Settings!Texts(t)
  PROVE  /\ Settings!Call(op, t, text) \in Settings!Calls(t)
         /\ Settings!Call(op, t, text).op = op /\ Settings!Call(op, t, text).tab = t
         /\ Settings!Call(op, t, text).text = text
         /\ Settings!Call(op, t, text).pc = "sent" /\ Settings!Call(op, t, text).here
BY DEF Settings!Call, Settings!Idle, Settings!Calls

LEMMA SettlingIdle ==
  /\ Settings!Idle \in Settings!Calls(None) /\ Settings!Idle.op = "idle" /\ Settings!Idle.tab = None
  /\ ~Settings!Idle.here /\ Settings!Idle.pc = "sent"
BY DEF Settings!Idle, Settings!Calls, Settings!Texts

LEMMA SettlingStarts == ASSUME Settings!SettingsAssumption,
  Settings!Init PROVE Settings!Settling
<1>1. PICK i : i = Settings!Idle OBVIOUS
<1>2. i \in Settings!Calls(None) /\ i.op = "idle" /\ i.tab = None /\ ~i.here /\ i.pc = "sent"
  BY <1>1, SettlingIdle
<1>3. job = [w \in Workers |-> i] BY <1>1 DEF Settings!Init
<1>4. \A w \in Workers : job[w] = i BY <1>3
<1>5. PICK d \in Places : Settings!Initially = [from |-> "~", rest |-> d]
  BY DEF Settings!Initially, Settings!Path, Settings!SettingsAssumption
<1>6. v4 \in Settings!Paths /\ v4 = Settings!Initially /\ v5 = Settings!Expand(v4)
  BY <1>5 DEF Settings!Init, Settings!Paths
<1>7. Settings!Expand(v4) \in Settings!Paths /\ Settings!HomeRelative(v4) = v4
  <2>1. Settings!Expand(v4) = [from |-> "/home", rest |-> d]
    BY <1>5, <1>6 DEF Settings!Expand, Settings!Path
  <2>2. Settings!Expand(v4) \in Settings!Paths BY <2>1, PathsHold
  <2> QED BY <1>5, <1>6, <2>1, <2>2 DEF Settings!HomeRelative, Settings!Path
<1>8. /\ v1 \in Conns /\ v2 \in [Conns -> SUBSET Blocks] /\ v3 = None
      /\ v6 = [open |-> FALSE, tab |-> "general"] /\ v7 = Settings!NoTab
      /\ v8 = FALSE /\ v9 = FALSE
  BY DEF Settings!Init, Settings!SettingsAssumption
<1>9. None \in Settings!Texts(v6.tab) BY DEF Settings!Texts
<1>10. job = [w \in Workers |-> job[w]] BY <1>3
<1>11. v7 \in [loaded : BOOLEAN, loading : BOOLEAN, saving : BOOLEAN,
                shown : Settings!Texts(v6.tab), saved : Settings!Texts(v6.tab)]
       /\ ~v7.loading /\ ~v7.saving
  BY <1>8, <1>9 DEF Settings!NoTab
<1>12. v6 \in [open : BOOLEAN, tab : {"general", "storage", "config"}] BY <1>8
<1>13. Settings!Shapes BY <1>2, <1>4, <1>6, <1>7, <1>8, <1>10, <1>11, <1>12 DEF Settings!Shapes
<1>14. Settings!TabsCalls BY <1>2, <1>4 DEF Settings!TabsCalls, Settings!Active
<1>15. Settings!Waiting BY <1>2, <1>4, <1>8, <1>11 DEF Settings!Waiting, Settings!Awaited
<1>16. Settings!Undisturbed BY <1>2, <1>4, <1>8 DEF Settings!Undisturbed, Settings!Active
<1> QED BY <1>6, <1>7, <1>13, <1>14, <1>15, <1>16 DEF Settings!Settling

(* The page is opened and closed, and typed into; others write the file or *)
(* change the connection.                                                  *)
LEMMA SettlingPage ==
  ASSUME Settings!SettingsAssumption, Settings!Settling,
         \/ Settings!CloseSettings \/ \E w \in Workers : Settings!OpenSettings(w)
         \/ \E b \in Blocks : Settings!BlockWritten(b)
         \/ \E c \in Conns : Settings!Connect(c)
  PROVE  Settings!Settling'
<1>1. /\ UNCHANGED <<v3, v4, v5, job, v7, v8>>
      /\ v6'.tab = v6.tab /\ v6' \in [open : BOOLEAN, tab : {"general", "storage", "config"}]
  <2>1. v6 \in [open : BOOLEAN, tab : {"general", "storage", "config"}]
    BY DEF Settings!Settling, Settings!Shapes
  <2>2. CASE Settings!CloseSettings BY <2>1, <2>2 DEF Settings!CloseSettings
  <2>3. ASSUME NEW w \in Workers, Settings!OpenSettings(w)
        PROVE  /\ UNCHANGED <<v3, v4, v5, job, v7, v8>>
               /\ v6'.tab = v6.tab
               /\ v6' \in [open : BOOLEAN, tab : {"general", "storage", "config"}]
    <3>1. v6' = [v6 EXCEPT !.open = TRUE] BY <2>3 DEF Settings!OpenSettings
    <3>2. v6'.tab = v6.tab BY <2>1, <3>1
    <3>3. v6'.tab # "general" => v7.loaded BY <3>2 DEF Settings!Settling, Settings!Waiting
    <3>4. v7' = v7 /\ UNCHANGED <<job, v8, v9>>
      BY <2>3, <3>3 DEF Settings!OpenSettings, Settings!Shown
    <3> QED BY <2>1, <2>3, <3>1, <3>4 DEF Settings!OpenSettings
  <2>4. ASSUME NEW b \in Blocks, Settings!BlockWritten(b)
        PROVE UNCHANGED <<v3, v4, v5, job, v6, v7, v8>>
    BY <2>4 DEF Settings!BlockWritten, Settings!window
  <2>5. ASSUME NEW c \in Conns, Settings!Connect(c)
        PROVE UNCHANGED <<v3, v4, v5, job, v6, v7, v8>>
    BY <2>5 DEF Settings!Connect, Settings!window
  <2> QED BY <2>1, <2>2, <2>3, <2>4, <2>5
<1>2. /\ v1' \in Conns /\ v2' \in [Conns -> SUBSET Blocks] /\ v9' \in BOOLEAN
      /\ v9' \/ UNCHANGED <<v1, v2, v9>>
  <2>1. /\ v1 \in Conns /\ v2 \in [Conns -> SUBSET Blocks] /\ v9 \in BOOLEAN
        /\ v6.tab # "general" => v7.loaded
    BY DEF Settings!Settling, Settings!Shapes, Settings!Waiting
  <2>2. CASE Settings!CloseSettings BY <2>1, <2>2 DEF Settings!CloseSettings
  <2>3. ASSUME NEW w \in Workers, Settings!OpenSettings(w) PROVE UNCHANGED <<v1, v2, v9>>
    BY <1>1, <2>1, <2>3 DEF Settings!OpenSettings, Settings!Shown
  <2>4. ASSUME NEW b \in Blocks, Settings!BlockWritten(b)
        PROVE  v1' = v1 /\ v2' \in [Conns -> SUBSET Blocks] /\ v9'
    BY <2>1, <2>4 DEF Settings!BlockWritten
  <2>5. ASSUME NEW c \in Conns, Settings!Connect(c) PROVE v1' \in Conns /\ v2' = v2 /\ v9'
    BY <2>5 DEF Settings!Connect
  <2>6. \A b \in Blocks : Settings!BlockWritten(b) => v9' = TRUE BY DEF Settings!BlockWritten
  <2>7. \A c \in Conns : Settings!Connect(c) => v9' = TRUE BY DEF Settings!Connect
  <2> QED BY <2>1, <2>2, <2>3, <2>4, <2>5, <2>6, <2>7
<1>3. Settings!Shapes'
  BY <1>1, <1>2 DEF Settings!Settling, Settings!Shapes, Settings!Texts, Settings!Calls
<1>4. Settings!TabsCalls' BY <1>1 DEF Settings!Settling, Settings!TabsCalls, Settings!Active
<1>5. Settings!Waiting' BY <1>1 DEF Settings!Settling, Settings!Waiting, Settings!Awaited
<1>6. Settings!Undisturbed'
  BY <1>1, <1>2 DEF Settings!Settling, Settings!Undisturbed, Settings!Active, Settings!Current
<1>7. v4' = Settings!HomeRelative(v4)' /\ Settings!Expand(v4)' = v5'
  BY <1>1 DEF Settings!Settling, Settings!HomeRelative, Settings!Expand
<1> QED BY <1>3, <1>4, <1>5, <1>6, <1>7 DEF Settings!Settling

LEMMA SettlingTypes ==
  ASSUME Settings!SettingsAssumption, Settings!Settling,
         \/ \E t \in SUBSET Blocks : Settings!Type("config", t)
         \/ \E p \in Settings!Typed : Settings!Type("storage", p)
  PROVE  Settings!Settling'
<1>1. PICK text \in Settings!Texts(v6.tab) : v7' = [v7 EXCEPT !.shown = text]
  <2>1. Settings!Typed \subseteq Settings!Paths BY TypedAre
  <2>2. ASSUME NEW t \in SUBSET Blocks, Settings!Type("config", t)
        PROVE  t \in Settings!Texts(v6.tab) /\ v7' = [v7 EXCEPT !.shown = t]
    BY <2>2 DEF Settings!Type, Settings!On, Settings!Texts
  <2>3. ASSUME NEW p \in Settings!Typed, Settings!Type("storage", p)
        PROVE  p \in Settings!Texts(v6.tab) /\ v7' = [v7 EXCEPT !.shown = p]
    BY <2>1, <2>3 DEF Settings!Type, Settings!On, Settings!Texts
  <2> QED BY <2>2, <2>3
<1>2. v8' = TRUE /\ UNCHANGED <<v1, v2, v3, v4, v5, v6, job, v9>>
  BY DEF Settings!Type
<1>3. /\ v7' \in [loaded : BOOLEAN, loading : BOOLEAN, saving : BOOLEAN,
                   shown : Settings!Texts(v6.tab), saved : Settings!Texts(v6.tab)]
      /\ UNCHANGED <<v7.loaded, v7.loading, v7.saving>>
  BY <1>1 DEF Settings!Settling, Settings!Shapes
<1>4. Settings!Shapes'
  BY <1>2, <1>3 DEF Settings!Settling, Settings!Shapes, Settings!Texts, Settings!Calls
<1>5. Settings!TabsCalls' BY <1>2 DEF Settings!Settling, Settings!TabsCalls, Settings!Active
<1>6. Settings!Waiting' BY <1>2, <1>3 DEF Settings!Settling, Settings!Waiting, Settings!Awaited
<1>7. Settings!Undisturbed'
  BY <1>2 DEF Settings!Settling, Settings!Undisturbed, Settings!Active, Settings!Current
<1>8. v4' = Settings!HomeRelative(v4)' /\ Settings!Expand(v4)' = v5'
  BY <1>2 DEF Settings!Settling, Settings!HomeRelative, Settings!Expand
<1> QED BY <1>4, <1>5, <1>6, <1>7, <1>8 DEF Settings!Settling

(* A call is sent: if it is alone, it is one of a tab that nothing else    *)
(* has disturbed.                                                          *)
LEMMA SettlingSends ==
  ASSUME Settings!SettingsAssumption, Settings!Settling, NEW w \in Workers,
         Settings!Reload(w) \/ Settings!ChooseDirectory(w) \/ Settings!ClickSave(w)
  PROVE  Settings!Settling'
<1>1. /\ UNCHANGED <<v1, v2, v3, v4, v5, v6>> /\ v6.open /\ ~Settings!Active(w)
      /\ v6.tab \in {"storage", "config"} /\ v7.loaded
      /\ ~v9' => Settings!Quiet
      /\ v9' \in BOOLEAN /\ v8' \in BOOLEAN
  <2>1. /\ v9 \in BOOLEAN /\ v8 \in BOOLEAN
        /\ v6.tab \in {"general", "storage", "config"}
        /\ v6.tab # "general" => v7.loaded
    BY DEF Settings!Settling, Settings!Shapes, Settings!Waiting
  <2>2. CASE Settings!Reload(w)
    <3>1. /\ UNCHANGED <<v1, v2, v3, v4, v5, v6>> /\ v6.open /\ ~Settings!Active(w)
          /\ v6.tab = "config" /\ v9' = ~Settings!Quiet /\ v8' = FALSE
      BY <2>2 DEF Settings!Reload, Settings!Loads, Settings!Sends, Settings!On
    <3>2. (~v9' => Settings!Quiet) /\ v9' \in BOOLEAN BY <2>1, <3>1 DEF Settings!Quiet
    <3>3. v6.tab \in {"storage", "config"} /\ v7.loaded BY <2>1, <3>1
    <3>4. v8' \in BOOLEAN BY <2>1, <3>1
    <3> QED BY <3>1, <3>2, <3>3, <3>4
  <2>3. CASE Settings!ChooseDirectory(w)
    <3>1. /\ UNCHANGED <<v1, v2, v3, v4, v5, v6, v8>> /\ v6.open /\ ~Settings!Active(w)
          /\ v6.tab = "storage" /\ v9' = (v9 \/ ~Settings!Quiet)
      BY <2>3 DEF Settings!ChooseDirectory, Settings!Sends, Settings!On, Settings!window
    <3>2. (~v9' => Settings!Quiet) /\ v9' \in BOOLEAN BY <2>1, <3>1 DEF Settings!Quiet
    <3>3. v6.tab \in {"storage", "config"} /\ v7.loaded BY <2>1, <3>1
    <3>4. v8' \in BOOLEAN BY <2>1, <3>1
    <3> QED BY <3>1, <3>2, <3>3, <3>4
  <2>4. CASE Settings!ClickSave(w)
    <3>1. /\ UNCHANGED <<v1, v2, v3, v4, v5, v6>> /\ v6.open /\ ~Settings!Active(w)
          /\ v6.tab # "general" /\ v9' = (v9 \/ ~Settings!Quiet) /\ v8' = FALSE
      BY <2>4 DEF Settings!ClickSave, Settings!Sends
    <3>2. (~v9' => Settings!Quiet) /\ v9' \in BOOLEAN BY <2>1, <3>1 DEF Settings!Quiet
    <3>3. v6.tab \in {"storage", "config"} /\ v7.loaded BY <2>1, <3>1
    <3>4. v8' \in BOOLEAN BY <2>1, <3>1
    <3> QED BY <3>1, <3>2, <3>3, <3>4
  <2> QED BY <2>2, <2>3, <2>4
<1>2. PICK j : /\ Settings!Becomes(w, j) /\ j \in Settings!Calls(v6.tab)
               /\ j.op \in {"load", "pick", "save"}
               /\ j.tab = v6.tab /\ j.pc = "sent" /\ j.here
               /\ j.op = "load" => ~v7.loading /\ v7' = [v7 EXCEPT !.loading = TRUE]
               /\ j.op = "save" => ~v7.saving /\ v7' = [v7 EXCEPT !.saving = TRUE]
               /\ j.op = "pick" => v7' = v7 /\ v8' = v8 /\ v6.tab = "storage"
                                   /\ (~v9' => ~v9)
  <2>1. None \in Settings!Texts(v6.tab) /\ v7.shown \in Settings!Texts(v6.tab)
    BY DEF Settings!Settling, Settings!Shapes, Settings!Texts
  <2>2. CASE Settings!Reload(w)
    <3>1. Settings!Becomes(w, Settings!Call("load", v6.tab, None)) /\ ~v7.loading
          /\ v7' = [v7 EXCEPT !.loading = TRUE]
      BY <2>2 DEF Settings!Reload, Settings!Loads, Settings!Sends, Settings!On
    <3>2. PICK j : j = Settings!Call("load", v6.tab, None) OBVIOUS
    <3>3. j \in Settings!Calls(v6.tab) /\ j.op = "load" /\ j.tab = v6.tab /\ j.pc = "sent" /\ j.here
      BY <2>1, <3>2, SettlingCall
    <3> QED BY <3>1, <3>2, <3>3
  <2>3. CASE Settings!ChooseDirectory(w)
    <3>1. Settings!Becomes(w, Settings!Call("pick", v6.tab, None)) /\ v6.tab = "storage"
          /\ v7' = v7 /\ v8' = v8 /\ (~v9' => ~v9)
      BY <2>3 DEF Settings!ChooseDirectory, Settings!Sends, Settings!On, Settings!window
    <3>2. PICK j : j = Settings!Call("pick", v6.tab, None) OBVIOUS
    <3>3. j \in Settings!Calls(v6.tab) /\ j.op = "pick" /\ j.tab = v6.tab /\ j.pc = "sent" /\ j.here
      BY <2>1, <3>2, SettlingCall
    <3> QED BY <3>1, <3>2, <3>3
  <2>4. CASE Settings!ClickSave(w)
    <3>1. Settings!Becomes(w, Settings!Call("save", v6.tab, v7.shown)) /\ ~v7.saving
          /\ v7' = [v7 EXCEPT !.saving = TRUE]
      BY <2>4 DEF Settings!ClickSave, Settings!Sends
    <3>2. PICK j : j = Settings!Call("save", v6.tab, v7.shown) OBVIOUS
    <3>3. j \in Settings!Calls(v6.tab) /\ j.op = "save" /\ j.tab = v6.tab /\ j.pc = "sent" /\ j.here
      BY <2>1, <3>2, SettlingCall
    <3> QED BY <3>1, <3>2, <3>3
  <2> QED BY <2>2, <2>3, <2>4
<1>3. /\ job' = [v \in Workers |-> job'[v]] /\ job'[w] = j
      /\ \A v \in Workers \ {w} : job'[v] = job[v]
  BY <1>2, SettlingBecomes DEF Settings!Settling
<1>4. /\ v7' \in [loaded : BOOLEAN, loading : BOOLEAN, saving : BOOLEAN,
                   shown : Settings!Texts(v6.tab), saved : Settings!Texts(v6.tab)]
      /\ UNCHANGED <<v7.loaded, v7.shown>>
      /\ v7'.loading = (v7.loading \/ j.op = "load")
      /\ v7'.saving = (v7.saving \/ j.op = "save")
  <2>1. v7 \in [loaded : BOOLEAN, loading : BOOLEAN, saving : BOOLEAN,
                 shown : Settings!Texts(v6.tab), saved : Settings!Texts(v6.tab)]
    BY DEF Settings!Settling, Settings!Shapes
  <2> QED BY <1>2, <2>1
<1>5. Settings!Shapes'
  <2>1. \A v \in Workers : job'[v] \in Settings!Calls(job'[v].tab)
    BY <1>2, <1>3 DEF Settings!Settling, Settings!Shapes
  <2> QED
    BY <1>1, <1>3, <1>4, <2>1 DEF Settings!Settling, Settings!Shapes, Settings!Texts,
      Settings!Calls
<1>6. Settings!TabsCalls'
  BY <1>1, <1>2, <1>3 DEF Settings!Settling, Settings!TabsCalls, Settings!Active
<1>7. Settings!Waiting'
  <2>1. \A op \in {"load", "save"}, v \in Workers :
          Settings!Awaited(op, v)' <=> IF v = w THEN j.op = op ELSE Settings!Awaited(op, v)
    BY <1>2, <1>3 DEF Settings!Awaited
  <2>2. \A op \in {"load", "save"} : ~Settings!Awaited(op, w)
    BY <1>1 DEF Settings!Awaited, Settings!Active
  <2>3. /\ j.op = "load" => \A v \in Workers : ~Settings!Awaited("load", v)
        /\ j.op = "save" => \A v \in Workers : ~Settings!Awaited("save", v)
    BY <1>2 DEF Settings!Settling, Settings!Waiting
  <2> HIDE DEF Settings!Awaited
  <2> QED BY <1>1, <1>4, <2>1, <2>2, <2>3 DEF Settings!Settling, Settings!Waiting
<1>8. Settings!Undisturbed'
  <2> SUFFICES ASSUME ~v9' PROVE Settings!Undisturbed' BY DEF Settings!Undisturbed
  <2>1. \A v \in Workers : job'[v].op # "idle" => v = w
    BY <1>1, <1>3 DEF Settings!Quiet, Settings!Active
  <2>2. j.op = "pick" /\ ~v8' => v7'.shown = Settings!Current'
    <3>1. j.op = "pick" /\ ~v8 => v7.shown = Settings!Current
      BY <1>1, <1>2 DEF Settings!Settling, Settings!Undisturbed, Settings!Quiet, Settings!Active
    <3> QED BY <1>1, <1>2, <1>4, <3>1 DEF Settings!Current
  <2> QED BY <1>2, <1>3, <2>1, <2>2 DEF Settings!Undisturbed, Settings!Active
<1>9. v4' = Settings!HomeRelative(v4)' /\ Settings!Expand(v4)' = v5'
  BY <1>1 DEF Settings!Settling, Settings!HomeRelative, Settings!Expand
<1> QED BY <1>5, <1>6, <1>7, <1>8, <1>9 DEF Settings!Settling

(* A tab is drawn anew: no other call is its own.                          *)
LEMMA SettlingClicks ==
  ASSUME Settings!SettingsAssumption, Settings!Settling, NEW w \in Workers,
         NEW t \in {"general", "storage", "config"}, Settings!ClickTab(w, t)
  PROVE  Settings!Settling'
<1>1. /\ UNCHANGED <<v1, v2, v3, v4, v5>> /\ ~Settings!Active(w)
      /\ v9' = ~Settings!Quiet /\ v8' = FALSE
      /\ v6' = [v6 EXCEPT !.tab = t]
      /\ v7' = IF t = "general" THEN Settings!NoTab
               ELSE [Settings!NoTab EXCEPT !.loaded = TRUE, !.loading = TRUE]
  BY DEF Settings!ClickTab
<1>2. v6' \in [open : BOOLEAN, tab : {"general", "storage", "config"}] /\ v6'.tab = t
  BY <1>1 DEF Settings!Settling, Settings!Shapes
<1>3. /\ v7' \in [loaded : BOOLEAN, loading : BOOLEAN, saving : BOOLEAN,
                   shown : Settings!Texts(t), saved : Settings!Texts(t)]
      /\ ~v7'.saving
      /\ IF t = "general" THEN ~v7'.loading ELSE v7'.loaded /\ v7'.loading
  <2>1. None \in Settings!Texts(t) BY DEF Settings!Texts
  <2>2. Settings!NoTab \in [loaded : BOOLEAN, loading : BOOLEAN, saving : BOOLEAN,
                   shown : Settings!Texts(t),
                   saved : Settings!Texts(t)] /\ ~Settings!NoTab.loading /\ ~Settings!NoTab.saving
    BY <2>1 DEF Settings!NoTab
  <2> QED BY <1>1, <2>2
<1>4. PICK c : c = Settings!Call("load", t, None) OBVIOUS
<1>5. c \in Settings!Calls(t) /\ c.op = "load" /\ c.tab = t /\ c.pc = "sent" /\ c.here
  <2>1. None \in Settings!Texts(t) BY DEF Settings!Texts
  <2> QED BY <1>4, <2>1, SettlingCall
<1>6. job' = [v \in Workers |->
                IF v = w /\ t # "general" THEN c ELSE [job[v] EXCEPT !.here = FALSE]]
  BY <1>4 DEF Settings!ClickTab
<1>7. job' = [v \in Workers |-> job'[v]] BY <1>6
<1>8. t # "general" => job'[w] = c BY <1>6
<1>9. ASSUME NEW v \in Workers, v # w \/ t = "general"
      PROVE  /\ job'[v] \in Settings!Calls(job[v].tab) /\ ~job'[v].here
             /\ job'[v].op = job[v].op /\ job'[v].tab = job[v].tab /\ job'[v].pc = job[v].pc
  <2>1. job'[v] = [job[v] EXCEPT !.here = FALSE] BY <1>6, <1>9
  <2>2. job[v] \in Settings!Calls(job[v].tab) BY DEF Settings!Settling, Settings!Shapes
  <2> QED BY <2>1, <2>2 DEF Settings!Calls
<1>10. Settings!Shapes'
  <2>1. \A v \in Workers : job'[v] \in Settings!Calls(job'[v].tab) BY <1>5, <1>8, <1>9
  <2>2. v9' \in BOOLEAN /\ v8' \in BOOLEAN BY <1>1
  <2> QED
    BY <1>1, <1>2, <1>3, <1>7, <2>1, <2>2 DEF Settings!Settling, Settings!Shapes,
      Settings!Texts, Settings!Calls
<1>11. Settings!TabsCalls'
  <2>1. ASSUME NEW v \in Workers, v # w \/ t = "general"
        PROVE  /\ IF job'[v].op # "idle" THEN job'[v].tab \in {"storage", "config"}
                  ELSE ~job'[v].here
               /\ job'[v].here => job'[v].tab = v6'.tab
               /\ job'[v].op = "pick" => job'[v].tab = "storage"
               /\ job'[v].pc = "rename" => job'[v].op = "save" /\ job'[v].tab = "config"
    BY <1>9, <2>1 DEF Settings!Settling, Settings!TabsCalls, Settings!Active
  <2>2. t # "general" => /\ job'[w].op # "idle" /\ job'[w].tab \in {"storage", "config"}
                         /\ job'[w].tab = v6'.tab /\ job'[w].op # "pick"
                         /\ job'[w].pc # "rename"
    BY <1>2, <1>5, <1>8
  <2> QED BY <2>1, <2>2 DEF Settings!TabsCalls, Settings!Active
<1>12. Settings!Waiting'
  <2>1. \A op \in {"load", "save"}, v \in Workers :
          Settings!Awaited(op, v)' <=> v = w /\ t # "general" /\ op = "load"
    BY <1>5, <1>8, <1>9 DEF Settings!Awaited
  <2> HIDE DEF Settings!Awaited
  <2> QED BY <1>2, <1>3, <2>1 DEF Settings!Waiting
<1>13. Settings!Undisturbed'
  <2> SUFFICES ASSUME Settings!Quiet PROVE Settings!Undisturbed'
    BY <1>1 DEF Settings!Undisturbed
  <2>1. \A v \in Workers : job'[v].op # "idle" => v = w /\ t # "general"
    BY <1>9 DEF Settings!Quiet, Settings!Active
  <2>2. t = "general" => v6'.tab = "general" BY <1>2
  <2>3. t # "general" => job'[w].op = "load" BY <1>5, <1>8
  <2> QED BY <1>5, <1>8, <2>1, <2>2, <2>3 DEF Settings!Undisturbed, Settings!Active
<1>14. v4' = Settings!HomeRelative(v4)' /\ Settings!Expand(v4)' = v5'
  BY <1>1 DEF Settings!Settling, Settings!HomeRelative, Settings!Expand
<1> QED BY <1>10, <1>11, <1>12, <1>13, <1>14 DEF Settings!Settling

(* A command goes on.                                                      *)
LEMMA SettlingGoesOn ==
  ASSUME Settings!SettingsAssumption, Settings!Settling, NEW w \in Workers, NEW j,
         Settings!Becomes(w, j), Settings!Active(w),
         j \in Settings!Calls(job[w].tab), j.op = job[w].op, j.here = job[w].here,
         j.pc = "rename" => j.op = "save" /\ job[w].tab = "config",
         UNCHANGED <<v1, v6, v7, v8>>,
         v2' \in [Conns -> SUBSET Blocks], v3' \in {None} \cup [text : SUBSET Blocks],
         v4' \in Settings!Paths, v5' \in Settings!Paths, v4' = Settings!HomeRelative(v4)',
         Settings!Expand(v4)' = v5',
         v9' \in BOOLEAN, v9 => v9',
         ASSUME ~v9', ~v9, job[w].here, job[w].tab = v6.tab
         PROVE  /\ j.pc = "failed" => j.op = "pick"
                /\ j.pc = "answered" /\ j.op # "pick" => j.text = Settings!Current'
                /\ j.pc = "rename" => v1 = Local /\ v3' = [text |-> Settings!Text(j.text)]
                /\ j.op = "pick" => Settings!Current' = Settings!Current
  PROVE  Settings!Settling'
<1>1. /\ job' = [v \in Workers |-> job'[v]] /\ job'[w] = j
      /\ \A v \in Workers \ {w} : job'[v] = job[v]
  BY SettlingBecomes DEF Settings!Settling
<1>2. j.tab = job[w].tab BY DEF Settings!Calls
<1>3. Settings!Shapes'
  <2>1. \A v \in Workers : job'[v] \in Settings!Calls(job'[v].tab)
    BY <1>1, <1>2 DEF Settings!Settling, Settings!Shapes
  <2> QED BY <1>1, <2>1 DEF Settings!Settling, Settings!Shapes, Settings!Texts, Settings!Calls
<1>4. Settings!TabsCalls'
  BY <1>1, <1>2 DEF Settings!Settling, Settings!TabsCalls, Settings!Active
<1>5. Settings!Waiting'
  <2>1. \A op \in {"load", "save"}, v \in Workers : Settings!Awaited(op, v)'
        <=> Settings!Awaited(op, v)
    BY <1>1 DEF Settings!Awaited
  <2> HIDE DEF Settings!Awaited
  <2> QED BY <2>1 DEF Settings!Settling, Settings!Waiting
<1>6. Settings!Undisturbed'
  <2> SUFFICES ASSUME ~v9' PROVE Settings!Undisturbed' BY DEF Settings!Undisturbed
  <2>1. /\ ~v9 /\ job[w].here /\ job[w].tab = v6.tab
        /\ \A v \in Workers : Settings!Active(v) => v = w
    BY DEF Settings!Settling, Settings!Undisturbed, Settings!TabsCalls
  <2>2. /\ j.pc = "failed" => j.op = "pick"
        /\ j.pc = "answered" /\ j.op # "pick" => j.text = Settings!Current'
        /\ j.pc = "rename" => v1 = Local /\ v3' = [text |-> Settings!Text(j.text)]
        /\ j.op = "pick" => Settings!Current' = Settings!Current
    BY <2>1
  <2>3. \A v \in Workers : job'[v].op # "idle" => v = w BY <1>1, <2>1 DEF Settings!Active
  <2>4. v6.tab # "general" /\ ~v8 /\ j.op = "pick" => v7.shown = Settings!Current
    <3>1. j.op = "pick" => \A v \in Workers : job[v].op \in {"idle", "pick"}
      BY <2>1 DEF Settings!Active
    <3> QED BY <2>1, <3>1 DEF Settings!Settling, Settings!Undisturbed
  <2>5. j.op # "idle" BY DEF Settings!Active
  <2> HIDE DEF Settings!Current
  <2> QED BY <1>1, <2>1, <2>2, <2>3, <2>4, <2>5 DEF Settings!Undisturbed, Settings!Active
<1> QED BY <1>3, <1>4, <1>5, <1>6 DEF Settings!Settling

LEMMA SettlingReads ==
  ASSUME Settings!SettingsAssumption, Settings!Settling, NEW w \in Workers,
         Settings!ReadConfig(w) \/ Settings!ReadDir(w) \/ Settings!CallFails(w)
           \/ \E p \in Settings!Typed : Settings!PickDir(w, p)
  PROVE  Settings!Settling'
<1>1. /\ UNCHANGED <<v1, v2, v3, v5, v6, v7, v8>> /\ Settings!Active(w)
  BY DEF Settings!ReadConfig, Settings!ReadDir, Settings!CallFails, Settings!PickDir,
    Settings!Reads, Settings!Active, Settings!window
<1>2. /\ job[w] \in Settings!Calls(job[w].tab) /\ v2 \in [Conns -> SUBSET Blocks] /\ v1 \in Conns
      /\ v4 \in Settings!Paths /\ v5 \in Settings!Paths /\ v3 \in {None} \cup [text : SUBSET Blocks]
      /\ v9 \in BOOLEAN
  BY DEF Settings!Settling, Settings!Shapes
<1>3. v4' = v4
  BY DEF Settings!ReadConfig, Settings!ReadDir, Settings!CallFails, Settings!PickDir,
    Settings!Settling
<1>4. v4' = Settings!HomeRelative(v4)' /\ Settings!Expand(v4)' = v5'
  BY <1>1, <1>3 DEF Settings!Settling, Settings!HomeRelative, Settings!Expand
<1>5. CASE Settings!CallFails(w)
  <2>1. PICK j : j = [job[w] EXCEPT !.pc = "failed"] OBVIOUS
  <2>2. None \in Settings!Texts(job[w].tab) BY DEF Settings!Texts
  <2>3. j \in Settings!Calls(job[w].tab) /\ j.op = job[w].op /\ j.here = job[w].here
        /\ j.pc = "failed"
    BY <1>2, <2>1, <2>2 DEF Settings!Calls
  <2>4. Settings!Becomes(w, j) /\ v9' = (v9 \/ job[w].op # "pick")
    BY <1>5, <2>1 DEF Settings!CallFails, Settings!Fails
  <2>5. v9' \in BOOLEAN /\ (v9 => v9') /\ (~v9' => j.op = "pick")
    BY <1>2, <2>3, <2>4
  <2>6. Settings!Current' = Settings!Current BY <1>1, <1>3 DEF Settings!Current
  <2> QED BY <1>1, <1>2, <1>3, <1>4, <2>3, <2>4, <2>5, <2>6, SettlingGoesOn
<1>6. CASE Settings!ReadConfig(w) \/ Settings!ReadDir(w)
           \/ \E p \in Settings!Typed : Settings!PickDir(w, p)
  <2>1. PICK text \in Settings!Texts(job[w].tab) :
          /\ Settings!Answers(w, text)
          /\ job[w].op # "pick" => text = IF job[w].tab = "config" THEN v2[v1] ELSE v4
          /\ job[w].op # "pick" => job[w].tab \in {"config", "storage"}
    <3>1. CASE Settings!ReadConfig(w)
      <4>1. v2[v1] \in Settings!Texts("config") BY <1>2 DEF Settings!Texts
      <4> QED BY <3>1, <4>1 DEF Settings!ReadConfig, Settings!Reads
    <3>2. CASE Settings!ReadDir(w)
      <4>1. v4 \in Settings!Texts("storage") BY <1>2 DEF Settings!Texts
      <4> QED BY <1>3, <3>2, <4>1 DEF Settings!ReadDir, Settings!Reads
    <3>3. ASSUME NEW p \in Settings!Typed, Settings!PickDir(w, p)
          PROVE  p \in Settings!Texts(job[w].tab) /\ Settings!Answers(w, p) /\ job[w].op = "pick"
      <4>1. p \in Settings!Paths BY TypedAre
      <4> QED BY <3>3, <4>1 DEF Settings!PickDir, Settings!Reads, Settings!Texts
    <3> QED BY <1>6, <3>1, <3>2, <3>3
  <2>2. PICK j : j = [job[w] EXCEPT !.pc = "answered", !.text = text] OBVIOUS
  <2>3. j \in Settings!Calls(job[w].tab) /\ j.op = job[w].op /\ j.here = job[w].here
        /\ j.pc = "answered"
        /\ j.text = text
    BY <1>2, <2>2 DEF Settings!Calls
  <2>4. Settings!Becomes(w, j) /\ v9' = v9
    BY <1>6, <2>1, <2>2 DEF Settings!Answers, Settings!ReadConfig, Settings!ReadDir,
      Settings!PickDir
  <2>5. Settings!Current' = Settings!Current BY <1>1, <1>3 DEF Settings!Current
  <2>6. job[w].tab = v6.tab /\ j.op # "pick" => j.text = Settings!Current'
    BY <2>1, <2>3, <2>5 DEF Settings!Current
  <2> QED BY <1>1, <1>2, <1>3, <1>4, <2>3, <2>4, <2>5, <2>6, SettlingGoesOn
<1> QED BY <1>5, <1>6

(* A configuration is written: on this machine by way of a temporary file. *)
LEMMA SettlingWrites ==
  ASSUME Settings!SettingsAssumption, Settings!Settling, NEW w \in Workers,
         Settings!SaveRemoteConfig(w) \/ Settings!WriteTemp(w) \/ Settings!RenameTemp(w)
  PROVE  Settings!Settling'
<1>1. /\ UNCHANGED <<v1, v4, v5, v6, v7, v8, v9>> /\ Settings!Active(w)
      /\ job[w].op = "save" /\ job[w].tab = "config"
  BY DEF Settings!SaveRemoteConfig, Settings!WriteTemp, Settings!RenameTemp, Settings!Reads,
    Settings!Active, Settings!window, Settings!Settling, Settings!TabsCalls
<1>2. /\ job[w] \in Settings!Calls(job[w].tab) /\ v2 \in [Conns -> SUBSET Blocks] /\ v1 \in Conns
      /\ v4 \in Settings!Paths /\ v5 \in Settings!Paths /\ v3 \in {None} \cup [text : SUBSET Blocks]
      /\ v9 \in BOOLEAN
  BY DEF Settings!Settling, Settings!Shapes
<1>3. v4' = Settings!HomeRelative(v4)' /\ Settings!Expand(v4)' = v5'
  BY <1>1 DEF Settings!Settling, Settings!HomeRelative, Settings!Expand
<1>4. PICK b \in SUBSET Blocks : b = Settings!Text(job[w].text)
  BY <1>1, <1>2 DEF Settings!Calls, Settings!Texts, Settings!Text
<1>5. b \in Settings!Texts(job[w].tab) BY <1>1 DEF Settings!Texts
<1>6. CASE Settings!SaveRemoteConfig(w)
  <2>1. PICK j : j = [job[w] EXCEPT !.pc = "answered", !.text = b] OBVIOUS
  <2>2. j \in Settings!Calls(job[w].tab) /\ j.op = job[w].op /\ j.here = job[w].here
        /\ j.pc = "answered"
        /\ j.text = b
    BY <1>2, <1>5, <2>1 DEF Settings!Calls
  <2>3. Settings!Becomes(w, j) /\ v2' = [v2 EXCEPT ![v1] = b] /\ v3' = v3
    BY <1>4, <1>6, <2>1 DEF Settings!SaveRemoteConfig, Settings!Answers
  <2>4. v2' \in [Conns -> SUBSET Blocks] /\ v2'[v1] = b BY <1>2, <2>3
  <2>5. job[w].tab = v6.tab => j.text = Settings!Current'
    BY <1>1, <2>2, <2>4 DEF Settings!Current
  <2> QED BY <1>1, <1>2, <1>3, <2>2, <2>3, <2>4, <2>5, SettlingGoesOn
<1>7. CASE Settings!WriteTemp(w)
  <2>1. PICK j : j = [job[w] EXCEPT !.pc = "rename"] OBVIOUS
  <2>2. j \in Settings!Calls(job[w].tab) /\ j.op = job[w].op /\ j.here = job[w].here
        /\ j.pc = "rename"
        /\ j.text = job[w].text
    BY <1>2, <1>5, <2>1 DEF Settings!Calls
  <2>3. Settings!Becomes(w, j) /\ v2' = v2 /\ v3' = [text |-> b] /\ v1 = Local
    BY <1>4, <1>7, <2>1 DEF Settings!WriteTemp
  <2>4. v3' \in {None} \cup [text : SUBSET Blocks] BY <2>3
  <2> QED BY <1>1, <1>2, <1>3, <1>4, <2>2, <2>3, <2>4, SettlingGoesOn
<1>8. CASE Settings!RenameTemp(w)
  <2>1. v3' = None /\ job[w].pc = "rename" BY <1>8 DEF Settings!RenameTemp
  <2>2. CASE v3 = None
    <3>1. PICK j : j = [job[w] EXCEPT !.pc = "failed"] OBVIOUS
    <3>2. j \in Settings!Calls(job[w].tab) /\ j.op = job[w].op /\ j.here = job[w].here
          /\ j.pc = "failed"
      BY <1>2, <1>5, <3>1 DEF Settings!Calls
    <3>3. Settings!Becomes(w, j) /\ v2' = v2
      BY <1>8, <2>2, <3>1 DEF Settings!RenameTemp, Settings!Fails
    <3>4. v9
      <4>1. ~v9 => v3 = [text |-> b]
        BY <1>1, <1>4, <2>1 DEF Settings!Settling, Settings!Undisturbed
      <4> QED BY <2>2, <4>1 DEF Settings!SettingsAssumption
    <3> QED BY <1>1, <1>2, <1>3, <2>1, <3>2, <3>3, <3>4, SettlingGoesOn
  <2>3. CASE v3 # None
    <3>1. PICK j : j = [job[w] EXCEPT !.pc = "answered", !.text = b] OBVIOUS
    <3>2. j \in Settings!Calls(job[w].tab) /\ j.op = job[w].op /\ j.here = job[w].here
          /\ j.pc = "answered"
          /\ j.text = b
      BY <1>2, <1>5, <3>1 DEF Settings!Calls
    <3>3. Settings!Becomes(w, j) /\ v2' = [v2 EXCEPT ![Local] = v3.text]
      BY <1>4, <1>8, <2>3, <3>1 DEF Settings!RenameTemp, Settings!Answers
    <3>4. v3.text \in SUBSET Blocks BY <1>2, <2>3
    <3>5. v2' \in [Conns -> SUBSET Blocks] /\ v2'[Local] = v3.text
      BY <1>2, <3>3, <3>4 DEF Settings!SettingsAssumption
    <3>6. ~v9 => v3.text = b /\ v1 = Local
      BY <1>1, <1>4, <2>1 DEF Settings!Settling, Settings!Undisturbed
    <3>7. ~v9 /\ job[w].tab = v6.tab => j.text = Settings!Current'
      BY <1>1, <3>2, <3>5, <3>6 DEF Settings!Current
    <3> QED BY <1>1, <1>2, <1>3, <2>1, <3>2, <3>3, <3>5, <3>7, SettlingGoesOn
  <2> QED BY <2>2, <2>3
<1> QED BY <1>6, <1>7, <1>8

LEMMA SettlingSavesDir ==
  ASSUME Settings!SettingsAssumption, Settings!Settling, NEW w \in Workers, Settings!SaveDir(w)
  PROVE  Settings!Settling'
<1>1. /\ UNCHANGED <<v1, v2, v3, v6, v7, v8>> /\ Settings!Active(w)
      /\ job[w].op = "save" /\ job[w].tab = "storage"
  BY DEF Settings!SaveDir, Settings!Reads, Settings!Active, Settings!window
<1>2. /\ job[w] \in Settings!Calls(job[w].tab) /\ v2 \in [Conns -> SUBSET Blocks] /\ v1 \in Conns
      /\ v4 \in Settings!Paths /\ v5 \in Settings!Paths /\ v3 \in {None} \cup [text : SUBSET Blocks]
      /\ v9 \in BOOLEAN
  BY DEF Settings!Settling, Settings!Shapes
<1>3. CASE job[w].text # None /\ Settings!IsAbsolute(Settings!Expand(job[w].text))
  <2>1. PICK p \in Settings!Paths : p = job[w].text
    BY <1>1, <1>2, <1>3 DEF Settings!Calls, Settings!Texts
  <2>2. PICK e \in Settings!Paths : e = Settings!Expand(p) BY <2>1, ShortForm
  <2>3. PICK d \in Settings!Paths : d = Settings!HomeRelative(e) BY <2>2, ShortForm
  <2>4. d = Settings!HomeRelative(d) /\ Settings!Expand(d) = Settings!Expand(e)
        /\ Settings!Expand(e) = e
    <3>1. Settings!Expand(e) = e BY <2>1, <2>2, ShortForm DEF Settings!Expand
    <3> QED BY <2>2, <2>3, <3>1, ShortForm
  <2>5. PICK j : j = [job[w] EXCEPT !.pc = "answered", !.text = d] OBVIOUS
  <2>6. d \in Settings!Texts(job[w].tab) BY <1>1, <2>3 DEF Settings!Texts
  <2>7. j \in Settings!Calls(job[w].tab) /\ j.op = job[w].op /\ j.here = job[w].here
        /\ j.pc = "answered"
        /\ j.text = d
    BY <1>2, <2>5, <2>6 DEF Settings!Calls
  <2>8. v4' = d /\ v5' = e /\ Settings!Becomes(w, j) /\ v9' = v9
    BY <1>3, <2>1, <2>2, <2>3, <2>5 DEF Settings!SaveDir, Settings!Answers
  <2>9. v4' = Settings!HomeRelative(v4)' /\ Settings!Expand(v4)' = v5'
    BY <2>4, <2>8 DEF Settings!HomeRelative, Settings!Expand
  <2>10. job[w].tab = v6.tab => j.text = Settings!Current'
    BY <1>1, <2>7, <2>8 DEF Settings!Current
  <2> QED BY <1>1, <1>2, <2>7, <2>8, <2>9, <2>10, SettlingGoesOn
<1>4. CASE ~(job[w].text # None /\ Settings!IsAbsolute(Settings!Expand(job[w].text)))
  <2>1. PICK j : j = [job[w] EXCEPT !.pc = "failed"] OBVIOUS
  <2>2. None \in Settings!Texts(job[w].tab) BY DEF Settings!Texts
  <2>3. j \in Settings!Calls(job[w].tab) /\ j.op = job[w].op /\ j.here = job[w].here
        /\ j.pc = "failed"
    BY <1>2, <2>1, <2>2 DEF Settings!Calls
  <2>4. Settings!Becomes(w, j) /\ v9' = TRUE /\ v4' = v4 /\ v5' = v5
    BY <1>4, <2>1 DEF Settings!SaveDir, Settings!Fails
  <2>5. v4' = Settings!HomeRelative(v4)' /\ Settings!Expand(v4)' = v5'
    BY <2>4 DEF Settings!Settling, Settings!HomeRelative, Settings!Expand
  <2> QED BY <1>1, <1>2, <2>3, <2>4, <2>5, SettlingGoesOn
<1> QED BY <1>3, <1>4

(* An answer: the tab shows it, if it is the tab that asked.               *)
LEMMA SettlingAnswered ==
  ASSUME Settings!SettingsAssumption, Settings!Settling, NEW w \in Workers,
         Settings!LoadAnswered(w) \/ Settings!PickAnswered(w) \/ Settings!SaveAnswered(w)
  PROVE  Settings!Settling'
<1>1. /\ UNCHANGED <<v1, v2, v3, v4, v5, v6, v9>> /\ Settings!Becomes(w, Settings!Idle)
      /\ job[w].op \in {"load", "pick", "save"} /\ job[w].pc \in {"answered", "failed"}
  BY DEF Settings!LoadAnswered, Settings!PickAnswered, Settings!SaveAnswered, Settings!Answered
<1>2. /\ job[w] \in Settings!Calls(job[w].tab) /\ v8 \in BOOLEAN
      /\ v7 \in [loaded : BOOLEAN, loading : BOOLEAN, saving : BOOLEAN,
                  shown : Settings!Texts(v6.tab), saved : Settings!Texts(v6.tab)]
      /\ job[w].here => job[w].tab = v6.tab
  BY DEF Settings!Settling, Settings!Shapes, Settings!TabsCalls
<1>3. PICK i : i = Settings!Idle OBVIOUS
<1>4. i \in Settings!Calls(None) /\ i.op = "idle" /\ i.tab = None /\ ~i.here /\ i.pc = "sent"
  BY <1>3, SettlingIdle
<1>5. /\ job' = [v \in Workers |-> job'[v]] /\ job'[w] = i
      /\ \A v \in Workers \ {w} : job'[v] = job[v]
  BY <1>1, <1>3, SettlingBecomes DEF Settings!Settling
<1>6. PICK text : text = job[w].text OBVIOUS
<1>7. job[w].here => text \in Settings!Texts(v6.tab) BY <1>2, <1>6 DEF Settings!Calls
<1>8. /\ v7' \in [loaded : BOOLEAN, loading : BOOLEAN, saving : BOOLEAN,
                   shown : Settings!Texts(v6.tab), saved : Settings!Texts(v6.tab)]
      /\ v7'.loaded = v7.loaded /\ v8' \in BOOLEAN
      /\ v7'.loading = (v7.loading /\ ~Settings!Awaited("load", w))
      /\ v7'.saving = (v7.saving /\ ~Settings!Awaited("save", w))
      /\ IF job[w].here /\ job[w].pc = "answered"
           THEN /\ v7'.shown = text
                /\ job[w].op = "pick" => v8' = (v8 \/ v7' # v7)
           ELSE v7'.shown = v7.shown /\ v8' = v8
  <2>1. CASE ~job[w].here
    <3>1. v7' = v7 /\ (v8' = v8)
      BY <1>2, <2>1 DEF Settings!LoadAnswered, Settings!PickAnswered, Settings!SaveAnswered
    <3> QED BY <1>2, <2>1, <3>1 DEF Settings!Awaited
  <2>2. CASE Settings!LoadAnswered(w) /\ job[w].here
    <3>1. job[w].op = "load" BY <2>2 DEF Settings!LoadAnswered, Settings!Answered
    <3>2. v7' = IF job[w].pc = "failed" THEN [v7 EXCEPT !.loading = FALSE]
                 ELSE [v7 EXCEPT !.loading = FALSE, !.shown = text, !.saved = text]
      BY <1>6, <2>2 DEF Settings!LoadAnswered
    <3>3. v8' = (v8 /\ job[w].pc # "answered") BY <2>2 DEF Settings!LoadAnswered
    <3> QED BY <1>1, <1>2, <1>7, <2>2, <3>1, <3>2, <3>3 DEF Settings!Awaited
  <2>3. CASE Settings!PickAnswered(w) /\ job[w].here
    <3>1. job[w].op = "pick" BY <2>3 DEF Settings!PickAnswered, Settings!Answered
    <3>2. v7' = IF job[w].pc = "answered" THEN [v7 EXCEPT !.shown = text] ELSE v7
      BY <1>6, <2>3 DEF Settings!PickAnswered
    <3>3. v8' = (v8 \/ v7' # v7) BY <2>3 DEF Settings!PickAnswered
    <3> QED BY <1>1, <1>2, <1>7, <2>3, <3>1, <3>2, <3>3 DEF Settings!Awaited
  <2>4. CASE Settings!SaveAnswered(w) /\ job[w].here
    <3>1. job[w].op = "save" BY <2>4 DEF Settings!SaveAnswered, Settings!Answered
    <3>2. v7' = IF job[w].pc = "failed" THEN [v7 EXCEPT !.saving = FALSE]
                 ELSE [v7 EXCEPT !.saving = FALSE, !.shown = text, !.saved = text]
      BY <1>6, <2>4 DEF Settings!SaveAnswered
    <3>3. v8' = (v8 /\ job[w].pc # "answered") BY <2>4 DEF Settings!SaveAnswered
    <3> QED BY <1>1, <1>2, <1>7, <2>4, <3>1, <3>2, <3>3 DEF Settings!Awaited
  <2> QED BY <2>1, <2>2, <2>3, <2>4
<1>9. Settings!Shapes'
  <2>1. \A v \in Workers : job'[v] \in Settings!Calls(job'[v].tab)
    BY <1>4, <1>5 DEF Settings!Settling, Settings!Shapes
  <2> QED
    BY <1>1, <1>5, <1>8, <2>1 DEF Settings!Settling, Settings!Shapes, Settings!Texts,
      Settings!Calls
<1>10. Settings!TabsCalls'
  BY <1>1, <1>4, <1>5 DEF Settings!Settling, Settings!TabsCalls, Settings!Active
<1>11. Settings!Waiting'
  <2>1. \A op \in {"load", "save"}, v \in Workers :
          Settings!Awaited(op, v)' <=> v # w /\ Settings!Awaited(op, v)
    BY <1>4, <1>5 DEF Settings!Awaited
  <2> HIDE DEF Settings!Awaited
  <2> QED BY <1>1, <1>8, <2>1 DEF Settings!Settling, Settings!Waiting
<1>12. Settings!Undisturbed'
  <2> SUFFICES ASSUME ~v9 PROVE Settings!Undisturbed' BY <1>1 DEF Settings!Undisturbed
  <2>1. /\ job[w].here /\ \A v \in Workers : Settings!Active(v) => v = w
        /\ job[w].pc = "failed" => job[w].op = "pick"
        /\ job[w].pc = "answered" /\ job[w].op # "pick" => text = Settings!Current
        /\ v6.tab # "general" /\ ~v8 /\ (\A v \in Workers : job[v].op \in {"idle", "pick"})
             => v7.shown = Settings!Current
    BY <1>1, <1>6 DEF Settings!Settling, Settings!Undisturbed, Settings!Active
  <2>2. \A v \in Workers : job'[v].op = "idle" BY <1>4, <1>5, <2>1 DEF Settings!Active
  <2>3. Settings!Current' = Settings!Current BY <1>1 DEF Settings!Current
  <2>4. v6.tab # "general" /\ ~v8' => v7'.shown = Settings!Current
    <3>1. CASE job[w].op # "pick" BY <1>1, <1>8, <2>1, <3>1
    <3>2. CASE job[w].op = "pick"
      <4>1. \A v \in Workers : job[v].op \in {"idle", "pick"} BY <2>1, <3>2 DEF Settings!Active
      <4>2. ~v8' => ~v8 /\ v7'.shown = v7.shown BY <1>1, <1>2, <1>8, <3>2
      <4> QED BY <2>1, <4>1, <4>2
    <3> QED BY <3>1, <3>2
  <2> HIDE DEF Settings!Current
  <2> QED BY <1>1, <2>2, <2>3, <2>4 DEF Settings!Undisturbed, Settings!Active
<1>13. v4' = Settings!HomeRelative(v4)' /\ Settings!Expand(v4)' = v5'
  BY <1>1 DEF Settings!Settling, Settings!HomeRelative, Settings!Expand
<1> QED BY <1>9, <1>10, <1>11, <1>12, <1>13 DEF Settings!Settling

LEMMA SettlingStep == ASSUME Settings!SettingsAssumption, Settings!Settling,
  Settings!SettingsNext PROVE Settings!Settling'
<1>1. CASE \/ Settings!CloseSettings \/ \E w \in Workers : Settings!OpenSettings(w)
           \/ \E b \in Blocks : Settings!BlockWritten(b)
           \/ \E c \in Conns : Settings!Connect(c)
  BY <1>1, SettlingPage
<1>2. CASE \/ \E t \in SUBSET Blocks : Settings!Type("config", t)
           \/ \E p \in Settings!Typed : Settings!Type("storage", p)
  BY <1>2, SettlingTypes
<1>3. ASSUME NEW w \in Workers,
             Settings!Reload(w) \/ Settings!ChooseDirectory(w) \/ Settings!ClickSave(w)
             PROVE Settings!Settling'
  BY <1>3, SettlingSends
<1>4. ASSUME NEW w \in Workers, NEW t \in {"general", "storage", "config"},
             Settings!ClickTab(w, t)
      PROVE  Settings!Settling'
  BY <1>4, SettlingClicks
<1>5. ASSUME NEW w \in Workers,
             Settings!ReadConfig(w) \/ Settings!ReadDir(w) \/ Settings!CallFails(w)
               \/ \E p \in Settings!Typed : Settings!PickDir(w, p)
      PROVE  Settings!Settling'
  BY <1>5, SettlingReads
<1>6. ASSUME NEW w \in Workers,
             Settings!SaveRemoteConfig(w) \/ Settings!WriteTemp(w) \/ Settings!RenameTemp(w)
      PROVE  Settings!Settling'
  BY <1>6, SettlingWrites
<1>7. ASSUME NEW w \in Workers, Settings!SaveDir(w) PROVE Settings!Settling'
  BY <1>7, SettlingSavesDir
<1>8. ASSUME NEW w \in Workers,
             Settings!LoadAnswered(w) \/ Settings!PickAnswered(w) \/ Settings!SaveAnswered(w)
      PROVE  Settings!Settling'
  BY <1>8, SettlingAnswered
<1> QED BY <1>1, <1>2, <1>3, <1>4, <1>5, <1>6, <1>7, <1>8 DEF Settings!SettingsNext

LEMMA SettlingStays == ASSUME Settings!Settling,
  UNCHANGED Settings!vars PROVE Settings!Settling'
<1>1. UNCHANGED <<v1, v2, v3, v4, v5, v6, v7, job, v8, v9>> BY DEF Settings!vars
<1>2. Settings!Shapes'
  BY <1>1 DEF Settings!Settling, Settings!Shapes, Settings!Texts, Settings!Calls
<1>3. Settings!TabsCalls' BY <1>1 DEF Settings!Settling, Settings!TabsCalls, Settings!Active
<1>4. Settings!Waiting' BY <1>1 DEF Settings!Settling, Settings!Waiting, Settings!Awaited
<1>5. Settings!Undisturbed'
  BY <1>1 DEF Settings!Settling, Settings!Undisturbed, Settings!Active, Settings!Current
<1>6. v4' = Settings!HomeRelative(v4)' /\ Settings!Expand(v4)' = v5'
  BY <1>1 DEF Settings!Settling, Settings!HomeRelative, Settings!Expand
<1> QED BY <1>2, <1>3, <1>4, <1>5, <1>6 DEF Settings!Settling

LEMMA SettlingSafe ==
  ASSUME Settings!Settling
  PROVE Settings!TabSettles /\ Settings!DirKeepsItsPlace
<1>1. Settings!TabSettles
  <2>1. ASSUME Settings!Quiet PROVE /\ \A w \in Workers : job[w].op = "idle"
                           /\ \A op \in {"load", "save"}, w \in Workers : ~Settings!Awaited(op, w)
    BY <2>1 DEF Settings!Quiet, Settings!Active, Settings!Awaited
  <2>2. Settings!Quiet => ~v7.loading /\ ~v7.saving
    BY <2>1 DEF Settings!Settling, Settings!Waiting
  <2>3. Settings!Quiet /\ v6.tab # "general" /\ ~v8 /\ ~v9 => v7.shown = Settings!Current
    BY <2>1 DEF Settings!Settling, Settings!Undisturbed
  <2> QED BY <2>2, <2>3 DEF Settings!TabSettles, Settings!Current
<1>2. Settings!DirKeepsItsPlace BY DEF Settings!Settling, Settings!DirKeepsItsPlace
<1> QED BY <1>1, <1>2

LEMMA SettingsTabsKept == Spec => [](part = "settings" => Settings!Settling)
<1>1. Init => (part = "settings" => Settings!Settling) BY SettlingStarts, WindowAssumption DEF Init
<1>2. (part = "settings" => Settings!Settling) /\ [Next]_vars
        => (part = "settings" => Settings!Settling)'
  <2> SUFFICES ASSUME part' = "settings", part' = "settings" /\ part = part' => Settings!Settling,
                      [Next]_vars
               PROVE  Settings!Settling'
    BY Onward
  <2>1. part = "settings" BY Onward
  <2>2. CASE UNCHANGED vars
    <3>1. UNCHANGED Settings!vars BY <2>2 DEF vars, Settings!vars
    <3> QED BY <2>1, <3>1, SettlingStays
  <2>3. CASE Settings!SettingsNext BY <2>1, <2>3, SettlingStep, WindowAssumption
  <2> QED BY <2>1, <2>2, <2>3 DEF Next
<1> QED BY <1>1, <1>2, PTL DEF Spec

(* A tab of the settings that has come to rest shows what is saved, unless *)
(* something else changed it; and the key directory keeps its place under  *)
(* its short form: for any connections, files, directories and number of   *)
(* calls (load_storage_dir, load_config, the saves and their commands).    *)
THEOREM SettingsPageIsSafe == Spec => []SettingsSafe
<1>1. (part = "settings" => Settings!Settling) => SettingsSafe
  BY SettlingSafe DEF SettingsSafe
<1> QED BY <1>1, SettingsTabsKept, PTL
-----------------------------------------------------------------------------
(* The Keys screen: v1 is active, v2 store, v3 used, v4 reread, v5 stale.  *)

LEMMA FreshIsRow ==
  ASSUME Keys!KeyScreenAssumption, NEW d \in Dirs
  PROVE  /\ Keys!FreshRow(d) \in Keys!Rows /\ Keys!FreshRow(d) # None /\ Keys!FreshRow(d).dir = d
         /\ Keys!FreshRow(d).icon = "copy" /\ ~Keys!FreshRow(d).busy /\ ~Keys!FreshRow(d).saving
<1>1. Keys!FreshRow(d) \in Keys!Rows BY DEF Keys!FreshRow, Keys!Rows
<1>2. Keys!FreshRow(d) # None BY <1>1 DEF Keys!KeyScreenAssumption
<1> QED BY <1>1, <1>2 DEF Keys!FreshRow

(* What Rendered makes of the signals: a row that stays is as it was.      *)
LEMMA TableRows ==
  ASSUME Keys!KeyScreenAssumption, NEW u \in Keys!Screens, NEW i \in Ids
  PROVE  /\ Keys!Hidden(u, i) => Keys!Table(u)[i] = None
         /\ ~Keys!Hidden(u, i) /\ u.row[i] # None => Keys!Table(u)[i] = u.row[i]
         /\ ~Keys!Hidden(u, i) /\ u.row[i] = None =>
              \E k \in u.keys : k.id = i /\ Keys!Table(u)[i] = Keys!FreshRow(k.dir)
         /\ Keys!Table(u)[i] \in Keys!Rows \cup {None}
         /\ (~Keys!Hidden(u, i) => Keys!Table(u)[i] # None)
<1>1. u.row[i] \in Keys!Rows \cup {None} /\ u.keys \subseteq Keys!Entries BY DEF Keys!Screens
<1>2. CASE Keys!Hidden(u, i) BY <1>2 DEF Keys!Hidden, Keys!Table
<1>3. CASE ~Keys!Hidden(u, i) /\ u.row[i] # None BY <1>1, <1>3 DEF Keys!Hidden, Keys!Table
<1>4. CASE ~Keys!Hidden(u, i) /\ u.row[i] = None
  <2>1. \E k \in u.keys : k.id = i BY <1>4 DEF Keys!Hidden
  <2>2. PICK k : k = CHOOSE l \in u.keys : l.id = i OBVIOUS
  <2>3. k \in u.keys /\ k.id = i BY <2>1, <2>2
  <2>4. Keys!Table(u)[i] = Keys!FreshRow(k.dir) BY <1>4, <2>2 DEF Keys!Hidden, Keys!Table
  <2>5. k.dir \in Dirs BY <1>1, <2>3 DEF Keys!Entries
  <2>6. Keys!FreshRow(k.dir) \in Keys!Rows /\ Keys!FreshRow(k.dir) # None BY <2>5, FreshIsRow
  <2> QED BY <1>4, <2>3, <2>4, <2>6
<1> QED BY <1>2, <1>3, <1>4

LEMMA TableDrawn ==
  ASSUME Keys!KeyScreenAssumption, NEW u \in Keys!Screens
  PROVE  /\ Keys!Rendered(u) \in Keys!Screens /\ Keys!Rendered(u).row = Keys!Table(u)
         /\ Keys!Rendered(u).mounted = u.mounted /\ Keys!Rendered(u).connected = u.connected
         /\ Keys!Rendered(u).keys = u.keys /\ Keys!Rendered(u).loading = u.loading
         /\ Keys!Rendered(u).createOpen = u.createOpen /\ Keys!Rendered(u).creating = u.creating
         /\ Keys!Rendered(u).missing = u.missing
<1>1. \A i \in Ids : Keys!Table(u)[i] \in Keys!Rows \cup {None} BY TableRows
<1>2. Keys!Table(u) = [i \in Ids |-> Keys!Table(u)[i]] BY DEF Keys!Table
<1>3. Keys!Table(u) \in [Ids -> Keys!Rows \cup {None}] BY <1>1, <1>2
<1> HIDE DEF Keys!Table
<1> QED BY <1>3 DEF Keys!Rendered, Keys!Screens

(* What Tied leaves of a call.                                             *)
LEMMA TiedCall ==
  ASSUME NEW j, Keys!Reaches(j), NEW u \in Keys!Screens
  PROVE  /\ Keys!Reaches(Keys!Tied(j, u)) /\ Keys!Tied(j, u).op = j.op /\ Keys!Tied(j, u).id = j.id
         /\ Keys!Tied(j, u).pc = j.pc /\ Keys!Tied(j, u).answer = j.answer
         /\ Keys!Tied(j, u).here <=> j.here /\ u.mounted
         /\ Keys!Tied(j, u).live <=>
              (j.live /\ u.mounted /\ (j.op \in {"edit", "copy"} => u.row[j.id] # None))
<1>1. PICK t : t = Keys!Tied(j, u) OBVIOUS
<1>2. u.mounted \in BOOLEAN BY DEF Keys!Screens
<1>3. j = [op |-> j.op, id |-> j.id, dir |-> j.dir, pc |-> j.pc, answer |-> j.answer,
           live |-> j.live, here |-> j.here] /\ j.live \in BOOLEAN /\ j.here \in BOOLEAN
  BY DEF Keys!Reaches
<1>4. PICK live \in BOOLEAN :
        live = (j.live /\ u.mounted /\ (j.op \in {"edit", "copy"} => u.row[j.id] # None))
  BY <1>2, <1>3
<1>5. t = [j EXCEPT !.here = j.here /\ u.mounted, !.live = live] BY <1>1, <1>4 DEF Keys!Tied
<1>6. t = [op |-> j.op, id |-> j.id, dir |-> j.dir, pc |-> j.pc, answer |-> j.answer,
           live |-> live, here |-> j.here /\ u.mounted]
  BY <1>3, <1>5
<1>7. /\ t.op = j.op /\ t.id = j.id /\ t.dir = j.dir /\ t.pc = j.pc /\ t.answer = j.answer
      /\ t.live = live /\ t.here = (j.here /\ u.mounted)
  BY <1>6
<1>8. Keys!Reaches(t) BY <1>2, <1>3, <1>4, <1>6, <1>7 DEF Keys!Reaches
<1> QED BY <1>1, <1>2, <1>3, <1>4, <1>7, <1>8

(* The screen is drawn anew: u is what the handler makes of its signals,   *)
(* and J of the calls.                                                     *)
LEMMA RestingDraws ==
  ASSUME Keys!KeyScreenAssumption, NEW u \in Keys!Screens, NEW J,
         \A v \in Workers : Keys!Reaches(J[v]),
         ui' = Keys!Rendered(u), job' = [v \in Workers |-> Keys!Tied(J[v], ui')],
         u.loading \/ u.creating \/ u.createOpen => u.mounted,
         u.loading => \E v \in Workers : Keys!Running(J[v], "load"),
         u.creating => \E v \in Workers : Keys!Running(J[v], "create"),
         \A i \in Ids : u.row[i] # None /\ ~Keys!Hidden(u, i) =>
           /\ u.row[i].icon = "copied" => u.row[i].timers > 0
           /\ u.row[i].busy => \E v \in Workers : Keys!OnRowOf(J[v], "copy", i)
           /\ u.row[i].saving => \E v \in Workers : Keys!OnRowOf(J[v], "edit", i)
  PROVE  /\ Keys!Drawn' /\ Keys!Reached' /\ Keys!Waiting'
         /\ ui'.mounted = u.mounted /\ ui'.connected = u.connected /\ ui'.keys = u.keys
         /\ ui'.loading = u.loading
         /\ \A v \in Workers : Keys!Running(job[v], "load")'
            <=> Keys!Running(J[v], "load") /\ u.mounted
         /\ \A v \in Workers : job'[v].pc = J[v].pc /\ job'[v].answer = J[v].answer
         /\ \A v \in Workers : Keys!Pending(J[v]) /\ u.mounted
              /\ (J[v].op = "edit" => ui'.row[J[v].id] # None) => Keys!Pending(job[v])'
         /\ \A i \in Ids : ui'.row[i] # None =>
              IF u.row[i] # None THEN ui'.row[i] = u.row[i]
              ELSE [id |-> i, dir |-> ui'.row[i].dir] \in u.keys
<1>1. /\ ui' \in Keys!Screens /\ ui'.row = Keys!Table(u) /\ ui'.mounted = u.mounted
      /\ ui'.connected = u.connected /\ ui'.keys = u.keys /\ ui'.loading = u.loading
      /\ ui'.creating = u.creating /\ ui'.createOpen = u.createOpen
  BY TableDrawn
<1>2. \A i \in Ids : Keys!Hidden(ui, i)' <=> Keys!Hidden(u, i) BY <1>1 DEF Keys!Hidden
<1>3. ASSUME NEW i \in Ids
      PROVE  /\ Keys!Hidden(u, i) => ui'.row[i] = None
             /\ ~Keys!Hidden(u, i) /\ u.row[i] # None => ui'.row[i] = u.row[i]
             /\ ~Keys!Hidden(u, i) /\ u.row[i] = None =>
                  ui'.row[i].icon = "copy" /\ ~ui'.row[i].busy /\ ~ui'.row[i].saving
             /\ ~Keys!Hidden(u, i) => ui'.row[i] # None /\ u.mounted
  <2>1. \A k \in u.keys : k.dir \in Dirs BY DEF Keys!Screens, Keys!Entries
  <2>2. \A k \in u.keys : Keys!FreshRow(k.dir).icon = "copy" /\ ~Keys!FreshRow(k.dir).busy
                          /\ ~Keys!FreshRow(k.dir).saving
    BY <2>1, FreshIsRow
  <2>3. ~Keys!Hidden(u, i) => u.mounted BY DEF Keys!Hidden
  <2> QED BY <1>1, <2>2, <2>3, TableRows
<1>4. Keys!Drawn' BY <1>1, <1>2, <1>3 DEF Keys!Drawn
<1>5. ASSUME NEW v \in Workers
      PROVE  /\ Keys!Reaches(job'[v]) /\ job'[v].op = J[v].op /\ job'[v].id = J[v].id
             /\ job'[v].pc = J[v].pc /\ job'[v].answer = J[v].answer
             /\ job'[v].here <=> J[v].here /\ u.mounted
             /\ job'[v].live <=>
                  (/\ J[v].live /\ u.mounted
                   /\ J[v].op \in {"edit", "copy"} => ui'.row[J[v].id] # None)
  <2>1. job'[v] = Keys!Tied(J[v], ui') OBVIOUS
  <2>2. PICK s \in Keys!Screens : s = ui' BY <1>1
  <2>3. PICK j : j = J[v] OBVIOUS
  <2>4. Keys!Reaches(j) BY <2>3
  <2>5. job'[v] = Keys!Tied(j, s) BY <2>1, <2>2, <2>3
  <2> QED BY <1>1, <2>2, <2>3, <2>4, <2>5, TiedCall
<1>6. Keys!Reached'
  <2>1. job' = [v \in Workers |-> job'[v]] OBVIOUS
  <2> QED BY <1>1, <1>5, <2>1 DEF Keys!Reached
<1>7. \A v \in Workers : /\ Keys!Running(job[v], "load")'
                            <=> Keys!Running(J[v], "load") /\ u.mounted
                         /\ Keys!Running(job[v], "create")'
                            <=> Keys!Running(J[v], "create") /\ u.mounted
  BY <1>5 DEF Keys!Running
<1>8. ASSUME NEW i \in Ids, ui'.row[i] # None
      PROVE  /\ ui'.row[i].busy => \E v \in Workers : Keys!OnRowOf(job[v], "copy", i)'
             /\ ui'.row[i].saving => \E v \in Workers : Keys!OnRowOf(job[v], "edit", i)'
  <2>1. ~Keys!Hidden(u, i) /\ u.mounted BY <1>3, <1>8
  <2>2. \A v \in Workers, op \in {"copy", "edit"} :
          Keys!OnRowOf(J[v], op, i) => Keys!OnRowOf(job[v], op, i)'
    BY <1>5, <1>8, <2>1 DEF Keys!OnRowOf
  <2> QED BY <1>3, <2>1, <2>2
<1>9. Keys!Waiting' BY <1>1, <1>7, <1>8 DEF Keys!Waiting
<1>10. \A v \in Workers : Keys!Pending(J[v]) /\ u.mounted
         /\ (J[v].op = "edit" => ui'.row[J[v].id] # None) => Keys!Pending(job[v])'
  BY <1>5 DEF Keys!Pending
<1>11. ASSUME NEW i \in Ids, ui'.row[i] # None, u.row[i] = None
       PROVE  [id |-> i, dir |-> ui'.row[i].dir] \in u.keys
  <2>1. PICK k \in u.keys : k.id = i /\ ui'.row[i] = Keys!FreshRow(k.dir)
    BY <1>1, <1>3, <1>11, TableRows
  <2>2. k = [id |-> i, dir |-> k.dir] BY <2>1 DEF Keys!Screens, Keys!Entries
  <2>3. ui'.row[i].dir = k.dir BY <2>1 DEF Keys!FreshRow
  <2> QED BY <2>2, <2>3
<1>12. \A i \in Ids : ui'.row[i] # None /\ u.row[i] # None => ui'.row[i] = u.row[i] BY <1>3
<1> QED BY <1>1, <1>4, <1>5, <1>6, <1>7, <1>9, <1>10, <1>11, <1>12

LEMMA StoredStays ==
  ASSUME Keys!Stored, UNCHANGED <<v1, v2, v3, v4>>, v5' \in BOOLEAN,
         ui'.connected = ui.connected
  PROVE  Keys!Stored'
BY DEF Keys!Stored

(* A click, an answer that changes no key, a timer: the list is as it was. *)
LEMMA RestingAside ==
  ASSUME Keys!KeyScreenAssumption, Keys!Resting, NEW u \in Keys!Screens, NEW J,
         \A v \in Workers : Keys!Reaches(J[v]),
         ui' = Keys!Rendered(u), job' = [v \in Workers |-> Keys!Tied(J[v], ui')],
         UNCHANGED <<v1, v2, v3, v4, v5>>,
         u.mounted = ui.mounted, u.connected = ui.connected, u.keys = ui.keys,
         u.loading = ui.loading, u.createOpen => u.mounted,
         u.creating => u.mounted /\ \E v \in Workers : Keys!Running(J[v], "create"),
         \A i \in Ids :
           IF ui.row[i] = None THEN u.row[i] = None
           ELSE /\ u.row[i] # None /\ u.row[i].dir = ui.row[i].dir
                /\ u.row[i].icon = "copied" => u.row[i].timers > 0
                /\ u.row[i].busy => \E v \in Workers : Keys!OnRowOf(J[v], "copy", i)
                /\ u.row[i].saving => \E v \in Workers : Keys!OnRowOf(J[v], "edit", i),
         \A v \in Workers :
           Keys!Running(J[v], "load") \/ Keys!Running(job[v], "load") \/ Keys!Pending(job[v])
             => J[v] = job[v]
  PROVE  Keys!Resting'
<1>1. ui.loading => u.mounted /\ \E v \in Workers : Keys!Running(J[v], "load")
  <2>1. ui.loading => \E v \in Workers : Keys!Running(job[v], "load")
    BY DEF Keys!Resting, Keys!Waiting
  <2>2. \A v \in Workers : Keys!Running(job[v], "load") => ui.mounted
    BY DEF Keys!Resting, Keys!Reached, Keys!Running
  <2> QED BY <2>1, <2>2
<1>2. \A i \in Ids : u.row[i] # None =>
        /\ u.row[i].icon = "copied" => u.row[i].timers > 0
        /\ u.row[i].busy => \E v \in Workers : Keys!OnRowOf(J[v], "copy", i)
        /\ u.row[i].saving => \E v \in Workers : Keys!OnRowOf(J[v], "edit", i)
  OBVIOUS
<1>3. /\ Keys!Drawn' /\ Keys!Reached' /\ Keys!Waiting'
      /\ ui'.mounted = u.mounted /\ ui'.connected = u.connected /\ ui'.keys = u.keys
      /\ ui'.loading = u.loading
      /\ \A v \in Workers : Keys!Running(job[v], "load")'
         <=> Keys!Running(J[v], "load") /\ u.mounted
      /\ \A v \in Workers : job'[v].pc = J[v].pc /\ job'[v].answer = J[v].answer
      /\ \A v \in Workers : Keys!Pending(J[v]) /\ u.mounted
           /\ (J[v].op = "edit" => ui'.row[J[v].id] # None) => Keys!Pending(job[v])'
      /\ \A i \in Ids : ui'.row[i] # None =>
           IF u.row[i] # None THEN ui'.row[i] = u.row[i]
           ELSE [id |-> i, dir |-> ui'.row[i].dir] \in u.keys
  <2> HIDE DEF Keys!Running, Keys!OnRowOf, Keys!Reaches
  <2> QED BY <1>1, <1>2, RestingDraws
<1>4. Keys!Stored' BY <1>3, StoredStays DEF Keys!Resting, Keys!Stored
<1>5. ASSUME NEW i \in Ids
      PROVE  /\ ui'.row[i] = None <=> ui.row[i] = None
             /\ ui'.row[i] # None => ui'.row[i].dir = ui.row[i].dir
  <2>1. Keys!Hidden(ui, i)' <=> Keys!Hidden(ui, i) BY <1>3 DEF Keys!Hidden
  <2>2. ui'.row[i] = None <=> ui.row[i] = None BY <1>3, <2>1 DEF Keys!Drawn, Keys!Resting
  <2> QED BY <1>3, <2>2
<1>6. \A v \in Workers : Keys!Running(job[v], "load")' <=> Keys!Running(job[v], "load")
  <2>1. \A v \in Workers : Keys!Running(job[v], "load") => ui.mounted
    BY DEF Keys!Resting, Keys!Reached, Keys!Running
  <2> QED BY <1>3, <2>1
<1>7. \A v \in Workers : Keys!Running(job[v], "load") =>
        job'[v].pc = job[v].pc /\ job'[v].answer = job[v].answer
  BY <1>3
<1>8. \A v \in Workers : Keys!Pending(job[v]) => Keys!Pending(job[v])'
  <2>1. \A v \in Workers : Keys!Pending(job[v]) =>
          ui.mounted /\ (job[v].op = "edit" => job[v].id \in Ids /\ ui.row[job[v].id] # None)
    BY DEF Keys!Resting, Keys!Reached, Keys!Reaches, Keys!Pending
  <2> QED BY <1>3, <1>5, <2>1
<1>9. Keys!Settled'
  <2> SUFFICES ASSUME ~v5' PROVE Keys!Settled' BY DEF Keys!Settled
  <2>1. Keys!OneLoad' BY <1>6 DEF Keys!Resting, Keys!Settled, Keys!OneLoad
  <2>2. (\E v \in Workers : Keys!Running(job[v], "load")') /\ ui'.mounted /\ ui'.connected # None
          => ui'.loading
    BY <1>3, <1>6 DEF Keys!Resting, Keys!Settled
  <2>3. ASSUME ui'.mounted, ui'.connected # None, v4' = Keys!NoRead PROVE Keys!UpToDate'
    <3>1. Keys!UpToDate BY <1>3, <2>3 DEF Keys!Resting, Keys!Settled, Keys!NoRead
    <3>2. Keys!KeysOf(v1)' = Keys!KeysOf(v1) BY DEF Keys!KeysOf
    <3>3. CASE \E v \in Workers : Keys!Pending(job[v]) BY <1>8, <3>3 DEF Keys!UpToDate
    <3>4. CASE \E v \in Workers : Keys!Running(job[v], "load")
                 /\ (job[v].pc = "sent" \/ job[v].answer \in {Keys!KeysOf(v1), {None}})
      BY <1>6, <1>7, <3>2, <3>4 DEF Keys!UpToDate
    <3>5. CASE /\ \A v \in Workers : ~Keys!Running(job[v], "load")
               /\ ui.keys = Keys!KeysOf(v1)
               /\ \A i \in Ids : ui.row[i] # None =>
                    [id |-> i, dir |-> ui.row[i].dir] \in ui.keys
      BY <1>3, <1>5, <1>6, <3>2, <3>5 DEF Keys!UpToDate
    <3> QED BY <3>1, <3>3, <3>4, <3>5 DEF Keys!UpToDate
  <2> QED BY <2>1, <2>2, <2>3 DEF Keys!Settled
<1> QED BY <1>3, <1>4, <1>9 DEF Keys!Resting

LEMMA NewCall ==
  /\ Keys!Idle = [op |-> "idle", id |-> 0, dir |-> None, pc |-> "sent", answer |-> {},
             live |-> FALSE, here |-> FALSE]
  /\ \A op \in {"load", "create", "delete", "copy", "edit"} :
       Keys!Call(op) = [op |-> op, id |-> 0, dir |-> None, pc |-> "sent", answer |-> {},
                   live |-> TRUE, here |-> TRUE]
  /\ Keys!Reaches(Keys!Idle) /\ Keys!Reaches(Keys!Call("load")) /\ Keys!Reaches(Keys!Call("delete"))
<1>1. Keys!Idle = [op |-> "idle", id |-> 0, dir |-> None, pc |-> "sent", answer |-> {},
              live |-> FALSE, here |-> FALSE]
  BY DEF Keys!Idle
<1>2. ASSUME NEW op \in {"load", "create", "delete", "copy", "edit"}
      PROVE  Keys!Call(op) = [op |-> op, id |-> 0, dir |-> None, pc |-> "sent", answer |-> {},
                         live |-> TRUE, here |-> TRUE]
  <2>1. PICK i : i = Keys!Idle OBVIOUS
  <2>2. Keys!Call(op) = [i EXCEPT !.op = op, !.live = TRUE, !.here = TRUE] BY <2>1 DEF Keys!Call
  <2> QED BY <1>1, <2>1, <2>2
<1>3. Keys!Reaches(Keys!Idle)
  <2>1. PICK j : j = Keys!Idle OBVIOUS
  <2> QED BY <1>1, <2>1 DEF Keys!Reaches
<1>4. Keys!Reaches(Keys!Call("load"))
  <2>1. PICK j : j = Keys!Call("load") OBVIOUS
  <2>2. j = [op |-> "load", id |-> 0, dir |-> None, pc |-> "sent", answer |-> {},
             live |-> TRUE, here |-> TRUE]
    BY <1>2, <2>1
  <2>3. Keys!Reaches(j) BY <2>2 DEF Keys!Reaches
  <2> QED BY <2>1, <2>3
<1>5. Keys!Reaches(Keys!Call("delete"))
  <2>1. PICK j : j = Keys!Call("delete") OBVIOUS
  <2>2. j = [op |-> "delete", id |-> 0, dir |-> None, pc |-> "sent", answer |-> {},
             live |-> TRUE, here |-> TRUE]
    BY <1>2, <2>1
  <2>3. Keys!Reaches(j) BY <2>2 DEF Keys!Reaches
  <2> QED BY <2>1, <2>3
<1> QED BY <1>1, <1>2, <1>3, <1>4, <1>5

(* A load begins: its answer will find no other one, or the list is stale. *)
LEMMA RestingLoads ==
  ASSUME Keys!KeyScreenAssumption, Keys!Resting, NEW w \in Workers, NEW u \in Keys!Screens,
         Keys!Shows(w, Keys!Call("load"), [u EXCEPT !.loading = TRUE]), Keys!Starts(w), u.mounted,
         u.creating => \E v \in Workers \ {w} : Keys!Running(job[v], "create"),
         ui'.connected = u.connected => Keys!Stored'
  PROVE  Keys!Resting'
<1>1. PICK t : t = [u EXCEPT !.loading = TRUE] OBVIOUS
<1>2. t \in Keys!Screens /\ t.mounted /\ t.loading /\ t.creating = u.creating
      /\ t.connected = u.connected
  BY <1>1 DEF Keys!Screens
<1>3. PICK J : J = [v \in Workers |-> IF v = w THEN Keys!Call("load") ELSE job[v]] OBVIOUS
<1>4. /\ J[w] = Keys!Call("load") /\ Keys!Call("load").op = "load" /\ Keys!Call("load").here
      /\ Keys!Call("load").pc = "sent" /\ Keys!Call("load").answer = {}
      /\ \A v \in Workers \ {w} : J[v] = job[v]
  <2>1. J[w] = Keys!Call("load") /\ \A v \in Workers \ {w} : J[v] = job[v] BY <1>3
  <2> QED BY <2>1, NewCall
<1>5. /\ \A v \in Workers : Keys!Reaches(J[v])
      /\ ui' = Keys!Rendered(t) /\ job' = [v \in Workers |-> Keys!Tied(J[v], ui')]
  <2>1. \A v \in Workers : Keys!Reaches(job[v]) BY DEF Keys!Resting, Keys!Reached
  <2>2. \A v \in Workers : Keys!Reaches(J[v]) BY <1>4, <2>1, NewCall
  <2>3. \A v \in Workers : J[v] = IF v = w THEN Keys!Call("load") ELSE job[v] BY <1>3
  <2> QED BY <1>1, <2>2, <2>3 DEF Keys!Shows
<1>6. /\ \E v \in Workers : Keys!Running(J[v], "load")
      /\ t.creating => \E v \in Workers : Keys!Running(J[v], "create")
  BY <1>2, <1>4 DEF Keys!Running
<1>7. \A i \in Ids : Keys!Hidden(t, i) BY <1>2 DEF Keys!Hidden
<1>8. /\ Keys!Drawn' /\ Keys!Reached' /\ Keys!Waiting' /\ ui'.connected = u.connected /\ ui'.loading
      /\ \A v \in Workers : Keys!Running(job[v], "load")'
         <=> Keys!Running(J[v], "load") /\ t.mounted
      /\ \A v \in Workers : job'[v].pc = J[v].pc /\ job'[v].answer = J[v].answer
  <2> HIDE DEF Keys!Running, Keys!Reaches, Keys!Hidden
  <2> QED BY <1>2, <1>5, <1>6, <1>7, RestingDraws
<1>9. Keys!Settled'
  <2>1. Keys!Running(job[w], "load")' /\ job'[w].pc = "sent"
    BY <1>2, <1>4, <1>8 DEF Keys!Running
  <2>2. Keys!UpToDate' BY <2>1 DEF Keys!UpToDate
  <2>3. ~v5' => \A v \in Workers : Keys!Running(job[v], "load")' => v = w
    <3>1. v5' = Keys!OtherLoad(w) BY DEF Keys!Starts
    <3>2. \A v \in Workers \ {w} : Keys!Running(job[v], "load")' => Keys!Running(job[v], "load")
      BY <1>4, <1>8
    <3> QED BY <3>1, <3>2 DEF Keys!OtherLoad, Keys!Running
  <2>4. ~v5' => Keys!OneLoad' BY <2>3 DEF Keys!OneLoad
  <2> QED BY <1>8, <2>2, <2>4 DEF Keys!Settled
<1> QED BY <1>8, <1>9 DEF Keys!Resting

(* The screen is left, or shows no connection: there is nothing to list.   *)
LEMMA RestingClears ==
  ASSUME Keys!KeyScreenAssumption, Keys!Resting, NEW u \in Keys!Screens, Keys!Redraws(u),
         ~u.mounted \/ u.connected = None, ~u.loading, u.createOpen => u.mounted,
         u.creating => u.mounted /\ ui.creating,
         UNCHANGED v5, ui'.connected = u.connected => Keys!Stored'
  PROVE  Keys!Resting'
<1>1. PICK J : J = job OBVIOUS
<1>2. \A v \in Workers : Keys!Reaches(J[v]) BY <1>1 DEF Keys!Resting, Keys!Reached
<1>3. ui' = Keys!Rendered(u) /\ job' = [v \in Workers |-> Keys!Tied(J[v], ui')]
  BY <1>1 DEF Keys!Redraws
<1>4. u.creating => \E v \in Workers : Keys!Running(J[v], "create")
  BY <1>1 DEF Keys!Resting, Keys!Waiting
<1>5. \A i \in Ids : Keys!Hidden(u, i) BY DEF Keys!Hidden
<1>6. /\ Keys!Drawn' /\ Keys!Reached' /\ Keys!Waiting' /\ ui'.connected = u.connected
      /\ ui'.mounted = u.mounted
      /\ \A v \in Workers : Keys!Running(job[v], "load")'
         <=> Keys!Running(J[v], "load") /\ u.mounted
  <2> HIDE DEF Keys!Running, Keys!Reaches, Keys!Hidden
  <2> QED BY <1>2, <1>3, <1>4, <1>5, RestingDraws
<1>7. Keys!Settled' BY <1>1, <1>6 DEF Keys!Resting, Keys!Settled, Keys!OneLoad
<1> QED BY <1>6, <1>7 DEF Keys!Resting

LEMMA RestingRefresh ==
  ASSUME Keys!KeyScreenAssumption, Keys!Resting, NEW w \in Workers, NEW u \in Keys!Screens,
         Keys!Refresh(w, u),
         u.mounted, u.connected = ui.connected, u.loading = ui.loading,
         job[w].op # "load",
         u.creating => \E v \in Workers \ {w} : Keys!Running(job[v], "create"),
         UNCHANGED <<v1, v2, v3, v4>>
  PROVE  Keys!Resting'
<1>1. ui'.connected = u.connected /\ v5' \in BOOLEAN => Keys!Stored'
  BY StoredStays DEF Keys!Resting
<1>2. CASE ~u.loading
  <2>1. Keys!Shows(w, Keys!Call("load"), [u EXCEPT !.loading = TRUE]) /\ Keys!Starts(w)
    BY <1>2 DEF Keys!Refresh
  <2>2. v5' \in BOOLEAN BY <2>1 DEF Keys!Starts, Keys!OtherLoad
  <2> QED BY <1>1, <2>1, <2>2, RestingLoads
<1>3. CASE u.loading
  <2>1. Keys!Shows(w, Keys!Idle, u) /\ v5' = TRUE BY <1>3 DEF Keys!Refresh
  <2>2. PICK J : J = [v \in Workers |-> IF v = w THEN Keys!Idle ELSE job[v]] OBVIOUS
  <2>3. J[w] = Keys!Idle /\ \A v \in Workers \ {w} : J[v] = job[v] BY <2>2
  <2>4. \A v \in Workers : Keys!Reaches(J[v]) BY <2>3, NewCall DEF Keys!Resting, Keys!Reached
  <2>5. ui' = Keys!Rendered(u) /\ job' = [v \in Workers |-> Keys!Tied(J[v], ui')]
    BY <2>1, <2>2 DEF Keys!Shows
  <2>6. /\ \E v \in Workers : Keys!Running(J[v], "load")
        /\ u.creating => \E v \in Workers : Keys!Running(J[v], "create")
    <3>1. PICK v \in Workers : Keys!Running(job[v], "load")
      BY <1>3 DEF Keys!Resting, Keys!Waiting
    <3>2. v # w BY <3>1 DEF Keys!Running
    <3> QED BY <2>3, <3>1, <3>2
  <2>7. \A i \in Ids : Keys!Hidden(u, i) BY <1>3 DEF Keys!Hidden
  <2>8. Keys!Drawn' /\ Keys!Reached' /\ Keys!Waiting' /\ ui'.connected = u.connected
    <3> HIDE DEF Keys!Running, Keys!Reaches, Keys!Hidden
    <3> QED BY <2>4, <2>5, <2>6, <2>7, RestingDraws
  <2>9. Keys!Stored' BY <1>1, <2>1, <2>8
  <2> QED BY <2>1, <2>8, <2>9 DEF Keys!Resting, Keys!Settled
<1> QED BY <1>2, <1>3

(* The load that the screen waits for is answered.                         *)
LEMMA RestingLoaded ==
  ASSUME Keys!KeyScreenAssumption, Keys!Resting, NEW w \in Workers, Keys!LoadAnswered(w),
         job[w].here
  PROVE  Keys!Resting'
<1>1. /\ job[w].op = "load" /\ job[w].pc = "answered"
      /\ Keys!Shows(w, Keys!Idle, [ui EXCEPT !.loading = FALSE,
                                   !.keys = IF Keys!Failed(w) THEN @ ELSE job[w].answer])
      /\ v5' = (v5 \/ Keys!Failed(w) \/ Keys!OtherLoad(w))
      /\ UNCHANGED <<v1, v2, v3, v4>>
  BY DEF Keys!LoadAnswered, Keys!Answered, Keys!backend
<1>2. PICK u : u = [ui EXCEPT !.loading = FALSE,
                              !.keys = IF Keys!Failed(w) THEN @ ELSE job[w].answer]
  OBVIOUS
<1>3. ui \in Keys!Screens /\ ui.mounted BY DEF Keys!Resting, Keys!Drawn, Keys!Reached
<1>4. ~Keys!Failed(w) => job[w].answer \subseteq Keys!Entries
  BY <1>1 DEF Keys!Resting, Keys!Reached, Keys!Reaches, Keys!Failed
<1>5. /\ u \in Keys!Screens /\ u.mounted /\ u.connected = ui.connected /\ ~u.loading
      /\ u.creating = ui.creating /\ u.row = ui.row
      /\ ~Keys!Failed(w) => u.keys = job[w].answer
  BY <1>2, <1>3, <1>4 DEF Keys!Screens
<1>6. PICK J : J = [v \in Workers |-> IF v = w THEN Keys!Idle ELSE job[v]] OBVIOUS
<1>7. J[w] = Keys!Idle /\ \A v \in Workers \ {w} : J[v] = job[v] BY <1>6
<1>8. \A v \in Workers : Keys!Reaches(J[v]) BY <1>7, NewCall DEF Keys!Resting, Keys!Reached
<1>9. ui' = Keys!Rendered(u) /\ job' = [v \in Workers |-> Keys!Tied(J[v], ui')]
  BY <1>1, <1>2, <1>6 DEF Keys!Shows
<1>10. \A v \in Workers : Keys!Running(job[v], "create") \/ Keys!Pending(job[v]) => J[v] = job[v]
  BY <1>1, <1>7 DEF Keys!Running, Keys!Pending
<1>11. u.creating => \E v \in Workers : Keys!Running(J[v], "create")
  BY <1>5, <1>10 DEF Keys!Resting, Keys!Waiting
<1>12. \A i \in Ids : u.row[i] # None =>
         /\ u.row[i].icon = "copied" => u.row[i].timers > 0
         /\ u.row[i].busy => \E v \in Workers : Keys!OnRowOf(J[v], "copy", i)
         /\ u.row[i].saving => \E v \in Workers : Keys!OnRowOf(J[v], "edit", i)
  <2>1. \A v \in Workers, i \in Ids, op \in {"copy", "edit"} :
          Keys!OnRowOf(job[v], op, i) => Keys!OnRowOf(J[v], op, i)
    BY <1>1, <1>7 DEF Keys!OnRowOf
  <2> QED BY <1>5, <2>1 DEF Keys!Resting, Keys!Waiting, Keys!Drawn
<1>13. /\ Keys!Drawn' /\ Keys!Reached' /\ Keys!Waiting'
       /\ ui'.mounted = u.mounted /\ ui'.connected = u.connected /\ ui'.keys = u.keys
       /\ ui'.loading = u.loading
       /\ \A v \in Workers : Keys!Running(job[v], "load")'
          <=> Keys!Running(J[v], "load") /\ u.mounted
       /\ \A v \in Workers : Keys!Pending(J[v]) /\ u.mounted
            /\ (J[v].op = "edit" => ui'.row[J[v].id] # None) => Keys!Pending(job[v])'
       /\ \A i \in Ids : ui'.row[i] # None =>
            IF u.row[i] # None THEN ui'.row[i] = u.row[i]
            ELSE [id |-> i, dir |-> ui'.row[i].dir] \in u.keys
  <2> HIDE DEF Keys!Running, Keys!Reaches, Keys!Hidden, Keys!OnRowOf, Keys!Pending
  <2> QED BY <1>5, <1>8, <1>9, <1>11, <1>12, RestingDraws
<1>14. Keys!Stored'
  BY <1>1, <1>5, <1>13, StoredStays DEF Keys!Resting, Keys!Stored, Keys!Failed, Keys!OtherLoad
<1>15. Keys!Settled'
  <2> SUFFICES ASSUME ~v5' PROVE Keys!Settled' BY DEF Keys!Settled
  <2>1. ~v5 /\ ~Keys!Failed(w) /\ ~Keys!OtherLoad(w) BY <1>1
  <2>2. \A v \in Workers : ~Keys!Running(job[v], "load")'
    <3>1. \A v \in Workers \ {w} : ~Keys!Running(job[v], "load")
      BY <2>1 DEF Keys!OtherLoad, Keys!Running
    <3>2. ~Keys!Running(J[w], "load") BY <1>7, NewCall DEF Keys!Running
    <3> QED BY <1>7, <1>13, <3>1, <3>2
  <2>3. Keys!OneLoad' BY <2>2 DEF Keys!OneLoad
  <2>4. ASSUME ui'.connected # None, v4' = Keys!NoRead PROVE Keys!UpToDate'
    <3>1. Keys!UpToDate
      BY <1>1, <1>3, <1>5, <1>13, <2>1, <2>4 DEF Keys!Resting, Keys!Settled, Keys!NoRead
    <3>2. Keys!Running(job[w], "load") /\ ui.loading
      BY <1>1, <1>3, <1>5, <1>13, <2>1, <2>4 DEF Keys!Resting, Keys!Settled, Keys!Running
    <3>3. \A i \in Ids : u.row[i] = None BY <1>5, <3>2 DEF Keys!Resting, Keys!Drawn, Keys!Hidden
    <3>4. Keys!KeysOf(v1)' = Keys!KeysOf(v1) BY <1>1 DEF Keys!KeysOf
    <3>5. CASE \E v \in Workers : Keys!Pending(job[v])
      <4>1. PICK v \in Workers : Keys!Pending(job[v]) BY <3>5
      <4>2. job[v].op # "edit"
        <5>1. job[v].op = "edit" => job[v].id \in Ids /\ ui.row[job[v].id] # None
          BY <4>1 DEF Keys!Resting, Keys!Reached, Keys!Reaches, Keys!Pending
        <5> QED BY <1>5, <3>3, <5>1
      <4> QED BY <1>5, <1>10, <1>13, <4>1, <4>2 DEF Keys!UpToDate
    <3>6. CASE job[w].answer = Keys!KeysOf(v1)
      BY <1>5, <1>13, <2>1, <2>2, <3>3, <3>4, <3>6 DEF Keys!UpToDate
    <3>7. (\E v \in Workers : Keys!Pending(job[v])) \/ job[w].answer = Keys!KeysOf(v1)
      <4>1. \A v \in Workers : Keys!Running(job[v], "load") => v = w
        BY <2>1 DEF Keys!OtherLoad, Keys!Running
      <4> QED BY <1>1, <2>1, <3>1, <3>2, <4>1 DEF Keys!UpToDate, Keys!Failed
    <3> QED BY <3>5, <3>6, <3>7
  <2> QED BY <2>2, <2>3, <2>4 DEF Keys!Settled
<1> QED BY <1>13, <1>14, <1>15 DEF Keys!Resting

LEMMA KeysEntries ==
  ASSUME Keys!Stored, NEW c \in Conns \cup {None}
  PROVE  Keys!KeysOf(c) \subseteq Keys!Entries
<1>1. ASSUME NEW e \in Keys!KeysOf(c) PROVE e \in Keys!Entries
  <2>1. PICK k \in v2 : e = [id |-> k.id, dir |-> k.dir] BY <1>1 DEF Keys!KeysOf
  <2>2. k.id \in Ids /\ k.dir \in Dirs BY DEF Keys!Stored
  <2> QED BY <2>1, <2>2 DEF Keys!Entries
<1> QED BY <1>1

(* A command reads or writes the store and leaves its answer.              *)
LEMMA RestingAnswers ==
  ASSUME Keys!KeyScreenAssumption, Keys!Resting, NEW w \in Workers, NEW a, NEW s,
         Keys!Answers(w, a, s),
         job[w].pc \in {"sent", "update", "copy"},
         \/ s = v2
         \/ a # {None} /\ (job[w].op \in {"create", "delete"} \/ job[w].pc = "update"),
         job[w].op = "load" => s = v2 /\ a \in {Keys!KeysOf(v1), {None}},
         v5' \in BOOLEAN => Keys!Stored'
  PROVE  Keys!Resting'
<1>1. PICK j : j = job[w] OBVIOUS
<1>2. PICK pc : pc = IF j.pc = "sent" /\ j.op \in {"copy", "edit"} THEN "checked" ELSE "answered"
  OBVIOUS
<1>3. PICK k : k = [j EXCEPT !.answer = a, !.pc = pc] OBVIOUS
<1>4. Keys!Reaches(j) BY <1>1 DEF Keys!Resting, Keys!Reached
<1>5. /\ k = [op |-> j.op, id |-> j.id, dir |-> j.dir, pc |-> pc, answer |-> a,
             live |-> j.live, here |-> j.here]
      /\ k.op = j.op /\ k.id = j.id /\ k.dir = j.dir /\ k.pc = pc /\ k.answer = a
      /\ k.live = j.live /\ k.here = j.here
  BY <1>3, <1>4 DEF Keys!Reaches
<1>6. /\ job' = [v \in Workers |-> job'[v]] /\ job'[w] = k
      /\ \A v \in Workers \ {w} : job'[v] = job[v]
  <2>1. job = [v \in Workers |-> job[v]] BY DEF Keys!Resting, Keys!Reached
  <2>2. PICK f : f = job OBVIOUS
  <2>3. job' = [f EXCEPT ![w] = k] BY <1>1, <1>2, <1>3, <2>2 DEF Keys!Answers
  <2> QED BY <2>1, <2>2, <2>3
<1>7. /\ UNCHANGED <<v1, v4, ui>> /\ v2' = s
      /\ v5' = (v5 \/ (s # v2 /\ ~j.live))
  BY <1>1 DEF Keys!Answers
<1>8. Keys!Stored' BY <1>7
<1>9. Keys!Drawn' BY <1>7 DEF Keys!Resting, Keys!Drawn, Keys!Hidden
<1>10. Keys!Reached'
  <2>1. j.op = "load" /\ a # {None} => a \subseteq Keys!Entries
    BY <1>1, KeysEntries DEF Keys!Resting, Keys!Stored
  <2>2. Keys!Reaches(k) BY <1>2, <1>4, <1>5, <2>1 DEF Keys!Reaches
  <2>3. \A v \in Workers \ {w} : Keys!Reaches(job[v]) BY DEF Keys!Resting, Keys!Reached
  <2> QED BY <1>1, <1>5, <1>6, <1>7, <2>2, <2>3 DEF Keys!Resting, Keys!Reached
<1>11. Keys!Waiting'
  <2>1. \A v \in Workers, op \in {"load", "create"} : Keys!Running(job[v], op)'
        <=> Keys!Running(job[v], op)
    BY <1>1, <1>5, <1>6 DEF Keys!Running
  <2>2. \A v \in Workers, op \in {"copy", "edit"}, i \in Ids :
          Keys!OnRowOf(job[v], op, i)' <=> Keys!OnRowOf(job[v], op, i)
    BY <1>1, <1>5, <1>6 DEF Keys!OnRowOf
  <2> HIDE DEF Keys!Running, Keys!OnRowOf
  <2> QED BY <1>7, <2>1, <2>2 DEF Keys!Resting, Keys!Waiting
<1>12. \A v \in Workers : Keys!Running(job[v], "load")' <=> Keys!Running(job[v], "load")
  BY <1>1, <1>5, <1>6 DEF Keys!Running
<1>13. Keys!Settled'
  <2> SUFFICES ASSUME ~v5' PROVE Keys!Settled' BY DEF Keys!Settled
  <2>1. Keys!OneLoad' BY <1>7, <1>12 DEF Keys!Resting, Keys!Settled, Keys!OneLoad
  <2>2. (\E v \in Workers : Keys!Running(job[v], "load")') /\ ui'.mounted /\ ui'.connected # None
          => ui'.loading
    BY <1>7, <1>12 DEF Keys!Resting, Keys!Settled
  <2>3. ASSUME ui'.mounted, ui'.connected # None, v4' = Keys!NoRead, s # v2 PROVE Keys!UpToDate'
    <3>1. j.live /\ a # {None} BY <1>7, <2>3
    <3>2. k.op \in {"create", "delete", "edit"} /\ k.pc = "answered"
      BY <1>1, <1>2, <1>4, <1>5, <2>3 DEF Keys!Reaches
    <3>3. Keys!Pending(job'[w]) BY <1>5, <1>6, <3>1, <3>2 DEF Keys!Pending
    <3> QED BY <3>3 DEF Keys!UpToDate
  <2>4. ASSUME ui'.mounted, ui'.connected # None, v4' = Keys!NoRead, s = v2 PROVE Keys!UpToDate'
    <3>1. Keys!UpToDate BY <1>7, <2>4 DEF Keys!Resting, Keys!Settled, Keys!NoRead
    <3>2. Keys!KeysOf(v1)' = Keys!KeysOf(v1) BY <1>7, <2>4 DEF Keys!KeysOf
    <3>3. CASE \E v \in Workers : Keys!Pending(job[v])
      <4>1. PICK v \in Workers : Keys!Pending(job[v]) BY <3>3
      <4>2. v # w BY <4>1 DEF Keys!Pending
      <4> QED BY <1>6, <4>1, <4>2 DEF Keys!UpToDate
    <3>4. ASSUME NEW v \in Workers, Keys!Running(job[v], "load"),
                 job[v].pc = "sent" \/ job[v].answer \in {Keys!KeysOf(v1), {None}}
          PROVE  Keys!UpToDate'
      <4>1. CASE v # w BY <1>6, <1>12, <3>2, <3>4, <4>1 DEF Keys!UpToDate
      <4>2. CASE v = w
        <5>1. job'[w].answer \in {Keys!KeysOf(v1), {None}}
          BY <1>5, <1>6, <3>4, <4>2 DEF Keys!Running
        <5> QED BY <1>12, <3>2, <3>4, <4>2, <5>1 DEF Keys!UpToDate
      <4> QED BY <4>1, <4>2
    <3>5. CASE /\ \A v \in Workers : ~Keys!Running(job[v], "load")
               /\ ui.keys = Keys!KeysOf(v1)
               /\ \A i \in Ids : ui.row[i] # None =>
                    [id |-> i, dir |-> ui.row[i].dir] \in ui.keys
      BY <1>7, <1>12, <3>2, <3>5 DEF Keys!UpToDate
    <3> QED BY <3>1, <3>3, <3>4, <3>5 DEF Keys!UpToDate
  <2> QED BY <2>1, <2>2, <2>3, <2>4 DEF Keys!Settled
<1> QED BY <1>8, <1>9, <1>10, <1>11, <1>13 DEF Keys!Resting

LEMMA RestingCommands ==
  ASSUME Keys!KeyScreenAssumption, Keys!Resting, NEW w \in Workers,
         \/ Keys!Fails(w) \/ Keys!ListKeys(w) \/ Keys!DeleteKey(w) \/ Keys!FilesExist(w)
         \/ Keys!CopyKey(w)
         \/ Keys!UpdateKey(w) \/ \E i \in Ids : Keys!CreateKey(w, i)
  PROVE  Keys!Resting'
<1>1. Keys!Reaches(job[w]) BY DEF Keys!Resting, Keys!Reached
<1>2. ASSUME NEW a, Keys!Answers(w, a, v2), UNCHANGED v3, v5' \in BOOLEAN PROVE Keys!Stored'
  <2>1. UNCHANGED <<v1, v2, v4, ui>> BY <1>2 DEF Keys!Answers
  <2> QED BY <1>2, <2>1, StoredStays DEF Keys!Resting
<1>3. CASE Keys!Fails(w)
  <2>1. /\ Keys!Answers(w, {None}, v2) /\ UNCHANGED v3
        /\ job[w].pc \in {"sent", "update", "copy"}
    BY <1>3 DEF Keys!Fails
  <2> QED BY <1>2, <2>1, RestingAnswers
<1>4. CASE Keys!ListKeys(w)
  <2>1. /\ Keys!Answers(w, Keys!KeysOf(v1), v2) /\ UNCHANGED v3 /\ job[w].pc = "sent"
    BY <1>4 DEF Keys!ListKeys
  <2> QED BY <1>2, <2>1, RestingAnswers
<1>5. CASE Keys!FilesExist(w)
  <2>1. PICK a : Keys!Answers(w, a, v2) BY <1>5 DEF Keys!FilesExist
  <2>2. UNCHANGED v3 /\ job[w].pc = "sent" /\ job[w].op # "load" BY <1>5 DEF Keys!FilesExist
  <2> QED BY <1>2, <2>1, <2>2, RestingAnswers
<1>6. CASE Keys!CopyKey(w)
  <2>1. /\ Keys!Answers(w, {}, v2) /\ UNCHANGED v3 /\ job[w].pc = "copy"
    BY <1>6 DEF Keys!CopyKey
  <2>2. job[w].op # "load" BY <1>1, <2>1 DEF Keys!Reaches
  <2> QED BY <1>2, <2>1, <2>2, RestingAnswers
<1>7. CASE Keys!DeleteKey(w)
  <2>1. PICK s : s = v2 \ Keys!Mine(w) OBVIOUS
  <2>2. /\ Keys!Answers(w, {}, s) /\ v3' = v3 /\ job[w].pc = "sent" /\ job[w].op = "delete"
    BY <1>7, <2>1 DEF Keys!DeleteKey
  <2>3. v5' \in BOOLEAN => Keys!Stored'
    <3>1. UNCHANGED <<v1, v4, ui>> /\ v2' \subseteq v2
      BY <2>1, <2>2 DEF Keys!Answers
    <3> QED BY <2>2, <3>1 DEF Keys!Resting, Keys!Stored
  <2> QED BY <2>2, <2>3, RestingAnswers
<1>8. CASE Keys!UpdateKey(w)
  <2>1. PICK k \in Keys!Mine(w) :
          Keys!Answers(w, {}, (v2 \ {k}) \cup {[k EXCEPT !.dir = job[w].dir]})
    BY <1>8 DEF Keys!UpdateKey
  <2>2. job[w].pc = "update" /\ v3' = v3 BY <1>8 DEF Keys!UpdateKey
  <2>3. job[w].op = "edit" /\ job[w].dir \in Dirs BY <1>1, <2>2 DEF Keys!Reaches
  <2>4. PICK e : e = [k EXCEPT !.dir = job[w].dir] OBVIOUS
  <2>5. k \in v2 /\ k \in [id : Ids, conn : Conns, dir : Dirs]
    BY DEF Keys!Mine, Keys!Resting, Keys!Stored
  <2>6. e \in [id : Ids, conn : Conns, dir : Dirs] /\ e.id = k.id BY <2>3, <2>4, <2>5
  <2>7. PICK s : s = (v2 \ {k}) \cup {e} OBVIOUS
  <2>8. Keys!Answers(w, {}, s) BY <2>1, <2>4, <2>7
  <2>9. v5' \in BOOLEAN => Keys!Stored'
    <3>1. UNCHANGED <<v1, v4, ui>> /\ v2' = s BY <2>8 DEF Keys!Answers
    <3>2. s \subseteq [id : Ids, conn : Conns, dir : Dirs]
      BY <2>6, <2>7 DEF Keys!Resting, Keys!Stored
    <3>3. \A x \in s : x.id \in v3 /\ \A y \in s : y.id = x.id => y = x
      <4>1. \A x \in v2 \ {k} : x.id # k.id BY <2>5 DEF Keys!Resting, Keys!Stored
      <4> QED BY <2>5, <2>6, <2>7, <4>1 DEF Keys!Resting, Keys!Stored
    <3> QED BY <2>2, <3>1, <3>2, <3>3 DEF Keys!Resting, Keys!Stored
  <2> QED BY <2>2, <2>3, <2>8, <2>9, RestingAnswers
<1>9. ASSUME NEW i \in Ids, Keys!CreateKey(w, i) PROVE Keys!Resting'
  <2>1. PICK e : e = [id |-> i, conn |-> v1, dir |-> job[w].dir] OBVIOUS
  <2>2. PICK s : s = v2 \cup {e} OBVIOUS
  <2>3. /\ Keys!Answers(w, {}, s) /\ v3' = v3 \cup {i} /\ i \notin v3
        /\ job[w].pc = "sent" /\ job[w].op = "create" /\ v1 # None
    BY <1>9, <2>1, <2>2 DEF Keys!CreateKey
  <2>4. job[w].dir \in Dirs /\ v1 \in Conns
    BY <1>1, <2>3 DEF Keys!Reaches, Keys!Resting, Keys!Stored
  <2>5. e \in [id : Ids, conn : Conns, dir : Dirs] /\ e.id = i BY <2>1, <2>4
  <2>6. v5' \in BOOLEAN => Keys!Stored'
    <3>1. UNCHANGED <<v1, v4, ui>> /\ v2' = s BY <2>3 DEF Keys!Answers
    <3>2. s \subseteq [id : Ids, conn : Conns, dir : Dirs]
      BY <2>2, <2>5 DEF Keys!Resting, Keys!Stored
    <3>3. \A x \in s : x.id \in v3' /\ \A y \in s : y.id = x.id => y = x
      <4>1. \A x \in v2 : x.id \in v3 /\ x.id # i BY <2>3 DEF Keys!Resting, Keys!Stored
      <4> QED BY <2>2, <2>3, <2>5, <4>1 DEF Keys!Resting, Keys!Stored
    <3> QED BY <3>1, <3>2, <3>3 DEF Keys!Resting, Keys!Stored
  <2> QED BY <2>3, <2>6, RestingAnswers
<1> QED BY <1>3, <1>4, <1>5, <1>6, <1>7, <1>8, <1>9

(* A call goes on or ends, and what it held is given back.                 *)
LEMMA RestingSend ==
  ASSUME Keys!KeyScreenAssumption, Keys!Resting, NEW w \in Workers, NEW j, Keys!Reaches(j),
         NEW u \in Keys!Screens,
         Keys!Shows(w, j, u), UNCHANGED <<v1, v2, v3, v4, v5>>,
         ~Keys!Running(job[w], "load"), ~Keys!Pending(job[w]), ~Keys!Running(j, "load"),
         u.mounted = ui.mounted, u.connected = ui.connected, u.keys = ui.keys,
         u.loading = ui.loading, u.createOpen => u.mounted,
         u.creating => u.mounted
           /\ (Keys!Running(j, "create") \/ (ui.creating /\ ~Keys!Running(job[w], "create"))),
         \A i \in Ids :
           IF ui.row[i] = None THEN u.row[i] = None
           ELSE /\ u.row[i] # None /\ u.row[i].dir = ui.row[i].dir
                /\ u.row[i].icon = "copied" => u.row[i].timers > 0
                /\ u.row[i].busy =>
                     Keys!OnRowOf(j, "copy", i)
                       \/ (ui.row[i].busy /\ ~Keys!OnRowOf(job[w], "copy", i))
                /\ u.row[i].saving =>
                     Keys!OnRowOf(j, "edit", i)
                       \/ (ui.row[i].saving /\ ~Keys!OnRowOf(job[w], "edit", i))
  PROVE  Keys!Resting'
<1>1. PICK J : J = [v \in Workers |-> IF v = w THEN j ELSE job[v]] OBVIOUS
<1>2. J[w] = j /\ \A v \in Workers \ {w} : J[v] = job[v] BY <1>1
<1>3. /\ \A v \in Workers : Keys!Reaches(J[v])
      /\ ui' = Keys!Rendered(u) /\ job' = [v \in Workers |-> Keys!Tied(J[v], ui')]
  BY <1>1, <1>2 DEF Keys!Shows, Keys!Resting, Keys!Reached
<1>4. \A v \in Workers :
        Keys!Running(J[v], "load") \/ Keys!Running(job[v], "load") \/ Keys!Pending(job[v])
          => J[v] = job[v]
  BY <1>2
<1>5. u.creating => u.mounted /\ \E v \in Workers : Keys!Running(J[v], "create")
  BY <1>2 DEF Keys!Resting, Keys!Waiting
<1>6. ASSUME NEW i \in Ids, ui.row[i] # None
      PROVE  /\ u.row[i].busy => \E v \in Workers : Keys!OnRowOf(J[v], "copy", i)
             /\ u.row[i].saving => \E v \in Workers : Keys!OnRowOf(J[v], "edit", i)
  <2>1. /\ ui.row[i].busy => \E v \in Workers : Keys!OnRowOf(job[v], "copy", i)
        /\ ui.row[i].saving => \E v \in Workers : Keys!OnRowOf(job[v], "edit", i)
    BY <1>6 DEF Keys!Resting, Keys!Waiting
  <2> HIDE DEF Keys!OnRowOf
  <2> QED BY <1>2, <1>6, <2>1
<1> HIDE DEF Keys!OnRowOf, Keys!Running, Keys!Pending, Keys!Reaches
<1> QED BY <1>3, <1>4, <1>5, <1>6, RestingAside

(* A click.                                                                *)
LEMMA RestingClick ==
  ASSUME Keys!KeyScreenAssumption, Keys!Resting, NEW u \in Keys!Screens, Keys!Clicked(u),
         u.mounted = ui.mounted, u.connected = ui.connected, u.keys = ui.keys,
         u.loading = ui.loading, u.creating = ui.creating, u.createOpen => u.mounted,
         \A i \in Ids :
           IF ui.row[i] = None THEN u.row[i] = None
           ELSE /\ u.row[i] # None /\ u.row[i].dir = ui.row[i].dir
                /\ u.row[i].icon = "copied" => u.row[i].timers > 0
                /\ u.row[i].busy => ui.row[i].busy
                /\ u.row[i].saving => ui.row[i].saving
  PROVE  Keys!Resting'
<1>1. PICK J : J = job OBVIOUS
<1>2. /\ UNCHANGED <<v1, v2, v3, v4, v5>>
      /\ ui' = Keys!Rendered(u) /\ job' = [v \in Workers |-> Keys!Tied(J[v], ui')]
  BY <1>1 DEF Keys!Clicked, Keys!Redraws, Keys!backend
<1>3. \A v \in Workers : Keys!Reaches(J[v]) BY <1>1 DEF Keys!Resting, Keys!Reached
<1>4. u.creating => u.mounted /\ \E v \in Workers : Keys!Running(J[v], "create")
  BY <1>1 DEF Keys!Resting, Keys!Waiting, Keys!Reached, Keys!Running
<1>5. \A i \in Ids : ui.row[i] # None =>
        /\ u.row[i].busy => \E v \in Workers : Keys!OnRowOf(J[v], "copy", i)
        /\ u.row[i].saving => \E v \in Workers : Keys!OnRowOf(J[v], "edit", i)
  BY <1>1 DEF Keys!Resting, Keys!Waiting
<1> HIDE DEF Keys!OnRowOf, Keys!Running, Keys!Pending, Keys!Reaches
<1> QED BY <1>1, <1>2, <1>3, <1>4, <1>5, RestingAside

LEMMA RowsAre ==
  ASSUME Keys!KeyScreenAssumption, Keys!Resting
  PROVE  /\ ui \in Keys!Screens /\ (ui.createOpen => ui.mounted)
         /\ \A i \in Ids : ui.row[i] # None =>
              ui.row[i] \in Keys!Rows /\ (ui.row[i].icon = "copied" => ui.row[i].timers > 0)
         /\ \A r \in Keys!Rows : r # None
BY DEF Keys!Resting, Keys!Drawn, Keys!Screens, Keys!KeyScreenAssumption

LEMMA RestingClicks ==
  ASSUME Keys!KeyScreenAssumption, Keys!Resting,
         \/ Keys!ClickCreate \/ Keys!CancelCreate \/ Keys!CancelMissing
         \/ \E i \in Ids : Keys!ClickEdit(i) \/ Keys!ClickDelete(i) \/ Keys!CancelDialog(i)
            \/ Keys!TimerFires(i)
  PROVE  Keys!Resting'
<1>1. ASSUME NEW u, Keys!Clicked(u),
             \/ \E b \in BOOLEAN : u = [ui EXCEPT !.createOpen = b] /\ (b => ui.mounted)
             \/ u = [ui EXCEPT !.missing = 0]
      PROVE  Keys!Resting'
  <2>1. /\ u \in Keys!Screens /\ u.mounted = ui.mounted /\ u.connected = ui.connected
        /\ u.keys = ui.keys /\ u.loading = ui.loading /\ u.creating = ui.creating
        /\ u.row = ui.row /\ (u.createOpen => u.mounted)
    BY <1>1, RowsAre DEF Keys!Screens
  <2> QED BY <1>1, <2>1, RestingClick, RowsAre
<1>2. ASSUME NEW i \in Ids, NEW r \in Keys!Rows, ui.row[i] # None,
             Keys!Clicked([ui EXCEPT !.row[i] = r]),
             r.dir = ui.row[i].dir, r.busy = ui.row[i].busy, r.saving = ui.row[i].saving,
             r.icon = "copied" => r.timers > 0
      PROVE  Keys!Resting'
  <2>1. PICK u : u = [ui EXCEPT !.row[i] = r] OBVIOUS
  <2>2. /\ u \in Keys!Screens /\ u.mounted = ui.mounted /\ u.connected = ui.connected
        /\ u.keys = ui.keys /\ u.loading = ui.loading /\ u.creating = ui.creating
        /\ u.createOpen = ui.createOpen /\ u.row[i] = r /\ \A k \in Ids \ {i} : u.row[k] = ui.row[k]
    BY <2>1, RowsAre DEF Keys!Screens
  <2> QED BY <1>2, <2>1, <2>2, RestingClick, RowsAre
<1>3. CASE Keys!ClickCreate \/ Keys!CancelCreate \/ Keys!CancelMissing
  BY <1>1, <1>3 DEF Keys!ClickCreate, Keys!CancelCreate, Keys!CancelMissing, Keys!Uncovered
<1>4. ASSUME NEW i \in Ids,
             Keys!ClickEdit(i) \/ Keys!ClickDelete(i) \/ Keys!CancelDialog(i) PROVE Keys!Resting'
  <2>1. PICK d \in {"none", "edit", "delete"} :
          ui.row[i] # None /\ Keys!Clicked([ui EXCEPT !.row[i].dialog = d])
    BY <1>4 DEF Keys!ClickEdit, Keys!ClickDelete, Keys!CancelDialog, Keys!OnRow, Keys!InDialog
  <2>2. PICK q \in Keys!Rows : q = ui.row[i] BY <2>1, RowsAre
  <2>3. PICK r : r = [q EXCEPT !.dialog = d] OBVIOUS
  <2>4. /\ r \in Keys!Rows /\ r.dir = q.dir /\ r.busy = q.busy /\ r.saving = q.saving
        /\ r.icon = q.icon /\ r.timers = q.timers
    BY <2>2, <2>3 DEF Keys!Rows
  <2>5. Keys!Clicked([ui EXCEPT !.row[i] = r]) BY <2>1, <2>2, <2>3
  <2> QED BY <1>2, <2>1, <2>2, <2>4, <2>5, RowsAre
<1>5. ASSUME NEW i \in Ids, Keys!TimerFires(i) PROVE Keys!Resting'
  <2>1. /\ ui.row[i] # None /\ ui.row[i].timers > 0
        /\ Keys!Clicked([ui EXCEPT !.row[i].timers = @ - 1, !.row[i].icon = "copy"])
    BY <1>5 DEF Keys!TimerFires
  <2>2. PICK q \in Keys!Rows : q = ui.row[i] BY <2>1, RowsAre
  <2>3. PICK r : r = [q EXCEPT !.timers = @ - 1, !.icon = "copy"] OBVIOUS
  <2>4. r \in Keys!Rows /\ r.dir = q.dir /\ r.busy = q.busy /\ r.saving = q.saving
        /\ r.icon = "copy"
    <3>1. q.timers - 1 \in Nat BY <2>1, <2>2 DEF Keys!Rows
    <3>2. PICK n \in Nat : n = q.timers - 1 BY <3>1
    <3>3. r = [q EXCEPT !.timers = n, !.icon = "copy"] BY <2>3, <3>2
    <3> QED BY <3>3 DEF Keys!Rows
  <2>5. [ui EXCEPT !.row[i].timers = @ - 1, !.row[i].icon = "copy"] = [ui EXCEPT !.row[i] = r]
    BY <2>2, <2>3, RowsAre DEF Keys!Screens
  <2> QED BY <1>2, <2>1, <2>2, <2>4, <2>5
<1> QED BY <1>3, <1>4, <1>5

(* The row i becomes r, and nothing else of the screen changes.            *)
LEMMA RowChanged ==
  ASSUME Keys!KeyScreenAssumption, Keys!Resting, NEW i \in Ids, ui.row[i] # None,
         NEW r \in Keys!Rows
  PROVE  LET u == [ui EXCEPT !.row[i] = r] IN
         /\ u \in Keys!Screens /\ u.mounted = ui.mounted /\ u.connected = ui.connected
         /\ u.keys = ui.keys /\ u.loading = ui.loading /\ u.creating = ui.creating
         /\ u.createOpen = ui.createOpen /\ u.missing = ui.missing
         /\ u.row[i] = r /\ \A k \in Ids \ {i} : u.row[k] = ui.row[k]
BY RowsAre DEF Keys!Screens

(* A call of the user: j is on its way, and u waits for it.                *)
LEMMA RestingSends ==
  ASSUME Keys!KeyScreenAssumption, Keys!Resting, NEW w \in Workers,
         \/ \E d \in Dirs : Keys!SubmitCreate(w, d)
         \/ \E i \in Ids : \/ Keys!ClickCopy(w, i) \/ Keys!ConfirmDelete(w, i)
                           \/ \E d \in Dirs : Keys!SubmitEdit(w, i, d)
         \/ Keys!ConfirmMissing(w)
  PROVE  Keys!Resting'
<1>1. ASSUME NEW j, NEW u, Keys!Sends(w, j, u)
      PROVE  /\ Keys!Shows(w, j, u) /\ UNCHANGED <<v1, v2, v3, v4, v5>>
             /\ \A op \in {"load", "create"} : ~Keys!Running(job[w], op)
             /\ \A op \in {"copy", "edit"}, i \in Ids : ~Keys!OnRowOf(job[w], op, i)
             /\ ~Keys!Pending(job[w])
  BY <1>1 DEF Keys!Sends, Keys!Active, Keys!backend, Keys!Running, Keys!OnRowOf, Keys!Pending
<1>2. ASSUME NEW op \in {"create", "delete", "copy", "edit"}, NEW i, NEW d, NEW j,
             j = [op |-> op, id |-> i, dir |-> d, pc |-> "sent", answer |-> {},
                  live |-> TRUE, here |-> TRUE],
             op \in {"copy", "edit"} => i \in Ids, op \in {"create", "edit"} => d \in Dirs
      PROVE  /\ Keys!Reaches(j) /\ ~Keys!Running(j, "load")
             /\ (op = "create" => Keys!Running(j, "create"))
             /\ op \in {"copy", "edit"} => Keys!OnRowOf(j, op, i)
  BY <1>2 DEF Keys!Reaches, Keys!Running, Keys!OnRowOf
<1>3. ASSUME NEW d \in Dirs, Keys!SubmitCreate(w, d) PROVE Keys!Resting'
  <2>1. PICK c : c = [op |-> "create", id |-> 0, dir |-> None, pc |-> "sent",
                     answer |-> {}, live |-> TRUE, here |-> TRUE]
    OBVIOUS
  <2>0. c = Keys!Call("create") BY <2>1, NewCall
  <2>2. PICK j : j = [c EXCEPT !.dir = d] OBVIOUS
  <2>3. j = [op |-> "create", id |-> 0, dir |-> d, pc |-> "sent", answer |-> {},
             live |-> TRUE, here |-> TRUE]
    BY <2>1, <2>2
  <2>4. Keys!Reaches(j) /\ ~Keys!Running(j, "load") /\ Keys!Running(j, "create") BY <1>2, <2>3
  <2>5. PICK u : u = [ui EXCEPT !.creating = TRUE] OBVIOUS
  <2>6. Keys!Sends(w, j, u) /\ ui.createOpen
    BY <1>3, <2>0, <2>2, <2>5 DEF Keys!SubmitCreate, Keys!InCreate
  <2>7. /\ u \in Keys!Screens /\ u.mounted = ui.mounted /\ u.connected = ui.connected
        /\ u.keys = ui.keys /\ u.loading = ui.loading /\ u.createOpen = ui.createOpen
        /\ u.row = ui.row /\ ui.mounted
    BY <2>5, <2>6, RowsAre DEF Keys!Screens
  <2>8. \A i \in Ids : ~Keys!OnRowOf(job[w], "copy", i) /\ ~Keys!OnRowOf(job[w], "edit", i)
    BY <1>1, <2>6
  <2>9. \A i \in Ids : ui.row[i] # None => (ui.row[i].icon = "copied" => ui.row[i].timers > 0)
    BY RowsAre
  <2>10. /\ Keys!Shows(w, j, u) /\ UNCHANGED <<v1, v2, v3, v4, v5>>
         /\ ~Keys!Running(job[w], "load") /\ ~Keys!Pending(job[w])
    BY <1>1, <2>6
  <2> HIDE DEF Keys!Running, Keys!OnRowOf, Keys!Reaches, Keys!Pending
  <2>11. u.creating
         => /\ u.mounted
            /\ Keys!Running(j, "create") \/ (ui.creating /\ ~Keys!Running(job[w], "create"))
    BY <2>4, <2>7
  <2>12. \A i \in Ids :
           IF ui.row[i] = None THEN u.row[i] = None
           ELSE /\ u.row[i] # None /\ u.row[i].dir = ui.row[i].dir
                /\ u.row[i].icon = "copied" => u.row[i].timers > 0
                /\ u.row[i].busy =>
                     Keys!OnRowOf(j, "copy", i)
                       \/ (ui.row[i].busy /\ ~Keys!OnRowOf(job[w], "copy", i))
                /\ u.row[i].saving =>
                     Keys!OnRowOf(j, "edit", i)
                       \/ (ui.row[i].saving /\ ~Keys!OnRowOf(job[w], "edit", i))
    BY <2>7, <2>8, <2>9
  <2>13. /\ u \in Keys!Screens /\ u.mounted = ui.mounted /\ u.connected = ui.connected
         /\ u.keys = ui.keys /\ u.loading = ui.loading /\ (u.createOpen => u.mounted)
    BY <2>7
  <2>14. Keys!Reaches(j) /\ ~Keys!Running(j, "load") BY <2>4
  <2> QED BY <2>10, <2>11, <2>12, <2>13, <2>14, RestingSend
<1>4. ASSUME NEW i \in Ids, Keys!ClickCopy(w, i) PROVE Keys!Resting'
  <2>1. PICK c : c = [op |-> "copy", id |-> 0, dir |-> None, pc |-> "sent",
                     answer |-> {}, live |-> TRUE, here |-> TRUE]
    OBVIOUS
  <2>0. c = Keys!Call("copy") BY <2>1, NewCall
  <2>2. PICK j : j = [c EXCEPT !.id = i] OBVIOUS
  <2>3. j = [op |-> "copy", id |-> i, dir |-> None, pc |-> "sent", answer |-> {},
             live |-> TRUE, here |-> TRUE]
    BY <2>1, <2>2
  <2>4. Keys!Reaches(j) /\ ~Keys!Running(j, "load") /\ Keys!OnRowOf(j, "copy", i) BY <1>2, <2>3
  <2>5. ui.row[i] # None BY <1>4 DEF Keys!ClickCopy, Keys!OnRow
  <2>6. PICK q \in Keys!Rows : q = ui.row[i] BY <2>5, RowsAre
  <2>7. PICK r : r = [q EXCEPT !.busy = TRUE, !.icon = "copy"] OBVIOUS
  <2>8. r \in Keys!Rows /\ r.dir = q.dir /\ r.saving = q.saving /\ r.icon = "copy"
    BY <2>7 DEF Keys!Rows
  <2>9. PICK u : u = [ui EXCEPT !.row[i] = r] OBVIOUS
  <2>10. [ui EXCEPT !.row[i].busy = TRUE, !.row[i].icon = "copy"] = u
    BY <2>6, <2>7, <2>9, RowsAre DEF Keys!Screens
  <2>11. Keys!Sends(w, j, u) BY <1>4, <2>0, <2>2, <2>10 DEF Keys!ClickCopy
  <2>12. /\ u \in Keys!Screens /\ u.mounted = ui.mounted /\ u.connected = ui.connected
         /\ u.keys = ui.keys /\ u.loading = ui.loading /\ u.creating = ui.creating
         /\ u.createOpen = ui.createOpen
         /\ u.row[i] = r /\ \A k \in Ids \ {i} : u.row[k] = ui.row[k]
    BY <2>5, <2>8, <2>9, RowChanged
  <2>13. ui.creating => ui.mounted BY DEF Keys!Resting, Keys!Waiting, Keys!Reached, Keys!Running
  <2> HIDE DEF Keys!Running, Keys!OnRowOf, Keys!Reaches, Keys!Pending
  <2> QED BY <1>1, <2>4, <2>5, <2>6, <2>8, <2>11, <2>12, <2>13, RestingSend, RowsAre
<1>5. ASSUME NEW i \in Ids, NEW d \in Dirs, Keys!SubmitEdit(w, i, d) PROVE Keys!Resting'
  <2>1. PICK c : c = [op |-> "edit", id |-> 0, dir |-> None, pc |-> "sent",
                     answer |-> {}, live |-> TRUE, here |-> TRUE]
    OBVIOUS
  <2>0. c = Keys!Call("edit") BY <2>1, NewCall
  <2>2. PICK j : j = [c EXCEPT !.id = i, !.dir = d] OBVIOUS
  <2>3. j = [op |-> "edit", id |-> i, dir |-> d, pc |-> "sent", answer |-> {},
             live |-> TRUE, here |-> TRUE]
    BY <2>1, <2>2
  <2>4. Keys!Reaches(j) /\ ~Keys!Running(j, "load") /\ Keys!OnRowOf(j, "edit", i) BY <1>2, <2>3
  <2>5. ui.row[i] # None BY <1>5 DEF Keys!SubmitEdit, Keys!InDialog
  <2>6. PICK q \in Keys!Rows : q = ui.row[i] BY <2>5, RowsAre
  <2>7. PICK r : r = [q EXCEPT !.saving = TRUE] OBVIOUS
  <2>8. /\ r \in Keys!Rows /\ r.dir = q.dir /\ r.busy = q.busy /\ r.icon = q.icon
        /\ r.timers = q.timers
    BY <2>7 DEF Keys!Rows
  <2>9. PICK u : u = [ui EXCEPT !.row[i] = r] OBVIOUS
  <2>10. [ui EXCEPT !.row[i].saving = TRUE] = u BY <2>6, <2>7, <2>9
  <2>11. Keys!Sends(w, j, u) BY <1>5, <2>0, <2>2, <2>10 DEF Keys!SubmitEdit
  <2>12. /\ u \in Keys!Screens /\ u.mounted = ui.mounted /\ u.connected = ui.connected
         /\ u.keys = ui.keys /\ u.loading = ui.loading /\ u.creating = ui.creating
         /\ u.createOpen = ui.createOpen
         /\ u.row[i] = r /\ \A k \in Ids \ {i} : u.row[k] = ui.row[k]
    BY <2>5, <2>8, <2>9, RowChanged
  <2>13. ui.creating => ui.mounted BY DEF Keys!Resting, Keys!Waiting, Keys!Reached, Keys!Running
  <2> HIDE DEF Keys!Running, Keys!OnRowOf, Keys!Reaches, Keys!Pending
  <2> QED BY <1>1, <2>4, <2>5, <2>6, <2>8, <2>11, <2>12, <2>13, RestingSend, RowsAre
<1>6. ASSUME NEW i, NEW u,
             Keys!Sends(w, [Keys!Call("delete") EXCEPT !.id = i], u), u \in Keys!Screens,
             u.mounted = ui.mounted, u.connected = ui.connected, u.keys = ui.keys,
             u.loading = ui.loading, u.creating = ui.creating, u.createOpen = ui.createOpen,
             \A k \in Ids :
               IF ui.row[k] = None THEN u.row[k] = None
               ELSE /\ u.row[k] # None /\ u.row[k].dir = ui.row[k].dir
                    /\ u.row[k].busy = ui.row[k].busy /\ u.row[k].saving = ui.row[k].saving
                    /\ u.row[k].icon = ui.row[k].icon /\ u.row[k].timers = ui.row[k].timers
      PROVE  Keys!Resting'
  <2>1. PICK c : c = [op |-> "delete", id |-> 0, dir |-> None, pc |-> "sent",
                     answer |-> {}, live |-> TRUE, here |-> TRUE]
    OBVIOUS
  <2>0. c = Keys!Call("delete") BY <2>1, NewCall
  <2>2. PICK j : j = [c EXCEPT !.id = i] OBVIOUS
  <2>3. j = [op |-> "delete", id |-> i, dir |-> None, pc |-> "sent", answer |-> {},
             live |-> TRUE, here |-> TRUE]
    BY <2>1, <2>2
  <2>4. Keys!Reaches(j) /\ ~Keys!Running(j, "load") BY <1>2, <2>3
  <2>5. Keys!Sends(w, j, u) BY <1>6, <2>0, <2>2
  <2>6. ui.creating => ui.mounted BY DEF Keys!Resting, Keys!Waiting, Keys!Reached, Keys!Running
  <2> HIDE DEF Keys!Running, Keys!OnRowOf, Keys!Reaches, Keys!Pending
  <2> QED BY <1>1, <1>6, <2>4, <2>5, <2>6, RestingSend, RowsAre
<1>7. ASSUME NEW i \in Ids, Keys!ConfirmDelete(w, i) PROVE Keys!Resting'
  <2>1. ui.row[i] # None BY <1>7 DEF Keys!ConfirmDelete, Keys!InDialog
  <2>2. PICK q \in Keys!Rows : q = ui.row[i] BY <2>1, RowsAre
  <2>3. PICK r : r = [q EXCEPT !.dialog = "none"] OBVIOUS
  <2>4. /\ r \in Keys!Rows /\ r.dir = q.dir /\ r.busy = q.busy /\ r.saving = q.saving
        /\ r.icon = q.icon /\ r.timers = q.timers
    BY <2>3 DEF Keys!Rows
  <2>5. PICK u : u = [ui EXCEPT !.row[i] = r] OBVIOUS
  <2>6. [ui EXCEPT !.row[i].dialog = "none"] = u BY <2>2, <2>3, <2>5
  <2>7. Keys!Sends(w, [Keys!Call("delete") EXCEPT !.id = i], u)
    BY <1>7, <2>6 DEF Keys!ConfirmDelete
  <2>8. /\ u \in Keys!Screens /\ u.mounted = ui.mounted /\ u.connected = ui.connected
        /\ u.keys = ui.keys /\ u.loading = ui.loading /\ u.creating = ui.creating
        /\ u.createOpen = ui.createOpen
        /\ u.row[i] = r /\ \A k \in Ids \ {i} : u.row[k] = ui.row[k]
    BY <2>1, <2>4, <2>5, RowChanged
  <2> QED BY <1>6, <2>1, <2>2, <2>4, <2>7, <2>8, RowsAre
<1>8. CASE Keys!ConfirmMissing(w)
  <2>1. PICK u : u = [ui EXCEPT !.missing = 0] OBVIOUS
  <2>2. Keys!Sends(w, [Keys!Call("delete") EXCEPT !.id = ui.missing], u)
    BY <1>8, <2>1 DEF Keys!ConfirmMissing
  <2>3. /\ u \in Keys!Screens /\ u.mounted = ui.mounted /\ u.connected = ui.connected
        /\ u.keys = ui.keys /\ u.loading = ui.loading /\ u.creating = ui.creating
        /\ u.createOpen = ui.createOpen /\ u.row = ui.row
    BY <2>1, RowsAre DEF Keys!Screens
  <2> QED BY <1>6, <2>2, <2>3, RowsAre
<1> QED BY <1>3, <1>4, <1>5, <1>7, <1>8

(* What is known of a call that has an answer.                             *)
LEMMA CallOf ==
  ASSUME Keys!Resting, NEW w \in Workers
  PROVE  /\ Keys!Reaches(job[w]) /\ (job[w].here => ui.mounted) /\ (job[w].live => job[w].here)
         /\ job[w].live /\ job[w].op \in {"copy", "edit"} =>
              job[w].id \in Ids /\ ui.row[job[w].id] # None
         /\ job[w].op \notin {"copy", "edit"} => job[w].live = job[w].here
         /\ job[w].op # "create" /\ ui.creating
            => \E v \in Workers \ {w} : Keys!Running(job[v], "create")
         /\ ui.creating => ui.mounted
BY DEF Keys!Resting, Keys!Reached, Keys!Reaches, Keys!Waiting, Keys!Running

(* A call ends that held nothing, or its screen is gone.                   *)
LEMMA RestingEnds ==
  ASSUME Keys!KeyScreenAssumption, Keys!Resting, NEW w \in Workers, NEW m \in Ids \cup {0},
         Keys!Shows(w, Keys!Idle, ui) \/ Keys!Shows(w, Keys!Idle, [ui EXCEPT !.missing = m]),
         UNCHANGED <<v1, v2, v3, v4, v5>>,
         ~Keys!Running(job[w], "load"), ~Keys!Running(job[w], "create"), ~Keys!Pending(job[w]),
         ~(job[w].live /\ job[w].op \in {"copy", "edit"})
  PROVE  Keys!Resting'
<1>1. Keys!Reaches(Keys!Idle) /\ ~Keys!Running(Keys!Idle, "load") BY NewCall DEF Keys!Running
<1>2. ui.creating => ui.mounted BY CallOf
<1>3. \A i \in Ids : ~Keys!OnRowOf(job[w], "copy", i) /\ ~Keys!OnRowOf(job[w], "edit", i)
  BY DEF Keys!OnRowOf
<1>4. PICK u : Keys!Shows(w, Keys!Idle, u) /\ u \in {ui, [ui EXCEPT !.missing = m]} OBVIOUS
<1>5. /\ u \in Keys!Screens /\ (u.createOpen => u.mounted) /\ u.mounted = ui.mounted
      /\ u.connected = ui.connected /\ u.keys = ui.keys /\ u.loading = ui.loading
      /\ u.creating = ui.creating /\ u.row = ui.row
  BY <1>4, RowsAre DEF Keys!Screens
<1>6. \A i \in Ids : ui.row[i] # None =>
        (u.row[i].icon = "copied" => u.row[i].timers > 0)
  BY <1>5, RowsAre
<1>7. PICK j : j = Keys!Idle OBVIOUS
<1>8. Keys!Shows(w, j, u) /\ Keys!Reaches(j) /\ ~Keys!Running(j, "load") BY <1>1, <1>4, <1>7
<1> HIDE DEF Keys!Running, Keys!OnRowOf, Keys!Reaches, Keys!Pending
<1> QED BY <1>2, <1>3, <1>5, <1>6, <1>8, RestingSend

(* The call of a row goes on to its second command.                        *)
LEMMA RestingGoesOn ==
  ASSUME Keys!KeyScreenAssumption, Keys!Resting, NEW w \in Workers, NEW pc,
         Keys!Shows(w, [job[w] EXCEPT !.pc = pc], ui),
         UNCHANGED <<v1, v2, v3, v4, v5>>,
         job[w].op \in {"copy", "edit"}, job[w].pc = "checked",
         pc = "update" => job[w].op = "edit"
  PROVE  Keys!Resting'
<1>1. PICK k : k = job[w] OBVIOUS
<1>2. PICK j : j = [k EXCEPT !.pc = pc] OBVIOUS
<1>3. Keys!Reaches(k) BY <1>1, CallOf
<1>4. /\ j = [op |-> k.op, id |-> k.id, dir |-> k.dir, pc |-> pc, answer |-> k.answer,
             live |-> k.live, here |-> k.here]
      /\ j.op = k.op /\ j.id = k.id /\ j.dir = k.dir /\ j.pc = pc /\ j.answer = k.answer
      /\ j.live = k.live /\ j.here = k.here
  BY <1>2, <1>3 DEF Keys!Reaches
<1>5. Keys!Reaches(j) BY <1>1, <1>3, <1>4 DEF Keys!Reaches
<1>6. /\ ~Keys!Running(j, "load") /\ ~Keys!Running(job[w], "load")
      /\ ~Keys!Running(job[w], "create")
      /\ ~Keys!Pending(job[w])
  BY <1>1, <1>4 DEF Keys!Running, Keys!Pending
<1>7. \A i \in Ids, op \in {"copy", "edit"} : Keys!OnRowOf(job[w], op, i) => Keys!OnRowOf(j, op, i)
  BY <1>1, <1>4 DEF Keys!OnRowOf
<1>8. PICK u : u = ui OBVIOUS
<1>9. u \in Keys!Screens /\ (u.createOpen => u.mounted) /\ (ui.creating => ui.mounted)
  BY <1>8, RowsAre, CallOf
<1>10. \A i \in Ids : ui.row[i] # None =>
         (u.row[i].icon = "copied" => u.row[i].timers > 0)
  BY <1>8, RowsAre
<1>11. Keys!Shows(w, j, u) BY <1>1, <1>2, <1>8
<1> HIDE DEF Keys!Running, Keys!OnRowOf, Keys!Reaches, Keys!Pending
<1> QED BY <1>5, <1>6, <1>7, <1>8, <1>9, <1>10, <1>11, RestingSend

(* The call of a row ends, and the row is no longer disabled.              *)
LEMMA RestingReleases ==
  ASSUME Keys!KeyScreenAssumption, Keys!Resting, NEW w \in Workers, NEW u \in Keys!Screens,
         Keys!Shows(w, Keys!Idle, u),
         UNCHANGED <<v1, v2, v3, v4, v5>>,
         job[w].op \in {"copy", "edit"}, job[w].live, ~Keys!Pending(job[w]),
         u.mounted = ui.mounted, u.connected = ui.connected, u.keys = ui.keys,
         u.loading = ui.loading, u.createOpen = ui.createOpen, u.creating = ui.creating,
         NEW r \in Keys!Rows, u.row[job[w].id] = r, r.dir = ui.row[job[w].id].dir,
         r.icon = "copied" => r.timers > 0,
         IF job[w].op = "copy" THEN ~r.busy /\ r.saving = ui.row[job[w].id].saving
                               ELSE ~r.saving /\ r.busy = ui.row[job[w].id].busy,
         \A k \in Ids \ {job[w].id} : u.row[k] = ui.row[k]
  PROVE  Keys!Resting'
<1>1. PICK i \in Ids : i = job[w].id /\ ui.row[i] # None BY CallOf
<1>2. Keys!Reaches(Keys!Idle) /\ ~Keys!Running(Keys!Idle, "load") BY NewCall DEF Keys!Running
<1>3. ~Keys!Running(job[w], "load") /\ ~Keys!Running(job[w], "create") BY DEF Keys!Running
<1>4. \A k \in Ids \ {i} : ~Keys!OnRowOf(job[w], "copy", k) /\ ~Keys!OnRowOf(job[w], "edit", k)
  BY <1>1 DEF Keys!OnRowOf
<1>5. IF job[w].op = "copy" THEN ~Keys!OnRowOf(job[w], "edit", i)
      ELSE ~Keys!OnRowOf(job[w], "copy", i)
  BY DEF Keys!OnRowOf
<1>6. u.createOpen => u.mounted BY RowsAre
<1>7. u.creating => u.mounted /\ ui.creating BY CallOf
<1>8. PICK j : j = Keys!Idle OBVIOUS
<1>9. Keys!Shows(w, j, u) /\ Keys!Reaches(j) /\ ~Keys!Running(j, "load") BY <1>2, <1>8
<1> HIDE DEF Keys!Running, Keys!OnRowOf, Keys!Reaches, Keys!Pending
<1>10. ASSUME NEW k \in Ids
       PROVE  IF ui.row[k] = None THEN u.row[k] = None
              ELSE /\ u.row[k] # None /\ u.row[k].dir = ui.row[k].dir
                   /\ u.row[k].icon = "copied" => u.row[k].timers > 0
                   /\ u.row[k].busy =>
                        Keys!OnRowOf(j, "copy", k)
                          \/ (ui.row[k].busy /\ ~Keys!OnRowOf(job[w], "copy", k))
                   /\ u.row[k].saving =>
                        Keys!OnRowOf(j, "edit", k)
                          \/ (ui.row[k].saving /\ ~Keys!OnRowOf(job[w], "edit", k))
  <2>1. CASE k = i BY <1>1, <1>5, <2>1, RowsAre
  <2>2. CASE k # i BY <1>1, <1>4, <2>2, RowsAre
  <2> QED BY <2>1, <2>2
<1> QED BY <1>3, <1>6, <1>7, <1>9, <1>10, RestingSend

(* The row of a call that is released.                                     *)
LEMMA RowReleased ==
  ASSUME Keys!KeyScreenAssumption, Keys!Resting, NEW w \in Workers,
         job[w].op \in {"copy", "edit"}, job[w].live
  PROVE  /\ job[w].op = "copy" => \E r \in Keys!Rows :
              /\ Keys!Released(w, ui) = [ui EXCEPT !.row[job[w].id] = r]
              /\ ~r.busy /\ r.saving = ui.row[job[w].id].saving
              /\ r.dir = ui.row[job[w].id].dir /\ (r.icon = "copied" => r.timers > 0)
         /\ \A dialog \in {"none", "edit"} : \E r \in Keys!Rows :
              /\ Keys!Saved(w, ui, dialog) = [ui EXCEPT !.row[job[w].id] = r]
              /\ ~r.saving /\ r.busy = ui.row[job[w].id].busy
              /\ r.dir = ui.row[job[w].id].dir /\ (r.icon = "copied" => r.timers > 0)
<1>1. PICK i \in Ids : i = job[w].id /\ ui.row[i] # None BY CallOf
<1>2. PICK q \in Keys!Rows : q = ui.row[i] BY <1>1, RowsAre
<1>3. q.icon = "copied" => q.timers > 0 BY <1>1, <1>2, RowsAre
<1>4. PICK r : r = [q EXCEPT !.busy = FALSE] OBVIOUS
<1>5. /\ r \in Keys!Rows /\ ~r.busy /\ r.saving = q.saving /\ r.dir = q.dir
      /\ r.icon = "copied" => r.timers > 0
  BY <1>3, <1>4 DEF Keys!Rows
<1>6. Keys!Released(w, ui) = [ui EXCEPT !.row[i] = r] BY <1>1, <1>2, <1>4 DEF Keys!Released
<1>7. ASSUME NEW dialog \in {"none", "edit"}
      PROVE  \E t \in Keys!Rows :
               /\ Keys!Saved(w, ui, dialog) = [ui EXCEPT !.row[i] = t]
               /\ ~t.saving /\ t.busy = q.busy /\ t.dir = q.dir
               /\ t.icon = "copied" => t.timers > 0
  <2>1. PICK t : t = [q EXCEPT !.saving = FALSE, !.dialog = dialog] OBVIOUS
  <2>2. /\ t \in Keys!Rows /\ ~t.saving /\ t.busy = q.busy /\ t.dir = q.dir
        /\ t.icon = "copied" => t.timers > 0
    BY <1>3, <2>1 DEF Keys!Rows
  <2>3. Keys!Saved(w, ui, dialog) = [ui EXCEPT !.row[i].saving = FALSE, !.row[i].dialog = dialog]
    BY <1>1 DEF Keys!Saved
  <2>4. [ui EXCEPT !.row[i].saving = FALSE, !.row[i].dialog = dialog] = [ui EXCEPT !.row[i] = t]
    BY <1>1, <1>2, <2>1, RowsAre DEF Keys!Screens
  <2> QED BY <2>2, <2>3, <2>4
<1>8. ui.row[job[w].id] = q /\ job[w].id = i BY <1>1, <1>2
<1> QED BY <1>5, <1>6, <1>7, <1>8

(* The answers of copy and edit.                                           *)
LEMMA RestingRowAnswered ==
  ASSUME Keys!KeyScreenAssumption, Keys!Resting, NEW w \in Workers,
         Keys!CopyChecked(w) \/ Keys!CopyAnswered(w) \/ Keys!EditChecked(w) \/ Keys!EditAnswered(w)
  PROVE  Keys!Resting'
<1>1. job[w].op \in {"copy", "edit"} /\ UNCHANGED <<v1, v2, v3, v4>>
  BY DEF Keys!CopyChecked, Keys!CopyAnswered, Keys!EditChecked, Keys!EditAnswered,
    Keys!Checked, Keys!Answered, Keys!backend
<1>2. ~Keys!Running(job[w], "load") /\ ~Keys!Running(job[w], "create") BY <1>1 DEF Keys!Running
<1>3. ASSUME NEW m \in Ids \cup {0}, UNCHANGED v5, ~job[w].live,
             Keys!Shows(w, Keys!Idle, ui) \/ Keys!Shows(w, Keys!Idle, [ui EXCEPT !.missing = m])
      PROVE  Keys!Resting'
  BY <1>1, <1>2, <1>3, RestingEnds DEF Keys!Pending
<1>4. ASSUME NEW m \in Ids \cup {0}, NEW r \in Keys!Rows, job[w].live, ~Keys!Pending(job[w]),
             UNCHANGED v5,
             NEW s, s = [ui EXCEPT !.row[job[w].id] = r],
             Keys!Shows(w, Keys!Idle, s) \/ Keys!Shows(w, Keys!Idle, [s EXCEPT !.missing = m]),
             r.dir = ui.row[job[w].id].dir, r.icon = "copied" => r.timers > 0,
             IF job[w].op = "copy" THEN ~r.busy /\ r.saving = ui.row[job[w].id].saving
                                   ELSE ~r.saving /\ r.busy = ui.row[job[w].id].busy
      PROVE  Keys!Resting'
  <2>1. PICK i \in Ids : i = job[w].id /\ ui.row[i] # None BY <1>1, <1>4, CallOf
  <2>2. PICK u : Keys!Shows(w, Keys!Idle, u) /\ u \in {s, [s EXCEPT !.missing = m]} BY <1>4
  <2>3. /\ u \in Keys!Screens /\ u.mounted = ui.mounted /\ u.connected = ui.connected
        /\ u.keys = ui.keys /\ u.loading = ui.loading /\ u.creating = ui.creating
        /\ u.createOpen = ui.createOpen
        /\ u.row[i] = r /\ \A k \in Ids \ {i} : u.row[k] = ui.row[k]
    <3>1. /\ s \in Keys!Screens /\ s.mounted = ui.mounted /\ s.connected = ui.connected
          /\ s.keys = ui.keys /\ s.loading = ui.loading /\ s.creating = ui.creating
          /\ s.createOpen = ui.createOpen
          /\ s.row[i] = r /\ \A k \in Ids \ {i} : s.row[k] = ui.row[k]
      BY <1>4, <2>1, RowChanged
    <3>2. /\ u \in Keys!Screens /\ u.mounted = s.mounted /\ u.connected = s.connected
          /\ u.keys = s.keys /\ u.loading = s.loading /\ u.creating = s.creating
          /\ u.createOpen = s.createOpen /\ u.row = s.row
      BY <2>2, <3>1 DEF Keys!Screens
    <3> QED BY <3>1, <3>2
  <2> HIDE DEF Keys!Pending
  <2> QED BY <1>1, <1>4, <2>1, <2>2, <2>3, RestingReleases
<1>5. CASE Keys!CopyChecked(w)
  <2>1. /\ job[w].op = "copy" /\ job[w].pc = "checked" /\ UNCHANGED v5 /\ ~Keys!Pending(job[w])
        /\ \/ Keys!Shows(w, Keys!Idle, Keys!Released(w, ui))
           \/ Keys!Shows(w, [job[w] EXCEPT !.pc = "copy"], ui)
           \/ Keys!Shows(w, Keys!Idle,
                IF job[w].here THEN [Keys!Released(w, ui) EXCEPT !.missing = job[w].id] ELSE ui)
    BY <1>5 DEF Keys!CopyChecked, Keys!Checked, Keys!Pending
  <2>2. job[w].id \in Ids BY <2>1, CallOf DEF Keys!Reaches
  <2>3. CASE Keys!Shows(w, [job[w] EXCEPT !.pc = "copy"], ui) BY <1>1, <2>1, <2>3, RestingGoesOn
  <2>4. CASE job[w].live /\ ~Keys!Shows(w, [job[w] EXCEPT !.pc = "copy"], ui)
    <3>1. PICK r \in Keys!Rows :
            /\ Keys!Released(w, ui) = [ui EXCEPT !.row[job[w].id] = r]
            /\ ~r.busy /\ r.saving = ui.row[job[w].id].saving
            /\ r.dir = ui.row[job[w].id].dir /\ (r.icon = "copied" => r.timers > 0)
      BY <2>1, <2>4, RowReleased
    <3>2. job[w].here BY <2>4, CallOf
    <3>3. PICK u : u = [ui EXCEPT !.row[job[w].id] = r] OBVIOUS
    <3>4. Keys!Shows(w, Keys!Idle, u) \/ Keys!Shows(w, Keys!Idle, [u EXCEPT !.missing = job[w].id])
      BY <2>1, <2>4, <3>1, <3>2, <3>3
    <3> QED BY <1>4, <2>1, <2>2, <2>4, <3>1, <3>3, <3>4
  <2>5. CASE ~job[w].live /\ ~Keys!Shows(w, [job[w] EXCEPT !.pc = "copy"], ui)
    <3>1. Keys!Released(w, ui) = ui BY <2>5 DEF Keys!Released
    <3>2. Keys!Shows(w, Keys!Idle, ui)
          \/ Keys!Shows(w, Keys!Idle, [ui EXCEPT !.missing = job[w].id])
      BY <2>1, <2>5, <3>1
    <3> QED BY <1>3, <2>1, <2>2, <2>5, <3>2
  <2> QED BY <2>3, <2>4, <2>5
<1>6. CASE Keys!CopyAnswered(w)
  <2>1. /\ job[w].op = "copy" /\ UNCHANGED v5 /\ ~Keys!Pending(job[w])
        /\ \/ Keys!Shows(w, Keys!Idle, Keys!Released(w, ui))
           \/ /\ job[w].live
              /\ \E u : /\ u = Keys!Released(w, ui)
                       /\ Keys!Shows(w, Keys!Idle, [u EXCEPT !.row[job[w].id].icon = "copied",
                                                    !.row[job[w].id].timers = @ + 1])
    BY <1>6 DEF Keys!CopyAnswered, Keys!Answered, Keys!Pending
  <2>2. CASE job[w].live
    <3>1. PICK i \in Ids : i = job[w].id /\ ui.row[i] # None BY <1>1, <2>2, CallOf
    <3>2. PICK r \in Keys!Rows :
            /\ Keys!Released(w, ui) = [ui EXCEPT !.row[i] = r]
            /\ ~r.busy /\ r.saving = ui.row[i].saving
            /\ r.dir = ui.row[i].dir /\ (r.icon = "copied" => r.timers > 0)
      BY <2>1, <2>2, <3>1, RowReleased
    <3>3. CASE Keys!Shows(w, Keys!Idle, Keys!Released(w, ui))
      BY <1>4, <2>1, <2>2, <3>1, <3>2, <3>3
    <3>4. CASE \E u : /\ u = Keys!Released(w, ui)
                      /\ Keys!Shows(w, Keys!Idle, [u EXCEPT !.row[i].icon = "copied",
                                                   !.row[i].timers = @ + 1])
      <4>1. PICK u : /\ u = [ui EXCEPT !.row[i] = r]
                     /\ Keys!Shows(w, Keys!Idle, [u EXCEPT !.row[i].icon = "copied",
                                                  !.row[i].timers = @ + 1])
        BY <3>2, <3>4
      <4>2. PICK n \in Nat : n = r.timers + 1 /\ n > 0 BY DEF Keys!Rows
      <4>3. PICK t : t = [r EXCEPT !.icon = "copied", !.timers = n] OBVIOUS
      <4>4. t \in Keys!Rows /\ t.busy = r.busy /\ t.saving = r.saving /\ t.dir = r.dir
            /\ t.timers > 0
        BY <4>2, <4>3 DEF Keys!Rows
      <4>5. [u EXCEPT !.row[i].icon = "copied", !.row[i].timers = @ + 1] = [ui EXCEPT !.row[i] = t]
        BY <3>1, <4>1, <4>2, <4>3, RowsAre DEF Keys!Screens
      <4>6. Keys!Shows(w, Keys!Idle, [ui EXCEPT !.row[job[w].id] = t]) BY <3>1, <4>1, <4>5
      <4> QED BY <1>4, <2>1, <2>2, <3>1, <3>2, <4>4, <4>6
    <3> QED BY <2>1, <3>1, <3>3, <3>4
  <2>3. CASE ~job[w].live
    <3>1. Keys!Released(w, ui) = ui BY <2>3 DEF Keys!Released
    <3> QED BY <1>3, <2>1, <2>3, <3>1
  <2> QED BY <2>2, <2>3
<1>7. CASE Keys!EditChecked(w)
  <2>1. /\ job[w].op = "edit" /\ job[w].pc = "checked" /\ UNCHANGED v5 /\ ~Keys!Pending(job[w])
        /\ \/ Keys!Shows(w, Keys!Idle, Keys!Saved(w, ui, "edit"))
           \/ Keys!Shows(w, [job[w] EXCEPT !.pc = "update"], ui)
           \/ Keys!Shows(w, Keys!Idle,
                IF job[w].live THEN [Keys!Saved(w, ui, "none") EXCEPT !.missing = job[w].id]
                ELSE ui)
    BY <1>7 DEF Keys!EditChecked, Keys!Checked, Keys!Pending
  <2>2. job[w].id \in Ids BY <2>1, CallOf DEF Keys!Reaches
  <2>3. CASE Keys!Shows(w, [job[w] EXCEPT !.pc = "update"], ui)
    BY <1>1, <2>1, <2>3, RestingGoesOn
  <2>4. CASE job[w].live /\ ~Keys!Shows(w, [job[w] EXCEPT !.pc = "update"], ui)
    <3>1. PICK dialog \in {"none", "edit"},
          u \in {Keys!Saved(w, ui, "none"), Keys!Saved(w, ui, "edit")} :
            /\ u = Keys!Saved(w, ui, dialog)
            /\ Keys!Shows(w, Keys!Idle, u)
               \/ Keys!Shows(w, Keys!Idle, [u EXCEPT !.missing = job[w].id])
      BY <2>1, <2>4
    <3>2. PICK r \in Keys!Rows :
            /\ Keys!Saved(w, ui, dialog) = [ui EXCEPT !.row[job[w].id] = r]
            /\ ~r.saving /\ r.busy = ui.row[job[w].id].busy
            /\ r.dir = ui.row[job[w].id].dir /\ (r.icon = "copied" => r.timers > 0)
      BY <2>1, <2>4, RowReleased
    <3>3. u = [ui EXCEPT !.row[job[w].id] = r] BY <3>1, <3>2
    <3> QED BY <1>4, <2>1, <2>2, <2>4, <3>1, <3>2, <3>3
  <2>5. CASE ~job[w].live /\ ~Keys!Shows(w, [job[w] EXCEPT !.pc = "update"], ui)
    <3>1. Keys!Saved(w, ui, "edit") = ui BY <2>5 DEF Keys!Saved
    <3> QED BY <1>3, <2>1, <2>2, <2>5, <3>1
  <2> QED BY <2>3, <2>4, <2>5
<1>8. CASE Keys!EditAnswered(w)
  <2>1. job[w].op = "edit" BY <1>8 DEF Keys!EditAnswered, Keys!Answered
  <2>2. CASE ~job[w].live
    <3>1. Keys!Shows(w, Keys!Idle, Keys!Saved(w, ui, "edit")) /\ UNCHANGED v5
      BY <1>8, <2>2 DEF Keys!EditAnswered
    <3>2. Keys!Saved(w, ui, "edit") = ui BY <2>2 DEF Keys!Saved
    <3> QED BY <1>3, <2>2, <3>1, <3>2
  <2>3. CASE job[w].live /\ Keys!Failed(w)
    <3>1. Keys!Shows(w, Keys!Idle, Keys!Saved(w, ui, "edit")) /\ UNCHANGED v5
          /\ ~Keys!Pending(job[w])
      BY <1>8, <2>3 DEF Keys!EditAnswered, Keys!Failed, Keys!Pending
    <3>2. PICK r \in Keys!Rows :
            /\ Keys!Saved(w, ui, "edit") = [ui EXCEPT !.row[job[w].id] = r]
            /\ ~r.saving /\ r.busy = ui.row[job[w].id].busy
            /\ r.dir = ui.row[job[w].id].dir /\ (r.icon = "copied" => r.timers > 0)
      BY <2>1, <2>3, RowReleased
    <3> QED BY <1>4, <2>1, <2>3, <3>1, <3>2
  <2>4. CASE job[w].live /\ ~Keys!Failed(w)
    <3>1. Keys!Refresh(w, Keys!Saved(w, ui, "none")) BY <1>8, <2>4 DEF Keys!EditAnswered
    <3>2. PICK i \in Ids : i = job[w].id /\ ui.row[i] # None BY <1>1, <2>4, CallOf
    <3>3. PICK r \in Keys!Rows : Keys!Saved(w, ui, "none") = [ui EXCEPT !.row[i] = r]
      BY <2>1, <2>4, <3>2, RowReleased
    <3>4. PICK u : u = [ui EXCEPT !.row[i] = r] OBVIOUS
    <3>5. /\ u \in Keys!Screens /\ u.mounted = ui.mounted /\ u.connected = ui.connected
          /\ u.loading = ui.loading /\ u.creating = ui.creating
      BY <3>2, <3>4, RowChanged
    <3>6. /\ ui.mounted /\ job[w].op # "load"
          /\ ui.creating => \E v \in Workers \ {w} : Keys!Running(job[v], "create")
      BY <2>1, <2>4, CallOf
    <3>7. Keys!Refresh(w, u) BY <3>1, <3>3, <3>4
    <3> QED BY <1>1, <3>5, <3>6, <3>7, RestingRefresh
  <2> QED BY <2>2, <2>3, <2>4
<1> QED BY <1>5, <1>6, <1>7, <1>8

LEMMA RestingAnswered ==
  ASSUME Keys!KeyScreenAssumption, Keys!Resting, NEW w \in Workers,
         Keys!LoadAnswered(w) \/ Keys!CreateAnswered(w) \/ Keys!DeleteAnswered(w)
  PROVE  Keys!Resting'
<1>1. CASE Keys!LoadAnswered(w)
  <2>1. CASE job[w].here BY <1>1, <2>1, RestingLoaded
  <2>2. CASE ~job[w].here
    <3>1. Keys!Shows(w, Keys!Idle, ui) /\ UNCHANGED <<v1, v2, v3, v4, v5>>
      BY <1>1, <2>2 DEF Keys!LoadAnswered, Keys!Drops, Keys!backend
    <3>2. /\ ~Keys!Running(job[w], "load") /\ ~Keys!Running(job[w], "create")
          /\ ~Keys!Pending(job[w])
          /\ job[w].op = "load"
      BY <1>1, <2>2 DEF Keys!LoadAnswered, Keys!Answered, Keys!Running, Keys!Pending
    <3> QED BY <3>1, <3>2, RestingEnds
  <2> QED BY <2>1, <2>2
<1>2. CASE Keys!DeleteAnswered(w)
  <2>1. job[w].op = "delete" BY <1>2 DEF Keys!DeleteAnswered, Keys!Answered
  <2>2. CASE ~job[w].here \/ Keys!Failed(w)
    <3>1. Keys!Shows(w, Keys!Idle, ui) /\ UNCHANGED <<v1, v2, v3, v4, v5>>
      BY <1>2, <2>2 DEF Keys!DeleteAnswered, Keys!Drops, Keys!backend
    <3>2. ~Keys!Running(job[w], "load") /\ ~Keys!Running(job[w], "create") /\ ~Keys!Pending(job[w])
      BY <2>1, <2>2, CallOf DEF Keys!Failed, Keys!Running, Keys!Pending
    <3> QED BY <2>1, <3>1, <3>2, RestingEnds
  <2>3. CASE ~(~job[w].here \/ Keys!Failed(w))
    <3>1. Keys!Refresh(w, ui) /\ UNCHANGED <<v1, v2, v3, v4>>
      BY <1>2, <2>3 DEF Keys!DeleteAnswered, Keys!backend
    <3>2. ui.mounted /\ (ui.creating => \E v \in Workers \ {w} : Keys!Running(job[v], "create"))
      BY <2>1, <2>3, CallOf
    <3> QED BY <2>1, <3>1, <3>2, RestingRefresh, RowsAre
  <2> QED BY <2>2, <2>3
<1>3. CASE Keys!CreateAnswered(w)
  <2>1. job[w].op = "create" BY <1>3 DEF Keys!CreateAnswered, Keys!Answered
  <2>2. CASE ~job[w].here
    <3>1. Keys!Shows(w, Keys!Idle, ui) /\ UNCHANGED <<v1, v2, v3, v4, v5>>
      BY <1>3, <2>2 DEF Keys!CreateAnswered, Keys!Drops, Keys!backend
    <3>2. ~Keys!Running(job[w], "load") /\ ~Keys!Running(job[w], "create") /\ ~Keys!Pending(job[w])
      BY <2>1, <2>2, CallOf DEF Keys!Running, Keys!Pending
    <3> QED BY <2>1, <3>1, <3>2, RestingEnds
  <2>3. CASE job[w].here /\ Keys!Failed(w)
    <3>1. PICK u : u = [ui EXCEPT !.creating = FALSE] OBVIOUS
    <3>2. Keys!Shows(w, Keys!Idle, u) /\ UNCHANGED <<v1, v2, v3, v4, v5>>
      BY <1>3, <2>3, <3>1 DEF Keys!CreateAnswered, Keys!backend
    <3>3. /\ u \in Keys!Screens /\ u.mounted = ui.mounted /\ u.connected = ui.connected
          /\ u.keys = ui.keys /\ u.loading = ui.loading /\ (u.createOpen => u.mounted)
          /\ ~u.creating /\ u.row = ui.row
      BY <3>1, RowsAre DEF Keys!Screens
    <3>4. ~Keys!Running(job[w], "load") /\ ~Keys!Pending(job[w])
      BY <2>1, <2>3 DEF Keys!Failed, Keys!Running, Keys!Pending
    <3>5. \A i \in Ids : ~Keys!OnRowOf(job[w], "copy", i) /\ ~Keys!OnRowOf(job[w], "edit", i)
      BY <2>1 DEF Keys!OnRowOf
    <3>6. \A i \in Ids : ui.row[i] # None =>
            (u.row[i].icon = "copied" => u.row[i].timers > 0)
      BY <3>3, RowsAre
    <3>7. PICK j : j = Keys!Idle OBVIOUS
    <3>8. Keys!Shows(w, j, u) /\ Keys!Reaches(j) /\ ~Keys!Running(j, "load")
      BY <3>2, <3>7, NewCall DEF Keys!Running
    <3> HIDE DEF Keys!Running, Keys!OnRowOf, Keys!Reaches, Keys!Pending
    <3> QED BY <3>2, <3>3, <3>4, <3>5, <3>6, <3>8, RestingSend
  <2>4. CASE job[w].here /\ ~Keys!Failed(w)
    <3>1. PICK u : u = [ui EXCEPT !.creating = FALSE, !.createOpen = FALSE] OBVIOUS
    <3>2. Keys!Refresh(w, u) /\ UNCHANGED <<v1, v2, v3, v4>>
      BY <1>3, <2>4, <3>1 DEF Keys!CreateAnswered, Keys!backend
    <3>3. /\ u \in Keys!Screens /\ u.mounted = ui.mounted /\ u.connected = ui.connected
          /\ u.loading = ui.loading /\ ~u.creating
      BY <3>1, RowsAre DEF Keys!Screens
    <3>4. ui.mounted BY <2>4, CallOf
    <3> QED BY <2>1, <3>2, <3>3, <3>4, RestingRefresh
  <2> QED BY <2>2, <2>3, <2>4
<1> QED BY <1>1, <1>2, <1>3

LEMMA FreshOpen ==
  ASSUME NEW c \in Conns \cup {None}, NEW u, u = Keys!Fresh(c, TRUE)
  PROVE  u \in Keys!Screens /\ u.mounted /\ u.connected = c /\ ~u.creating
BY DEF Keys!Fresh, Keys!NoRows, Keys!Screens

(* The effect on the connection.                                           *)
LEMMA RestingEffect ==
  ASSUME Keys!KeyScreenAssumption, Keys!Resting, NEW w \in Workers, NEW u \in Keys!Screens,
         Keys!LoadEffect(w, u),
         u.mounted, u.creating => ui.creating,
           ui'.connected = u.connected /\ v5' \in BOOLEAN => Keys!Stored'
  PROVE  Keys!Resting'
<1>1. CASE u.connected = None
  <2>1. PICK t : t = [u EXCEPT !.keys = {}, !.loading = FALSE] OBVIOUS
  <2>2. Keys!Redraws(t) /\ UNCHANGED v5 BY <1>1, <2>1 DEF Keys!LoadEffect
  <2>3. /\ t \in Keys!Screens /\ t.connected = None /\ t.mounted /\ ~t.loading
        /\ t.creating = u.creating
    BY <1>1, <2>1 DEF Keys!Screens
  <2>4. v5' \in BOOLEAN BY <2>2 DEF Keys!Resting, Keys!Stored
  <2> QED BY <1>1, <2>2, <2>3, <2>4, RestingClears
<1>2. CASE u.connected # None
  <2>1. /\ ~Keys!Active(w) /\ Keys!Shows(w, Keys!Call("load"), [u EXCEPT !.loading = TRUE])
        /\ Keys!Starts(w)
    BY <1>2 DEF Keys!LoadEffect
  <2>2. u.creating => \E v \in Workers \ {w} : Keys!Running(job[v], "create")
    BY <2>1 DEF Keys!Active, Keys!Resting, Keys!Waiting, Keys!Running
  <2>3. v5' \in BOOLEAN BY <2>1 DEF Keys!Starts, Keys!OtherLoad
  <2> QED BY <2>1, <2>2, <2>3, RestingLoads
<1> QED BY <1>1, <1>2

LEMMA RestingOpens ==
  ASSUME Keys!KeyScreenAssumption, Keys!Resting,
         \/ Keys!LeaveScreen \/ Keys!ReadActive
         \/ \E c \in Conns \cup {None} : Keys!Switch(c)
         \/ \E w \in Workers : Keys!OpenScreen(w) \/ Keys!Reread(w)
  PROVE  Keys!Resting'
<1>1. /\ ui \in Keys!Screens /\ ui.connected \in Conns \cup {None} /\ (ui.createOpen => ui.mounted)
      /\ ~ui.mounted => ~ui.loading /\ ~ui.creating
  BY DEF Keys!Resting, Keys!Drawn, Keys!Screens, Keys!Waiting, Keys!Reached, Keys!Running
<1>2. Keys!NoRead.pc = "none" BY DEF Keys!NoRead
<1>3. ASSUME NEW w \in Workers, Keys!OpenScreen(w) PROVE Keys!Resting'
  <2>1. PICK u : u = Keys!Fresh(ui.connected, TRUE) OBVIOUS
  <2>2. u \in Keys!Screens /\ u.mounted /\ u.connected = ui.connected /\ ~u.creating
    BY <1>1, <2>1, FreshOpen
  <2>3. Keys!LoadEffect(w, u) /\ UNCHANGED <<v1, v2, v3>>
    BY <1>3, <2>1 DEF Keys!OpenScreen, Keys!backend
  <2>4. v4' = v4 \/ v4' = [pc |-> "sent", value |-> None]
    <3>1. PICK r : r = Keys!NoRead /\ r = [pc |-> "none", value |-> None] BY DEF Keys!NoRead
    <3>2. [r EXCEPT !.pc = "sent"] = [pc |-> "sent", value |-> None] BY <3>1
    <3> QED BY <1>3, <3>1, <3>2 DEF Keys!OpenScreen
  <2>5. ui'.connected = u.connected /\ v5' \in BOOLEAN => Keys!Stored'
    BY <2>2, <2>3, <2>4 DEF Keys!Resting, Keys!Stored, Keys!NoRead
  <2> QED BY <2>2, <2>3, <2>5, RestingEffect
<1>4. ASSUME NEW w \in Workers, Keys!Reread(w) PROVE Keys!Resting'
  <2>1. PICK u : u = [ui EXCEPT !.connected = v4.value] OBVIOUS
  <2>2. /\ v4.pc = "read" /\ v4' = Keys!NoRead /\ UNCHANGED <<v1, v2, v3>>
        /\ IF ui.mounted THEN Keys!LoadEffect(w, u) ELSE Keys!Redraws(u) /\ UNCHANGED v5
    BY <1>4, <2>1 DEF Keys!Reread, Keys!backend
  <2>3. v4.value = v1 /\ v1 \in Conns \cup {None} BY <2>2 DEF Keys!Resting, Keys!Stored
  <2>4. /\ u \in Keys!Screens /\ u.mounted = ui.mounted /\ u.connected = v1
        /\ u.creating = ui.creating /\ u.createOpen = ui.createOpen /\ u.loading = ui.loading
    BY <1>1, <2>1, <2>3 DEF Keys!Screens
  <2>5. ui'.connected = u.connected /\ v5' \in BOOLEAN => Keys!Stored'
    BY <2>2, <2>4 DEF Keys!Resting, Keys!Stored, Keys!NoRead
  <2>6. CASE ui.mounted BY <2>2, <2>4, <2>5, <2>6, RestingEffect
  <2>7. CASE ~ui.mounted
    <3>1. Keys!Redraws(u) /\ UNCHANGED v5 BY <2>2, <2>7
    <3>2. v5' \in BOOLEAN BY <3>1 DEF Keys!Resting, Keys!Stored
    <3> QED BY <1>1, <2>4, <2>5, <2>7, <3>1, <3>2, RestingClears
  <2> QED BY <2>6, <2>7
<1>5. CASE Keys!LeaveScreen
  <2>1. PICK u : u = Keys!Fresh(ui.connected, FALSE) OBVIOUS
  <2>2. /\ u \in Keys!Screens /\ ~u.mounted /\ u.connected = ui.connected /\ ~u.creating
        /\ ~u.createOpen /\ ~u.loading
    BY <1>1, <2>1 DEF Keys!Fresh, Keys!NoRows, Keys!Screens
  <2>3. Keys!Redraws(u) /\ UNCHANGED <<v1, v2, v3, v4, v5>>
    BY <1>5, <2>1 DEF Keys!LeaveScreen, Keys!backend
  <2>4. ui'.connected = u.connected => Keys!Stored' BY <2>2, <2>3 DEF Keys!Resting, Keys!Stored
  <2> QED BY <2>2, <2>3, <2>4, RestingClears
<1>6. ASSUME NEW c \in Conns \cup {None}, Keys!Switch(c) PROVE Keys!Resting'
  <2>1. PICK u : u = [ui EXCEPT !.connected = c] OBVIOUS
  <2>2. /\ ~ui.mounted /\ v1' = c /\ Keys!Redraws(u) /\ UNCHANGED <<v2, v3, v4, v5>>
        /\ v4 = Keys!NoRead
    BY <1>6, <2>1 DEF Keys!Switch
  <2>3. /\ u \in Keys!Screens /\ ~u.mounted /\ u.connected = c /\ ~u.creating /\ ~u.createOpen
        /\ ~u.loading
    BY <1>1, <2>1, <2>2 DEF Keys!Screens
  <2>4. ui'.connected = u.connected => Keys!Stored'
    BY <1>2, <2>2, <2>3 DEF Keys!Resting, Keys!Stored
  <2> QED BY <2>2, <2>3, <2>4, RestingClears
<1>7. CASE Keys!ReadActive
  <2>1. /\ v4' = [pc |-> "read", value |-> v1]
        /\ UNCHANGED <<v1, v2, v3, ui, job, v5>>
    BY <1>7 DEF Keys!ReadActive, Keys!backend
  <2>2. v4'.pc = "read" /\ v4'.value = v1 BY <2>1
  <2>3. v4' # Keys!NoRead BY <1>2, <2>2
  <2>4. Keys!Stored' BY <2>1, <2>2, <2>3 DEF Keys!Resting, Keys!Stored
  <2>5. Keys!Drawn' /\ Keys!Reached' /\ Keys!Waiting'
    BY <2>1 DEF Keys!Resting, Keys!Drawn, Keys!Hidden, Keys!Reached, Keys!Waiting
  <2>6. Keys!Settled' BY <2>1, <2>3 DEF Keys!Resting, Keys!Settled, Keys!OneLoad
  <2> QED BY <2>4, <2>5, <2>6 DEF Keys!Resting
<1> QED BY <1>3, <1>4, <1>5, <1>6, <1>7

LEMMA RestingStarts ==
  ASSUME Keys!KeyScreenAssumption, Keys!Init
  PROVE  Keys!Resting
<1>1. PICK f \in [AtStart -> Dirs] :
        v2 = {[id |-> i, conn |-> Local, dir |-> f[i]] : i \in AtStart}
  BY DEF Keys!Init
<1>2. /\ v4 = [pc |-> "sent", value |-> None] /\ ui = Keys!Fresh(Local, FALSE) /\ v3 = AtStart
      /\ job = [w \in Workers |-> Keys!Idle] /\ v5 = FALSE /\ v1 \in Conns \cup {None}
  <2>1. PICK r : r = Keys!NoRead /\ r = [pc |-> "none", value |-> None] BY DEF Keys!NoRead
  <2>2. [r EXCEPT !.pc = "sent"] = [pc |-> "sent", value |-> None] BY <2>1
  <2> QED BY <2>1, <2>2 DEF Keys!Init
<1>3. /\ ui \in Keys!Screens /\ ~ui.mounted /\ ~ui.loading /\ ~ui.creating /\ ~ui.createOpen
      /\ ui.row = Keys!NoRows
  BY <1>2 DEF Keys!Fresh, Keys!NoRows, Keys!Screens, Keys!KeyScreenAssumption
<1>4. Keys!Stored
  <2>1. v2 \subseteq [id : Ids, conn : Conns, dir : Dirs]
    BY <1>1 DEF Keys!KeyScreenAssumption
  <2>2. \A k \in v2 : k.id \in v3 /\ \A l \in v2 : l.id = k.id => l = k
    <3>1. ASSUME NEW k \in v2, NEW l \in v2
          PROVE  k.id \in v3 /\ (l.id = k.id => l = k)
      <4>1. PICK i \in AtStart : k = [id |-> i, conn |-> Local, dir |-> f[i]] BY <1>1
      <4>2. PICK j \in AtStart : l = [id |-> j, conn |-> Local, dir |-> f[j]] BY <1>1
      <4>3. k.id = i /\ l.id = j BY <4>1, <4>2
      <4> QED BY <1>2, <4>1, <4>2, <4>3
    <3> QED BY <3>1
  <2> QED BY <1>2, <2>1, <2>2 DEF Keys!Stored, Keys!NoRead
<1>5. Keys!Drawn BY <1>3 DEF Keys!Drawn, Keys!Hidden, Keys!NoRows
<1>6. \A w \in Workers : job[w] = Keys!Idle BY <1>2
<1>7. Keys!Reached
  <2>1. \A w \in Workers : Keys!Reaches(job[w]) /\ ~job[w].here /\ ~job[w].live
    BY <1>6, NewCall
  <2> QED BY <1>2, <2>1 DEF Keys!Reached
<1>8. Keys!Waiting BY <1>3 DEF Keys!Waiting, Keys!NoRows
<1>9. Keys!Settled
  <2>1. \A w \in Workers : ~Keys!Running(job[w], "load") BY <1>6, NewCall DEF Keys!Running
  <2> QED BY <1>3, <2>1 DEF Keys!Settled, Keys!OneLoad
<1> QED BY <1>4, <1>5, <1>7, <1>8, <1>9 DEF Keys!Resting

LEMMA RestingStep ==
  ASSUME Keys!KeyScreenAssumption, Keys!Resting, Keys!KeysNext
  PROVE  Keys!Resting'
<1>1. CASE \/ Keys!LeaveScreen \/ Keys!ReadActive
           \/ \E c \in Conns \cup {None} : Keys!Switch(c)
           \/ \E w \in Workers : Keys!OpenScreen(w) \/ Keys!Reread(w)
  BY <1>1, RestingOpens
<1>2. CASE \/ Keys!ClickCreate \/ Keys!CancelCreate \/ Keys!CancelMissing
           \/ \E i \in Ids : Keys!ClickEdit(i) \/ Keys!ClickDelete(i) \/ Keys!CancelDialog(i)
              \/ Keys!TimerFires(i)
  BY <1>2, RestingClicks
<1>3. ASSUME NEW w \in Workers,
             \/ \E d \in Dirs : Keys!SubmitCreate(w, d)
             \/ \E i \in Ids : \/ Keys!ClickCopy(w, i) \/ Keys!ConfirmDelete(w, i)
                               \/ \E d \in Dirs : Keys!SubmitEdit(w, i, d)
             \/ Keys!ConfirmMissing(w)
      PROVE  Keys!Resting'
  BY <1>3, RestingSends
<1>4. ASSUME NEW w \in Workers,
             \/ Keys!Fails(w) \/ Keys!ListKeys(w) \/ Keys!DeleteKey(w) \/ Keys!FilesExist(w)
             \/ Keys!CopyKey(w)
             \/ Keys!UpdateKey(w) \/ \E i \in Ids : Keys!CreateKey(w, i)
      PROVE  Keys!Resting'
  BY <1>4, RestingCommands
<1>5. ASSUME NEW w \in Workers,
             Keys!LoadAnswered(w) \/ Keys!CreateAnswered(w) \/ Keys!DeleteAnswered(w)
      PROVE  Keys!Resting'
  BY <1>5, RestingAnswered
<1>6. ASSUME NEW w \in Workers,
             Keys!CopyChecked(w) \/ Keys!CopyAnswered(w) \/ Keys!EditChecked(w)
               \/ Keys!EditAnswered(w)
      PROVE  Keys!Resting'
  BY <1>6, RestingRowAnswered
<1> QED BY <1>1, <1>2, <1>3, <1>4, <1>5, <1>6 DEF Keys!KeysNext

LEMMA RestingStays ==
  ASSUME Keys!Resting, UNCHANGED Keys!vars
  PROVE  Keys!Resting'
<1>1. UNCHANGED <<v1, v2, v3, v4, ui, job, v5>> BY DEF Keys!vars, Keys!backend
<1>2. Keys!Stored' /\ Keys!Drawn' /\ Keys!Reached' /\ Keys!Waiting'
  BY <1>1 DEF Keys!Resting, Keys!Stored, Keys!Drawn, Keys!Hidden, Keys!Reached, Keys!Waiting
<1>3. Keys!Settled'
  BY <1>1 DEF Keys!Resting, Keys!Settled, Keys!OneLoad, Keys!UpToDate, Keys!KeysOf
<1> QED BY <1>2, <1>3 DEF Keys!Resting

LEMMA RestingSafe ==
  ASSUME Keys!KeyScreenAssumption, Keys!Resting
  PROVE  Keys!RowsSettle /\ Keys!ControlsComeBack
<1>1. Keys!ControlsComeBack
  <2> SUFFICES ASSUME ui.mounted, \A w \in Workers : ~Keys!Active(w)
               PROVE  /\ ~ui.loading /\ ~ui.creating
                      /\ \A i \in Keys!OnScreen :
                           /\ ~ui.row[i].busy /\ ~ui.row[i].saving
                           /\ ui.row[i].timers = 0 => ui.row[i].icon = "copy"
    BY DEF Keys!ControlsComeBack
  <2>1. ~ui.loading /\ ~ui.creating BY DEF Keys!Resting, Keys!Waiting, Keys!Active, Keys!Running
  <2>2. ASSUME NEW i \in Keys!OnScreen
        PROVE  /\ ~ui.row[i].busy /\ ~ui.row[i].saving
               /\ ui.row[i].timers = 0 => ui.row[i].icon = "copy"
    <3>1. i \in Ids /\ ui.row[i] # None BY DEF Keys!OnScreen
    <3>2. ~ui.row[i].busy /\ ~ui.row[i].saving
      BY <3>1 DEF Keys!Resting, Keys!Waiting, Keys!Active, Keys!OnRowOf
    <3>3. PICK q \in Keys!Rows : q = ui.row[i] /\ (q.icon = "copied" => q.timers > 0)
      BY <3>1, RowsAre
    <3>4. q.timers = 0 => q.icon = "copy" BY <3>3 DEF Keys!Rows
    <3> QED BY <3>2, <3>3, <3>4
  <2> QED BY <2>1, <2>2
<1>2. Keys!RowsSettle
  <2> SUFFICES ASSUME ui.mounted, Keys!Quiet, ~v5
               PROVE  {[id |-> i, dir |-> ui.row[i].dir] : i \in Keys!OnScreen}
                        = Keys!KeysOf(ui.connected)
    BY DEF Keys!RowsSettle
  <2>1. v4 = Keys!NoRead /\ \A w \in Workers : ~Keys!Active(w) BY DEF Keys!Quiet
  <2>2. ui.connected = v1 BY <2>1 DEF Keys!Resting, Keys!Stored
  <2>3. CASE ui.connected = None
    <3>1. Keys!OnScreen = {} BY <2>3 DEF Keys!OnScreen, Keys!Resting, Keys!Drawn, Keys!Hidden
    <3>2. \A k \in v2 : k.conn # None
      BY DEF Keys!Resting, Keys!Stored, Keys!KeyScreenAssumption
    <3>3. Keys!KeysOf(None) = {} BY <3>2 DEF Keys!KeysOf
    <3> QED BY <2>3, <3>1, <3>3
  <2>4. CASE ui.connected # None
    <3>1. \A w \in Workers : ~Keys!Running(job[w], "load") /\ ~Keys!Pending(job[w])
      BY <2>1 DEF Keys!Active, Keys!Running, Keys!Pending
    <3>2. Keys!UpToDate BY <2>1, <2>4 DEF Keys!Resting, Keys!Settled
    <3>3. /\ ui.keys = Keys!KeysOf(v1)
          /\ \A i \in Ids : ui.row[i] # None => [id |-> i, dir |-> ui.row[i].dir] \in ui.keys
      <4> HIDE DEF Keys!Running, Keys!Pending
      <4> QED BY <3>1, <3>2 DEF Keys!UpToDate
    <3>4. ~ui.loading BY <3>1 DEF Keys!Resting, Keys!Waiting
    <3>5. \A i \in Keys!OnScreen : [id |-> i, dir |-> ui.row[i].dir] \in Keys!KeysOf(v1)
      BY <3>3 DEF Keys!OnScreen
    <3>6. ASSUME NEW e \in Keys!KeysOf(v1)
          PROVE  \E i \in Keys!OnScreen : e = [id |-> i, dir |-> ui.row[i].dir]
      <4>1. PICK k \in v2 : e = [id |-> k.id, dir |-> k.dir] BY <3>6 DEF Keys!KeysOf
      <4>2. k.id \in Ids BY DEF Keys!Resting, Keys!Stored
      <4>3. e.id = k.id /\ e \in ui.keys BY <3>3, <3>6, <4>1
      <4>4. k.id \in Keys!OnScreen
        BY <2>4, <3>4, <4>2, <4>3 DEF Keys!OnScreen, Keys!Resting, Keys!Drawn, Keys!Hidden
      <4>5. [id |-> k.id, dir |-> ui.row[k.id].dir] \in Keys!KeysOf(v1) BY <3>5, <4>4
      <4>6. PICK l \in v2 :
              [id |-> k.id, dir |-> ui.row[k.id].dir] = [id |-> l.id, dir |-> l.dir]
        BY <4>5 DEF Keys!KeysOf
      <4>7. l.id = k.id /\ l.dir = ui.row[k.id].dir BY <4>6
      <4>8. l = k BY <4>7 DEF Keys!Resting, Keys!Stored
      <4> QED BY <4>1, <4>4, <4>7, <4>8
    <3> QED BY <2>2, <3>5, <3>6
  <2> QED BY <2>3, <2>4
<1> QED BY <1>1, <1>2

LEMMA KeysKept == Spec => [](part = "keys" => Keys!Resting)
<1>1. Init => (part = "keys" => Keys!Resting) BY RestingStarts, WindowAssumption DEF Init
<1>2. (part = "keys" => Keys!Resting) /\ [Next]_vars
        => (part = "keys" => Keys!Resting)'
  <2> SUFFICES ASSUME part' = "keys", part' = "keys" /\ part = part' => Keys!Resting,
                      [Next]_vars
               PROVE  Keys!Resting'
    BY Onward
  <2>1. part = "keys" BY Onward
  <2>2. CASE UNCHANGED vars
    <3>1. UNCHANGED Keys!vars BY <2>2 DEF vars, Keys!vars, Keys!backend
    <3> QED BY <2>1, <3>1, RestingStays
  <2>3. CASE Keys!KeysNext BY <2>1, <2>3, RestingStep, WindowAssumption
  <2> QED BY <2>1, <2>2, <2>3 DEF Next
<1> QED BY <1>1, <1>2, PTL DEF Spec

(* With nothing in flight the rows of the Keys screen are the keys of the  *)
(* connection, unless a failed or an overtaken load left the list behind,  *)
(* and no control is left disabled: for any number of keys, connections    *)
(* and calls (LoadEffect, refresh, KeyRow and its dialogs in keys.rs).     *)
THEOREM KeysAreSafe == Spec => []KeysSafe
<1>1. (part = "keys" => Keys!Resting) => KeysSafe
  BY RestingSafe, WindowAssumption DEF KeysSafe
<1> QED BY <1>1, KeysKept, PTL
-----------------------------------------------------------------------------
(* The palette and the theme: v1 is lang, v2 palette, v3 stored, v4 theme, *)
(* v5 dark, v6 slipped.                                                    *)

(* The instance of FiniteSets that Palette brings is that of this module.  *)
LEMMA PaletteFinite == \A S : Palette!IsFiniteSet(S) <=> IsFiniteSet(S)
BY DEF Palette!IsFiniteSet, IsFiniteSet

LEMMA PaletteCardinality == \A S : Palette!Cardinality(S) = Cardinality(S)
BY DEF Palette!Cardinality, Cardinality

(* There is a list of the locales.                                         *)
LEMMA LangListed == Palette!PaletteAssumption => Palette!LangList \in Seq(Langs)
<1> SUFFICES ASSUME Palette!PaletteAssumption PROVE Palette!LangList \in Seq(Langs) OBVIOUS
<1>1. Cardinality(Langs) \in Nat /\ ExistsBijection(1..Cardinality(Langs), Langs)
  BY FS_CardinalityType, PaletteFinite DEF Palette!PaletteAssumption
<1>2. PICK n \in Nat : n = Cardinality(Langs) BY <1>1
<1>3. \E f \in [1..n -> Langs] : \A l \in Langs : \E i \in DOMAIN f : f[i] = l
  BY <1>1, <1>2 DEF ExistsBijection, Bijection, Surjection
<1>4. Palette!LangList \in [1..n -> Langs]
  BY <1>2, <1>3, PaletteCardinality DEF Palette!LangList
<1> QED BY <1>2, <1>4

(* What is listed is a sequence, of labels or of locales.                  *)
LEMMA LabelsListed ==
  ASSUME NEW l \in Langs
  PROVE  /\ Palette!LabelsIn(l) \in Seq(Palette!Labels)
         /\ \A i \in 1..Len(Palette!Commands) : Palette!LabelsIn(l)[i] \in Palette!Labels
<1>1. PICK n \in Nat : n = Len(Palette!Commands) BY DEF Palette!Commands
<1>2. \A i \in 1..n : Palette!LabelsIn(l)[i] \in Palette!Labels BY <1>1 DEF Palette!Labels
<1>3. Palette!LabelsIn(l) = [i \in 1..n |-> Palette!LabelsIn(l)[i]] BY <1>1 DEF Palette!LabelsIn
<1>4. Palette!LabelsIn(l) \in [1..n -> Palette!Labels] BY <1>2, <1>3
<1> QED BY <1>1, <1>2, <1>4

LEMMA ListedIsList ==
  ASSUME Palette!PaletteAssumption, NEW p, p.history \in Seq(Palette!Labels), NEW l \in Langs
  PROVE  IF p.choosing THEN Palette!Listed(p, l) \in Seq(Langs)
         ELSE Palette!Listed(p, l) \in Seq(Palette!Labels)
<1>1. Palette!FilteredLocales(p.query) \in Seq(Langs)
  <2>1. CASE p.query \in {Palette!Empty, Palette!Common}
    BY <2>1, LangListed DEF Palette!FilteredLocales
  <2>2. CASE p.query \notin {Palette!Empty, Palette!Common} /\ p.query \in Palette!LocaleNames
    <3>1. p.query.lang \in Langs BY <2>2 DEF Palette!LocaleNames, Palette!Label
    <3> QED BY <2>2, <3>1 DEF Palette!FilteredLocales
  <2>3. CASE p.query \notin {Palette!Empty, Palette!Common} /\ p.query \notin Palette!LocaleNames
    BY <2>3 DEF Palette!FilteredLocales
  <2> QED BY <2>1, <2>2, <2>3
<1>2. Palette!Filtered(p.query, p.history, l) \in Seq(Palette!Labels)
  <2>1. Palette!LabelsIn(l) \in Seq(Palette!Labels) BY LabelsListed
  <2>4. ASSUME NEW n \in {1, 2}
        PROVE  SubSeq(Palette!LabelsIn(l), 1, n) \in Seq(Palette!Labels)
    <3>1. n \in 1..Len(Palette!Commands) BY DEF Palette!Commands
    <3>2. \A i \in 1..n : Palette!LabelsIn(l)[i] \in Palette!Labels
      BY <3>1, LabelsListed DEF Palette!Commands
    <3> QED BY <3>2, SubSeqProperties
  <2>2. CASE \E i \in 1..Len(Palette!Commands) : p.query = Palette!LabelsIn(l)[i]
    <3>1. p.query \in Palette!Labels BY <2>2, LabelsListed
    <3>2. <<p.query>> \in Seq(Palette!Labels) BY <3>1
    <3> QED BY <2>1, <2>2, <2>4, <3>2 DEF Palette!Filtered
  <2>3. CASE ~\E i \in 1..Len(Palette!Commands) : p.query = Palette!LabelsIn(l)[i]
    <3>1. <<>> \in Seq(Palette!Labels) OBVIOUS
    <3> QED BY <2>1, <2>3, <2>4, <3>1 DEF Palette!Filtered
  <2> QED BY <2>2, <2>3
<1> QED BY <1>1, <1>2 DEF Palette!Listed

LEMMA ListedBounds ==
  ASSUME Palette!PaletteAssumption, NEW p, p.history \in Seq(Palette!Labels), NEW l \in Langs
  PROVE  /\ Len(Palette!Listed(p, l)) \in Nat
         /\ Palette!Listed(p, l) # <<>> => Len(Palette!Listed(p, l)) > 0
<1>1. PICK S : Palette!Listed(p, l) \in Seq(S) BY ListedIsList
<1> QED BY <1>1, EmptySeq

(* An entry that is listed among the commands is a label, and one among    *)
(* the locales a locale.                                                   *)
LEMMA EntryListed ==
  ASSUME Palette!PaletteAssumption, NEW p, p.history \in Seq(Palette!Labels), NEW l \in Langs,
         NEW i \in Nat, i < Len(Palette!Listed(p, l))
  PROVE  IF p.choosing THEN Palette!Listed(p, l)[i + 1] \in Langs
         ELSE Palette!Listed(p, l)[i + 1] \in Palette!Labels
<1>1. PICK s : s = Palette!Listed(p, l) OBVIOUS
<1>2. IF p.choosing THEN s \in Seq(Langs) ELSE s \in Seq(Palette!Labels) BY <1>1, ListedIsList
<1>3. i + 1 \in 1..Len(s) BY <1>1, <1>2
<1> QED BY <1>1, <1>2, <1>3, ElementOfSeq

(* With an entry taken out the others keep their order, and each is still  *)
(* there once.                                                             *)
LEMMA RemovedOnce ==
  ASSUME NEW h \in Seq(Palette!Labels), NEW k \in 1..Len(h),
         \A i, j \in DOMAIN h : h[i] = h[j] => i = j
  PROVE  /\ Palette!Without(h, k) \in Seq(Palette!Labels)
         /\ Len(Palette!Without(h, k)) = Len(h) - 1
         /\ \A i \in 1..(Len(h) - 1) : Palette!Without(h, k)[i] = h[IF i < k THEN i ELSE i + 1]
         /\ \A i, j \in DOMAIN Palette!Without(h, k) :
              Palette!Without(h, k)[i] = Palette!Without(h, k)[j] => i = j
<1>1. PICK n \in Nat : n = Len(h) /\ DOMAIN h = 1..n /\ k \in 1..n OBVIOUS
<1>2. PICK r : r = [i \in 1..(n - 1) |-> h[IF i < k THEN i ELSE i + 1]] OBVIOUS
<1>3. \A i \in 1..(n - 1) : r[i] = h[IF i < k THEN i ELSE i + 1] BY <1>2
<1>4. \A i \in 1..(n - 1) : r[i] \in Palette!Labels
  <2> SUFFICES ASSUME NEW i \in 1..(n - 1) PROVE r[i] \in Palette!Labels OBVIOUS
  <2>1. PICK a \in 1..n : a = IF i < k THEN i ELSE i + 1 BY <1>1
  <2> QED BY <1>1, <1>3, <2>1
<1>5. r \in [1..(n - 1) -> Palette!Labels] BY <1>2, <1>4
<1>6. r \in Seq(Palette!Labels) /\ Len(r) = n - 1 /\ DOMAIN r = 1..(n - 1)
  <2>1. n - 1 \in Nat BY <1>1
  <2> QED BY <1>5, <2>1
<1>7. \A i, j \in 1..(n - 1) : r[i] = r[j] => i = j
  <2> SUFFICES ASSUME NEW i \in 1..(n - 1), NEW j \in 1..(n - 1), r[i] = r[j] PROVE i = j
    OBVIOUS
  <2>1. PICK a \in 1..n : a = IF i < k THEN i ELSE i + 1 BY <1>1
  <2>2. PICK b \in 1..n : b = IF j < k THEN j ELSE j + 1 BY <1>1
  <2>3. h[a] = h[b] BY <1>3, <2>1, <2>2
  <2>4. a = b BY <1>1, <2>3
  <2> QED BY <1>1, <2>1, <2>2, <2>4
<1>8. Palette!Without(h, k) = r BY <1>1, <1>2 DEF Palette!Without
<1> QED BY <1>1, <1>3, <1>6, <1>7, <1>8

(* Without a label the history is no longer than before, and every label   *)
(* is still there once, but for this one.                                  *)
LEMMA DroppedOnce ==
  ASSUME NEW h \in Seq(Palette!Labels), NEW x, \A i, j \in DOMAIN h : h[i] = h[j] => i = j
  PROVE  /\ Palette!Dropped(h, x) \in Seq(Palette!Labels)
         /\ Len(Palette!Dropped(h, x)) <= Len(h)
         /\ \A i, j \in DOMAIN Palette!Dropped(h, x) :
              Palette!Dropped(h, x)[i] = Palette!Dropped(h, x)[j] => i = j
         /\ \A i \in DOMAIN Palette!Dropped(h, x) : Palette!Dropped(h, x)[i] # x
<1>1. PICK n \in Nat : n = Len(h) /\ DOMAIN h = 1..n OBVIOUS
<1>2. CASE ~\E i \in DOMAIN h : h[i] = x
  <2>1. Palette!Dropped(h, x) = h BY <1>2 DEF Palette!Dropped
  <2>2. \A i \in DOMAIN h : h[i] # x BY <1>2
  <2> QED BY <1>1, <2>1, <2>2
<1>3. CASE \E i \in DOMAIN h : h[i] = x
  <2>1. PICK k : k = CHOOSE i \in DOMAIN h : h[i] = x OBVIOUS
  <2>2. k \in 1..n /\ h[k] = x BY <1>1, <1>3, <2>1
  <2>3. PICK r : r = Palette!Without(h, k) OBVIOUS
  <2>4. /\ r \in Seq(Palette!Labels) /\ Len(r) = n - 1
        /\ \A i \in 1..(n - 1) : r[i] = h[IF i < k THEN i ELSE i + 1]
        /\ \A i, j \in DOMAIN r : r[i] = r[j] => i = j
    BY <1>1, <2>2, <2>3, RemovedOnce
  <2>5. ASSUME NEW i \in DOMAIN r PROVE r[i] # x
    <3>1. i \in 1..(n - 1) BY <2>4
    <3>2. PICK a \in 1..n : a = IF i < k THEN i ELSE i + 1 BY <1>1, <2>2, <3>1
    <3>3. r[i] = h[a] /\ a # k BY <1>1, <2>2, <2>4, <3>1, <3>2
    <3> QED BY <1>1, <2>2, <3>3
  <2>6. Palette!Dropped(h, x) = r BY <1>3, <2>1, <2>3 DEF Palette!Dropped
  <2> QED BY <1>1, <2>4, <2>5, <2>6
<1> QED BY <1>2, <1>3

(* save_history keeps every label once, and no more of them than it may.   *)
LEMMA RemembersOnce ==
  ASSUME Palette!PaletteAssumption, NEW h \in Seq(Palette!Labels), NEW x \in Palette!Labels,
         \A i, j \in DOMAIN h : h[i] = h[j] => i = j
  PROVE  /\ Palette!Remember(h, x) \in Seq(Palette!Labels)
         /\ Len(Palette!Remember(h, x)) <= MaxHistory
         /\ \A i, j \in DOMAIN Palette!Remember(h, x) :
              Palette!Remember(h, x)[i] = Palette!Remember(h, x)[j] => i = j
<1>1. PICK d : d = Palette!Dropped(h, x) OBVIOUS
<1>2. /\ d \in Seq(Palette!Labels) /\ \A i, j \in DOMAIN d : d[i] = d[j] => i = j
      /\ \A i \in DOMAIN d : d[i] # x
  BY <1>1, DroppedOnce
<1>3. PICK n \in Nat : n = Len(d) /\ DOMAIN d = 1..n BY <1>2
<1>4. PICK a : a = <<x>> \o d OBVIOUS
<1>5. /\ a \in Seq(Palette!Labels) /\ Len(a) = n + 1
      /\ \A i \in 1..(n + 1) : a[i] = IF i <= 1 THEN x ELSE d[i - 1]
  <2>1. PICK o : o = <<x>> OBVIOUS
  <2>2. o \in Seq(Palette!Labels) /\ Len(o) = 1 /\ o[1] = x BY <2>1
  <2>3. /\ o \o d \in Seq(Palette!Labels) /\ Len(o \o d) = Len(o) + Len(d)
        /\ \A i \in 1..(Len(o) + Len(d)) :
             (o \o d)[i] = IF i <= Len(o) THEN o[i] ELSE d[i - Len(o)]
    <3>1. o \in Seq(Palette!Labels) /\ d \in Seq(Palette!Labels) BY <1>2, <2>2
    <3> QED BY <3>1, ConcatProperties
  <2>4. a = o \o d BY <1>4, <2>1
  <2>5. Len(o) + Len(d) = n + 1 BY <1>3, <2>2
  <2>6. ASSUME NEW i \in 1..(n + 1) PROVE a[i] = IF i <= 1 THEN x ELSE d[i - 1]
    <3>1. a[i] = IF i <= 1 THEN o[i] ELSE d[i - 1] BY <2>2, <2>3, <2>4, <2>5
    <3> QED BY <2>2, <3>1
  <2> QED BY <2>3, <2>4, <2>5, <2>6
<1>6. \A i, j \in 1..(n + 1) : a[i] = a[j] => i = j
  <2> SUFFICES ASSUME NEW i \in 1..(n + 1), NEW j \in 1..(n + 1), a[i] = a[j] PROVE i = j
    OBVIOUS
  <2>1. CASE i = 1 /\ j = 1 BY <2>1
  <2>2. CASE i = 1 /\ j # 1
    <3>1. a[i] = x /\ a[j] = d[j - 1] /\ j - 1 \in 1..n BY <1>5, <2>2
    <3> QED BY <1>2, <1>3, <3>1
  <2>3. CASE i # 1 /\ j = 1
    <3>1. a[j] = x /\ a[i] = d[i - 1] /\ i - 1 \in 1..n BY <1>5, <2>3
    <3> QED BY <1>2, <1>3, <3>1
  <2>4. CASE i # 1 /\ j # 1
    <3>1. a[i] = d[i - 1] /\ i - 1 \in 1..n BY <1>5, <2>4
    <3>2. a[j] = d[j - 1] /\ j - 1 \in 1..n BY <1>5, <2>4
    <3>3. i - 1 = j - 1 BY <1>2, <1>3, <3>1, <3>2
    <3> QED BY <3>3
  <2> QED BY <2>1, <2>2, <2>3, <2>4
<1>7. PICK m : m = IF n + 1 < MaxHistory THEN n + 1 ELSE MaxHistory OBVIOUS
<1>8. m \in 1..(n + 1) /\ m <= MaxHistory BY <1>3, <1>7 DEF Palette!PaletteAssumption
<1>9. PICK r : r = SubSeq(a, 1, m) OBVIOUS
<1>10. r \in Seq(Palette!Labels) /\ Len(r) = m /\ \A i \in 1..m : r[i] = a[i]
  <2>1. \A i \in 1..m : a[i] \in Palette!Labels BY <1>5, <1>8
  <2>2. 1 \in Int /\ m \in Int BY <1>8
  <2>3. /\ SubSeq(a, 1, m) \in Seq(Palette!Labels)
        /\ Len(SubSeq(a, 1, m)) = IF 1 <= m THEN m - 1 + 1 ELSE 0
        /\ \A i \in 1..(m - 1 + 1) : SubSeq(a, 1, m)[i] = a[1 + i - 1]
    BY <2>1, <2>2, SubSeqProperties
  <2> QED BY <1>8, <1>9, <2>3
<1>11. Palette!Remember(h, x) = r BY <1>1, <1>4, <1>5, <1>7, <1>9 DEF Palette!Remember
<1>12. DOMAIN r = 1..m BY <1>8, <1>10
<1>13. \A i, j \in 1..m : r[i] = r[j] => i = j BY <1>6, <1>8, <1>10
<1> QED BY <1>8, <1>10, <1>11, <1>12, <1>13

(* The theme is kept by a step that sets one, or none.                     *)
LEMMA ThemeSets ==
  ASSUME Palette!ThemeKept, NEW t \in {"System", "Light", "Dark"}, Palette!ThemeSet(t)
  PROVE  Palette!ThemeKept'
<1>1. PICK d : d = [v5 EXCEPT !.page = IF t = "System" THEN v5.system ELSE t = "Dark",
                                !.heard = (t = "System")]
  OBVIOUS
<1>2. PICK b \in BOOLEAN : b = IF t = "System" THEN v5.system ELSE t = "Dark"
  BY DEF Palette!ThemeKept
<1>3. /\ d \in [system : BOOLEAN, page : BOOLEAN, heard : BOOLEAN]
      /\ d.heard = (t = "System") /\ d.page = b /\ d.system = v5.system
  BY <1>1, <1>2 DEF Palette!ThemeKept
<1>4. v4' = t /\ v5' = d BY <1>1 DEF Palette!ThemeSet
<1> QED BY <1>2, <1>3, <1>4 DEF Palette!ThemeKept, Palette!PageFollowsTheTheme

LEMMA ThemeStays ==
  ASSUME Palette!ThemeKept, UNCHANGED <<v4, v5>>
  PROVE  Palette!ThemeKept'
BY DEF Palette!ThemeKept, Palette!PageFollowsTheTheme

LEMMA HistoryStays ==
  ASSUME Palette!HistoryKept, v2'.history = v2.history, v3' = v3
  PROVE  Palette!HistoryKept'
BY DEF Palette!HistoryKept

(* The selection is kept when it is the first entry, or one of the list.   *)
LEMMA SelectionHolds ==
  ASSUME Palette!PaletteAssumption, NEW p \in Palette!Palettes, v2' = p, NEW l \in Langs,
    v1' = l,
         p.open /\ ~v6' =>
           p.selected = 0 \/ p.selected < Len(Palette!Listed(p, l))
  PROVE  Palette!SelectionKept'
BY DEF Palette!SelectionKept, Palette!Listed, Palette!Filtered, Palette!FilteredLocales,
  Palette!Shared, Palette!SharedTexts, Palette!LabelsIn

LEMMA ResetClears ==
  ASSUME NEW p \in Palette!Palettes
  PROVE  /\ Palette!Reset(p) \in Palette!Palettes /\ Palette!Reset(p).open = p.open
         /\ Palette!Reset(p).selected = 0
         /\ Palette!Reset(p).history = p.history
<1>1. Palette!Empty \in Palette!Queries BY DEF Palette!Queries
<1>2. PICK e \in Palette!Queries : e = Palette!Empty BY <1>1
<1>3. PICK r : r = [p EXCEPT !.query = e, !.selected = 0, !.choosing = FALSE] OBVIOUS
<1>4. r \in Palette!Palettes BY <1>3 DEF Palette!Palettes
<1>5. r.open = p.open /\ r.selected = 0 /\ r.history = p.history BY <1>3 DEF Palette!Palettes
<1>6. Palette!Reset(p) = r BY <1>2, <1>3 DEF Palette!Reset
<1> QED BY <1>4, <1>5, <1>6

(* A step of the palette that leaves the history and the theme alone, and  *)
(* the selection at the first entry, on one of the list, or out of use.    *)
LEMMA OffersOn ==
  ASSUME Palette!PaletteAssumption, Palette!Offering, NEW p \in Palette!Palettes, v2' = p,
         UNCHANGED <<v1, v3, v4, v5>>, p.history = v2.history,
         p.open /\ ~v6' =>
           p.selected = 0 \/ p.selected < Len(Palette!Listed(p, v1))
  PROVE  Palette!Offering'
<1>1. Palette!HistoryKept' BY HistoryStays DEF Palette!Offering
<1>2. Palette!ThemeKept' BY ThemeStays DEF Palette!Offering
<1>3. v1 \in Langs BY DEF Palette!Offering, Palette!SelectionKept
<1>4. Palette!SelectionKept' BY <1>3, SelectionHolds
<1> QED BY <1>1, <1>2, <1>4 DEF Palette!Offering

LEMMA NextThemes == Palette!ThemeKept => Palette!NextTheme \in {"System", "Light", "Dark"}
<1> SUFFICES ASSUME Palette!ThemeKept
             PROVE Palette!NextTheme \in {"System", "Light", "Dark"} OBVIOUS
<1>1. v4 \in {"System", "Light", "Dark"} BY DEF Palette!ThemeKept
<1>2. CASE v4 = "System" BY <1>2 DEF Palette!NextTheme
<1>3. CASE v4 = "Light" BY <1>3 DEF Palette!NextTheme
<1>4. CASE v4 = "Dark" BY <1>4 DEF Palette!NextTheme
<1> QED BY <1>1, <1>2, <1>3, <1>4

LEMMA ThemeActions ==
  ASSUME Palette!PaletteAssumption, Palette!Offering,
         Palette!ToggleTheme \/ Palette!SystemTurns
           \/ \E t \in {"System", "Light", "Dark"} : Palette!ChooseTheme(t)
  PROVE  Palette!Offering'
<1>1. UNCHANGED <<v1, v2, v3, v6>>
  BY DEF Palette!ToggleTheme, Palette!SystemTurns, Palette!ChooseTheme
<1>2. Palette!HistoryKept' BY <1>1, HistoryStays DEF Palette!Offering
<1>3. Palette!SelectionKept'
  BY <1>1 DEF Palette!Offering, Palette!SelectionKept, Palette!Listed, Palette!Filtered,
    Palette!FilteredLocales
<1>4. CASE Palette!ToggleTheme
  <2>1. PICK t \in {"System", "Light", "Dark"} : t = Palette!NextTheme
    BY NextThemes DEF Palette!Offering
  <2>2. Palette!ThemeKept' BY <1>4, <2>1, ThemeSets DEF Palette!Offering, Palette!ToggleTheme
  <2> QED BY <1>2, <1>3, <2>2 DEF Palette!Offering
<1>5. CASE \E t \in {"System", "Light", "Dark"} : Palette!ChooseTheme(t)
  <2>1. Palette!ThemeKept' BY <1>5, ThemeSets DEF Palette!Offering, Palette!ChooseTheme
  <2> QED BY <1>2, <1>3, <2>1 DEF Palette!Offering
<1>6. CASE Palette!SystemTurns
  <2>1. Palette!ThemeKept'
    BY <1>6 DEF Palette!Offering, Palette!ThemeKept, Palette!PageFollowsTheTheme,
      Palette!SystemTurns
  <2> QED BY <1>2, <1>3, <2>1 DEF Palette!Offering
<1> QED BY <1>4, <1>5, <1>6

LEMMA OpensAndCloses ==
  ASSUME Palette!PaletteAssumption, Palette!Offering,
    Palette!OpenPalette \/ Palette!ClickBeside \/ Palette!Escape
  PROVE  Palette!Offering'
<1>1. v2 \in Palette!Palettes /\ UNCHANGED <<v1, v3, v4, v5>>
  BY DEF Palette!Offering, Palette!SelectionKept, Palette!OpenPalette, Palette!ClickBeside,
    Palette!Escape
<1>2. PICK r : r = Palette!Reset(v2) OBVIOUS
<1>3. r \in Palette!Palettes /\ r.open = v2.open /\ r.selected = 0 /\ r.history = v2.history
  BY <1>1, <1>2, ResetClears
<1>4. CASE Palette!OpenPalette
  <2>1. PICK p : p = [r EXCEPT !.open = TRUE] OBVIOUS
  <2>2. p \in Palette!Palettes /\ p.selected = 0 /\ p.history = v2.history
    BY <1>3, <2>1 DEF Palette!Palettes
  <2>3. v2' = p BY <1>2, <1>4, <2>1 DEF Palette!OpenPalette
  <2> QED BY <1>1, <2>2, <2>3, OffersOn
<1>5. CASE v2' = [v2 EXCEPT !.open = FALSE]
  <2>1. PICK p : p = [v2 EXCEPT !.open = FALSE] OBVIOUS
  <2>2. p \in Palette!Palettes /\ ~p.open /\ p.history = v2.history
    BY <1>1, <2>1 DEF Palette!Palettes
  <2> QED BY <1>1, <1>5, <2>1, <2>2, OffersOn
<1>6. CASE v2' = Palette!Reset(v2) BY <1>1, <1>2, <1>3, <1>6, OffersOn
<1> QED BY <1>4, <1>5, <1>6 DEF Palette!ClickBeside, Palette!Escape

LEMMA Selects ==
  ASSUME Palette!PaletteAssumption, Palette!Offering,
         \/ Palette!Down \/ Palette!Up \/ \E q \in Palette!Queries : Palette!Type(q)
         \/ \E i \in 0..Len(Palette!Listed(v2, v1)) : Palette!Hover(i)
  PROVE  Palette!Offering'
<1>1. /\ v2 \in Palette!Palettes /\ v1 \in Langs /\ UNCHANGED <<v1, v3, v4, v5>>
      /\ v2.history \in Seq(Palette!Labels)
  BY DEF Palette!Offering, Palette!SelectionKept, Palette!Palettes, Palette!Down, Palette!Up,
    Palette!Type, Palette!Hover
<1>2. PICK n \in Nat : n = Len(Palette!Listed(v2, v1)) /\ (Palette!Listed(v2, v1) # <<>> => n > 0)
  BY <1>1, ListedBounds
<1>3. CASE \E q \in Palette!Queries : Palette!Type(q)
  <2>1. PICK q \in Palette!Queries : Palette!Type(q) BY <1>3
  <2>2. PICK p : p = [v2 EXCEPT !.query = q, !.selected = 0] OBVIOUS
  <2>3. p \in Palette!Palettes /\ p.selected = 0 /\ p.history = v2.history
    BY <1>1, <2>2 DEF Palette!Palettes
  <2>4. v2' = p BY <2>1, <2>2 DEF Palette!Type
  <2> QED BY <1>1, <2>3, <2>4, OffersOn
<1>4. ASSUME NEW k \in Nat, v2' = [v2 EXCEPT !.selected = k],
             v2.open /\ ~v6' => k < n \/ k = 0
      PROVE  Palette!Offering'
  <2>1. PICK p : p = [v2 EXCEPT !.selected = k] OBVIOUS
  <2>2. /\ p \in Palette!Palettes /\ p.selected = k /\ p.history = v2.history
        /\ p.open = v2.open /\ p.query = v2.query /\ p.choosing = v2.choosing
    BY <1>1, <2>1 DEF Palette!Palettes
  <2>3. Palette!Listed(p, v1) = Palette!Listed(v2, v1) BY <2>2 DEF Palette!Listed
  <2> QED BY <1>1, <1>2, <1>4, <2>1, <2>2, <2>3, OffersOn
<1>5. CASE Palette!Down
  <2>1. PICK k : k = IF v2.selected + 1 < n - 1 THEN v2.selected + 1 ELSE n - 1
    OBVIOUS
  <2>2. v2' = [v2 EXCEPT !.selected = k] /\ n > 0 BY <1>2, <1>5, <2>1 DEF Palette!Down
  <2>3. k \in Nat /\ k < n BY <1>1, <2>1, <2>2 DEF Palette!Palettes
  <2> QED BY <1>4, <2>2, <2>3
<1>6. CASE Palette!Up
  <2>1. PICK k : k = v2.selected - 1 OBVIOUS
  <2>2. v2' = [v2 EXCEPT !.selected = k] /\ v6' = v6 /\ v2.selected > 0
    BY <1>6, <2>1 DEF Palette!Up
  <2>3. k \in Nat /\ k < v2.selected BY <1>1, <2>1, <2>2 DEF Palette!Palettes
  <2>4. v2.open /\ ~v6 => v2.selected < n
    BY <1>2, <2>2 DEF Palette!Offering, Palette!SelectionKept
  <2>5. v2.open /\ ~v6' => k < n
    BY <1>1, <1>2, <2>2, <2>3, <2>4 DEF Palette!Palettes
  <2> QED BY <1>4, <2>2, <2>3, <2>5
<1>7. CASE \E i \in 0..Len(Palette!Listed(v2, v1)) : Palette!Hover(i)
  <2>1. PICK i \in 0..n : Palette!Hover(i) BY <1>2, <1>7
  <2>2. i \in Nat /\ i < n /\ v2' = [v2 EXCEPT !.selected = i]
    BY <1>2, <2>1 DEF Palette!Hover
  <2> QED BY <1>4, <2>2
<1> QED BY <1>3, <1>5, <1>6, <1>7

(* An entry is run: it is remembered, and recalled, acts or does nothing.  *)
LEMMA EntryRuns ==
  ASSUME Palette!PaletteAssumption, Palette!Offering, NEW i \in Nat, Palette!RunEntry(i)
  PROVE  Palette!Offering'
<1>1. /\ v2 \in Palette!Palettes /\ v1 \in Langs /\ v1' = v1
      /\ v2.history \in Seq(Palette!Labels)
  BY DEF Palette!Offering, Palette!SelectionKept, Palette!Palettes, Palette!RunEntry
<1>2. PICK x : x = Palette!Listed(v2, v1)[i + 1] OBVIOUS
<1>3. x \in Palette!Labels BY <1>1, <1>2, EntryListed DEF Palette!RunEntry
<1>4. PICK h : h = Palette!Remember(v2.history, x) OBVIOUS
<1>5. /\ h \in Seq(Palette!Labels) /\ Len(h) <= MaxHistory
      /\ \A m, n \in DOMAIN h : h[m] = h[n] => m = n
  BY <1>1, <1>3, <1>4, RemembersOnce DEF Palette!Offering, Palette!HistoryKept
<1>6. PICK p : p = [v2 EXCEPT !.history = h] OBVIOUS
<1>7. /\ p \in Palette!Palettes /\ p.history = h /\ p.open = v2.open /\ p.query = v2.query
      /\ p.choosing = v2.choosing /\ p.selected = v2.selected
  BY <1>1, <1>5, <1>6 DEF Palette!Palettes
<1>8. v3' = h BY <1>2, <1>4, <1>6, <1>7 DEF Palette!RunEntry
<1>9. ASSUME NEW q \in Palette!Palettes, v2' = q, q.history = h,
             UNCHANGED <<v4, v5>> \/ \E t \in {"System", "Light", "Dark"} : Palette!ThemeSet(t),
             q.open /\ ~v6' =>
               q.selected = 0 \/ q.selected < Len(Palette!Listed(q, v1))
      PROVE  Palette!Offering'
  <2>1. Palette!HistoryKept' BY <1>5, <1>8, <1>9 DEF Palette!HistoryKept
  <2>2. Palette!ThemeKept' BY <1>9, ThemeStays, ThemeSets DEF Palette!Offering
  <2>3. Palette!SelectionKept' BY <1>1, <1>9, SelectionHolds
  <2> QED BY <2>1, <2>2, <2>3 DEF Palette!Offering
<1>10. CASE v2.query = Palette!Empty
  <2>1. PICK q : q = [p EXCEPT !.query = x] OBVIOUS
  <2>2. q \in Palette!Palettes /\ q.history = h
    BY <1>3, <1>7, <2>1 DEF Palette!Palettes, Palette!Queries
  <2>3. v2' = q /\ v6' = TRUE /\ UNCHANGED <<v4, v5>>
    BY <1>2, <1>4, <1>6, <1>10, <2>1 DEF Palette!RunEntry
  <2> QED BY <1>9, <2>2, <2>3
<1>11. CASE v2.query # Palette!Empty /\ x.of = "toggle_theme"
  <2>1. PICK q : q = [p EXCEPT !.open = FALSE] OBVIOUS
  <2>2. q \in Palette!Palettes /\ q.history = h /\ ~q.open BY <1>7, <2>1 DEF Palette!Palettes
  <2>3. v2' = q /\ Palette!ThemeSet(Palette!NextTheme)
    BY <1>2, <1>4, <1>6, <1>11, <2>1 DEF Palette!RunEntry
  <2>4. Palette!NextTheme \in {"System", "Light", "Dark"} BY NextThemes DEF Palette!Offering
  <2> QED BY <1>9, <2>2, <2>3, <2>4
<1>12. CASE v2.query # Palette!Empty /\ x.of = "change_language"
  <2>1. PICK r : r = Palette!Reset(p) OBVIOUS
  <2>2. r \in Palette!Palettes /\ r.selected = 0 /\ r.history = h BY <1>7, <2>1, ResetClears
  <2>3. PICK q : q = [r EXCEPT !.choosing = TRUE] OBVIOUS
  <2>4. q \in Palette!Palettes /\ q.selected = 0 /\ q.history = h
    BY <2>2, <2>3 DEF Palette!Palettes
  <2>5. v2' = q /\ UNCHANGED <<v4, v5>>
    BY <1>2, <1>4, <1>6, <1>12, <2>1, <2>3 DEF Palette!RunEntry
  <2> QED BY <1>9, <2>4, <2>5
<1>13. CASE v2.query # Palette!Empty /\ x.of \notin {"toggle_theme", "change_language"}
  <2>1. v2' = p /\ UNCHANGED <<v4, v5, v6>>
    BY <1>2, <1>4, <1>6, <1>13 DEF Palette!RunEntry
  <2>2. ~v2.choosing BY DEF Palette!RunEntry
  <2>3. Palette!Listed(p, v1) = Palette!Listed(v2, v1)
    BY <1>7, <1>13, <2>2 DEF Palette!Listed, Palette!Filtered
  <2>4. p.open /\ ~v6' => p.selected = 0 \/ p.selected < Len(Palette!Listed(p, v1))
    BY <1>7, <2>1, <2>3 DEF Palette!Offering, Palette!SelectionKept
  <2> QED BY <1>7, <1>9, <2>1, <2>4
<1> QED BY <1>10, <1>11, <1>12, <1>13

LEMMA LocalePicked ==
  ASSUME Palette!PaletteAssumption, Palette!Offering, NEW i \in Nat, Palette!PickLocale(i)
  PROVE  Palette!Offering'
<1>1. /\ v2 \in Palette!Palettes /\ v1 \in Langs /\ v2.choosing
      /\ v2.history \in Seq(Palette!Labels) /\ UNCHANGED <<v3, v4, v5>>
  BY DEF Palette!Offering, Palette!SelectionKept, Palette!Palettes, Palette!PickLocale
<1>2. PICK l \in Langs : l = v1' BY <1>1, EntryListed DEF Palette!PickLocale
<1>3. PICK r : r = Palette!Reset(v2) OBVIOUS
<1>4. r \in Palette!Palettes /\ r.selected = 0 /\ r.history = v2.history
  BY <1>1, <1>3, ResetClears
<1>5. PICK q : q = [r EXCEPT !.open = FALSE] OBVIOUS
<1>6. q \in Palette!Palettes /\ q.selected = 0 /\ q.history = v2.history
  BY <1>4, <1>5 DEF Palette!Palettes
<1>7. v2' = q BY <1>3, <1>5 DEF Palette!PickLocale
<1>8. Palette!HistoryKept' BY <1>1, <1>6, <1>7, HistoryStays DEF Palette!Offering
<1>9. Palette!ThemeKept' BY <1>1, ThemeStays DEF Palette!Offering
<1>10. Palette!SelectionKept' BY <1>2, <1>6, <1>7, SelectionHolds
<1> QED BY <1>8, <1>9, <1>10 DEF Palette!Offering

LEMMA EntryDeleted ==
  ASSUME Palette!PaletteAssumption, Palette!Offering, Palette!DeleteEntry
  PROVE  Palette!Offering'
<1>1. /\ v2 \in Palette!Palettes /\ v1 \in Langs /\ UNCHANGED <<v1, v4, v5>>
      /\ v2.history \in Seq(Palette!Labels)
  BY DEF Palette!Offering, Palette!SelectionKept, Palette!Palettes, Palette!DeleteEntry
<1>2. PICK k : k = v2.selected + 1 OBVIOUS
<1>3. k \in 1..Len(v2.history) BY <1>1, <1>2 DEF Palette!Palettes, Palette!DeleteEntry
<1>4. PICK h : h = Palette!Without(v2.history, k) OBVIOUS
<1>5. /\ h \in Seq(Palette!Labels) /\ Len(h) = Len(v2.history) - 1
      /\ \A m, n \in DOMAIN h : h[m] = h[n] => m = n
  BY <1>1, <1>3, <1>4, RemovedOnce DEF Palette!Offering, Palette!HistoryKept
<1>6. PICK q : q = [v2 EXCEPT !.history = h] OBVIOUS
<1>7. q \in Palette!Palettes /\ q.history = h BY <1>1, <1>5, <1>6 DEF Palette!Palettes
<1>8. v2' = q /\ v3' = h /\ v6' = TRUE
  BY <1>2, <1>4, <1>6, <1>7 DEF Palette!DeleteEntry
<1>9. Len(h) <= MaxHistory
  BY <1>1, <1>5 DEF Palette!Offering, Palette!HistoryKept, Palette!PaletteAssumption
<1>10. Palette!HistoryKept' BY <1>5, <1>7, <1>8, <1>9 DEF Palette!HistoryKept
<1>11. Palette!ThemeKept' BY <1>1, ThemeStays DEF Palette!Offering
<1>12. Palette!SelectionKept' BY <1>1, <1>7, <1>8, SelectionHolds
<1> QED BY <1>10, <1>11, <1>12 DEF Palette!Offering

LEMMA Restarts ==
  ASSUME Palette!PaletteAssumption, Palette!Offering, Palette!Restart
  PROVE  Palette!Offering'
<1>1. /\ v2 \in Palette!Palettes /\ v1 \in Langs /\ UNCHANGED <<v1, v3>>
      /\ v2.history \in Seq(Palette!Labels) /\ v3 = v2.history
  BY DEF Palette!Offering, Palette!HistoryKept, Palette!SelectionKept, Palette!Palettes,
    Palette!Restart
<1>2. PICK r : r = Palette!Reset(v2) OBVIOUS
<1>3. r \in Palette!Palettes /\ r.selected = 0 /\ r.history = v2.history
  BY <1>1, <1>2, ResetClears
<1>4. PICK q : q = [r EXCEPT !.open = FALSE, !.history = v3] OBVIOUS
<1>5. q \in Palette!Palettes /\ q.selected = 0 /\ q.history = v2.history
  BY <1>1, <1>3, <1>4 DEF Palette!Palettes
<1>6. v2' = q BY <1>2, <1>4 DEF Palette!Restart
<1>7. Palette!HistoryKept' BY <1>1, <1>5, <1>6, HistoryStays DEF Palette!Offering
<1>8. Palette!ThemeKept' BY ThemeSets DEF Palette!Offering, Palette!Restart
<1>9. Palette!SelectionKept' BY <1>1, <1>5, <1>6, SelectionHolds
<1> QED BY <1>7, <1>8, <1>9 DEF Palette!Offering

(* A language arrives: the list keeps its length or is out of use.         *)
LEMMA LanguageArrives ==
  ASSUME Palette!PaletteAssumption, Palette!Offering, NEW l \in Langs, Palette!LanguageChanges(l)
  PROVE  Palette!Offering'
<1>1. /\ v2 \in Palette!Palettes /\ v1 \in Langs /\ v1' = l /\ UNCHANGED <<v2, v3, v4, v5>>
      /\ v2.history \in Seq(Palette!Labels)
  BY DEF Palette!Offering, Palette!SelectionKept, Palette!Palettes, Palette!LanguageChanges
<1>2. PICK m \in Nat : m = Len(Palette!Listed(v2, v1)) BY <1>1, ListedBounds
<1>3. PICK n \in Nat : n = Len(Palette!Listed(v2, l)) BY <1>1, ListedBounds
<1>4. v6' = (v6 \/ n < m) BY <1>2, <1>3 DEF Palette!LanguageChanges
<1>5. v2.open /\ ~v6 => v2.selected = 0 \/ v2.selected < m
  BY <1>2 DEF Palette!Offering, Palette!SelectionKept
<1>6. v2.selected \in Nat BY <1>1 DEF Palette!Palettes
<1>7. v2.open /\ ~v6' => v2.selected = 0 \/ v2.selected < n
  <2>1. ~v6' => ~v6 /\ ~(n < m) BY ONLY <1>4, Zenon
  <2> QED BY <1>5, <1>6, <2>1
<1>8. Palette!HistoryKept' BY <1>1, HistoryStays DEF Palette!Offering
<1>9. Palette!ThemeKept' BY <1>1, ThemeStays DEF Palette!Offering
<1>10. PICK p \in Palette!Palettes : p = v2 BY <1>1
<1>11. Palette!SelectionKept' BY <1>1, <1>3, <1>7, <1>10, SelectionHolds
<1> QED BY <1>8, <1>9, <1>11 DEF Palette!Offering

LEMMA OfferingStays ==
  ASSUME Palette!Offering, UNCHANGED Palette!vars
  PROVE  Palette!Offering'
BY DEF Palette!Offering, Palette!HistoryKept, Palette!SelectionKept, Palette!ThemeKept,
  Palette!PageFollowsTheTheme, Palette!Listed, Palette!Filtered,
       Palette!FilteredLocales, Palette!vars

LEMMA OfferingStarts ==
  ASSUME Palette!PaletteAssumption, Palette!Init
  PROVE  Palette!Offering
<1>1. v3 \in Seq(Palette!Labels) /\ Len(v3) <= 1
  <2>1. CASE v3 = <<>> BY <2>1
  <2>2. CASE \E x \in Palette!Labels : v3 = <<x>>
    <3>1. PICK x \in Palette!Labels : v3 = <<x>> BY <2>2
    <3> QED BY <3>1
  <2> QED BY <2>1, <2>2 DEF Palette!Init
<1>2. Palette!HistoryKept
  <2>1. v2.history = v3 BY DEF Palette!Init
  <2>2. DOMAIN v3 = 1..Len(v3) /\ Len(v3) \in Nat BY <1>1
  <2>3. \A i, j \in DOMAIN v3 : i = j BY <1>1, <2>2
  <2>4. Len(v3) <= MaxHistory BY <1>1, <2>2 DEF Palette!PaletteAssumption
  <2> QED BY <1>1, <2>1, <2>3, <2>4 DEF Palette!HistoryKept
<1>3. Palette!SelectionKept
  <2>1. Palette!Empty \in Palette!Queries BY DEF Palette!Queries
  <2>2. v2 \in Palette!Palettes /\ ~v2.open
    <3>1. PICK e \in Palette!Queries : e = Palette!Empty BY <2>1
    <3>2. v2 = [open |-> FALSE, query |-> e, selected |-> 0, choosing |-> FALSE,
                     history |-> v3]
      BY <3>1 DEF Palette!Init
    <3> QED BY <1>1, <3>2 DEF Palette!Palettes
  <2> QED BY <2>2 DEF Palette!SelectionKept, Palette!Init
<1>4. Palette!ThemeKept
  <2>1. v4 = "System" BY DEF Palette!Init
  <2>2. PICK d \in BOOLEAN : v5 = [system |-> d, page |-> d, heard |-> TRUE] BY DEF Palette!Init
  <2> QED BY <2>1, <2>2 DEF Palette!ThemeKept, Palette!PageFollowsTheTheme
<1> QED BY <1>2, <1>3, <1>4 DEF Palette!Offering

LEMMA OfferingStep ==
  ASSUME Palette!PaletteAssumption, Palette!Offering, Palette!PaletteNext
  PROVE  Palette!Offering'
<1>1. Len(Palette!Listed(v2, v1)) \in Nat /\ v2.selected \in Nat
  <2>1. v2 \in Palette!Palettes /\ v2.history \in Seq(Palette!Labels) /\ v1 \in Langs
    BY DEF Palette!Offering, Palette!SelectionKept, Palette!Palettes
  <2> QED BY <2>1, ListedBounds DEF Palette!Palettes
<1>2. ASSUME NEW i \in 0..Len(Palette!Listed(v2, v1)),
             Palette!RunEntry(i) \/ Palette!PickLocale(i)
      PROVE  Palette!Offering'
  <2>1. i \in Nat BY <1>1
  <2> QED BY <1>2, <2>1, EntryRuns, LocalePicked
<1>3. CASE Palette!Enter BY <1>1, <1>3, EntryRuns DEF Palette!Enter
<1> QED
  BY <1>2, <1>3, ThemeActions, OpensAndCloses, Selects, EntryDeleted, LanguageArrives, Restarts
     DEF Palette!PaletteNext

LEMMA OfferingSafe ==
  ASSUME Palette!PaletteAssumption, Palette!Offering
  PROVE  Palette!EnterFindsItsEntry /\ Palette!PageFollowsTheTheme
<1>1. v2.history \in Seq(Palette!Labels) /\ v1 \in Langs
  BY DEF Palette!Offering, Palette!HistoryKept, Palette!SelectionKept
<1>2. v2.open /\ ~v6 /\ Palette!Listed(v2, v1) # <<>> => v2.selected < Len(Palette!Listed(v2, v1))
  BY <1>1, ListedBounds DEF Palette!Offering, Palette!SelectionKept
<1> QED
  BY <1>2 DEF Palette!Offering, Palette!HistoryKept, Palette!ThemeKept, Palette!EnterFindsItsEntry

LEMMA PaletteKept == Spec => [](part = "palette" => Palette!Offering)
<1>1. Init => (part = "palette" => Palette!Offering) BY OfferingStarts, WindowAssumption DEF Init
<1>2. (part = "palette" => Palette!Offering) /\ [Next]_vars
        => (part = "palette" => Palette!Offering)'
  <2> SUFFICES ASSUME part' = "palette", part' = "palette" /\ part = part' => Palette!Offering,
                      [Next]_vars
               PROVE  Palette!Offering'
    BY Onward
  <2>1. part = "palette" BY Onward
  <2>2. CASE UNCHANGED vars
    <3>1. UNCHANGED Palette!vars BY <2>2 DEF vars, Palette!vars
    <3> QED BY <2>1, <3>1, OfferingStays
  <2>3. CASE Palette!PaletteNext BY <2>1, <2>3, OfferingStep, WindowAssumption
  <2> QED BY <2>1, <2>2, <2>3 DEF Next
<1> QED BY <1>1, <1>2, PTL DEF Spec

(* Enter finds an entry under the selection whenever there is one to find, *)
(* the palette remembers each label once and no more than it may, and the  *)
(* page is as dark as the theme says: for any locales, any length of the   *)
(* history and any order of keys, clicks, languages and system changes     *)
(* (CommandPalette, provide_theme).                                        *)
THEOREM PaletteIsSafe == Spec => []PaletteSafe
<1>1. (part = "palette" => Palette!Offering) => PaletteSafe
  BY OfferingSafe, WindowAssumption DEF PaletteSafe
<1> QED BY <1>1, PaletteKept, PTL
-----------------------------------------------------------------------------
(* The list of clone tasks and the dialog for a remote path: v1 is remote. *)

LEMMA CloneBecomes ==
  ASSUME Clones!OneClone, NEW w \in Clones!Callers, NEW j, Clones!Becomes(w, j)
  PROVE  /\ job' = [v \in Clones!Callers |-> job'[v]] /\ job'[w] = j
         /\ \A v \in Clones!Callers \ {w} : job'[v] = job[v]
BY DEF Clones!OneClone, Clones!Becomes

LEMMA NewClone ==
  /\ Clones!Called(Clones!Idle) /\ ~Clones!Idle.here
  /\ Clones!Called(Clones!Call("list")) /\ ~Clones!Cloning(Clones!Call("list"))
  /\ Clones!Called(Clones!Call("clear")) /\ ~Clones!Cloning(Clones!Call("clear"))
  /\ \A r : Clones!Called([Clones!Call("clone") EXCEPT !.repo = r])
     /\ [Clones!Call("clone") EXCEPT !.repo = r].repo = r
<1>1. PICK i : i = Clones!Idle OBVIOUS
<1>2. i = [op |-> "idle", repo |-> None, pc |-> "sent", answer |-> {}, here |-> FALSE]
  BY <1>1 DEF Clones!Idle
<1>3. ASSUME NEW op, NEW j, j = Clones!Call(op)
      PROVE  j = [op |-> op, repo |-> None, pc |-> "sent", answer |-> {}, here |-> TRUE]
  <2>1. j = [i EXCEPT !.op = op, !.here = TRUE] BY <1>1, <1>3 DEF Clones!Call
  <2> QED BY <1>2, <2>1
<1>4. ASSUME NEW op, op # "clone"
      PROVE Clones!Called(Clones!Call(op)) /\ ~Clones!Cloning(Clones!Call(op))
  <2>1. PICK j : j = Clones!Call(op) OBVIOUS
  <2>2. j = [op |-> op, repo |-> None, pc |-> "sent", answer |-> {}, here |-> TRUE]
    BY <1>3, <2>1
  <2>3. Clones!Called(j) /\ ~Clones!Cloning(j) BY <1>4, <2>2 DEF Clones!Called, Clones!Cloning
  <2> QED BY <2>1, <2>3
<1>5. ASSUME NEW r
      PROVE  /\ Clones!Called([Clones!Call("clone") EXCEPT !.repo = r])
             /\ [Clones!Call("clone") EXCEPT !.repo = r].repo = r
  <2>1. PICK c : c = Clones!Call("clone") OBVIOUS
  <2>2. c = [op |-> "clone", repo |-> None, pc |-> "sent", answer |-> {}, here |-> TRUE]
    BY <1>3, <2>1
  <2>3. PICK j : j = [c EXCEPT !.repo = r] OBVIOUS
  <2>4. j = [op |-> "clone", repo |-> r, pc |-> "sent", answer |-> {}, here |-> TRUE]
    BY <2>2, <2>3
  <2>5. Clones!Called(j) /\ j.repo = r BY <2>4 DEF Clones!Called
  <2> QED BY <2>1, <2>3, <2>5
<1>6. Clones!Called(i) /\ ~i.here BY <1>2 DEF Clones!Called
<1>7. "list" # "clone" /\ "clear" # "clone" OBVIOUS
<1> QED BY <1>1, <1>4, <1>5, <1>6, <1>7

(* What the repository's effect makes of the dialog.                       *)
LEMMA AsksFor ==
  ASSUME Clones!CloneListAssumption, NEW u, Clones!Drawn(u), Clones!TimersToCome(u),
         NEW r \in Repos \cup {None}, r # None => u.mounted
  PROVE  /\ Clones!Drawn(Clones!Asks(u, r)) /\ Clones!TimersToCome(Clones!Asks(u, r))
         /\ Clones!Asks(u, r).repo = r /\ Clones!Asks(u, r).mounted = u.mounted
         /\ Clones!Asks(u, r).running = u.running
<1>1. u = [mounted |-> u.mounted, tasks |-> u.tasks, running |-> u.running, repo |-> u.repo,
           visible |-> u.visible, open |-> u.open, opens |-> u.opens, hides |-> u.hides]
  BY DEF Clones!Drawn
<1>2. PICK v : v = Clones!Asks(u, r) OBVIOUS
<1>3. /\ Clones!Drawn(v) /\ Clones!TimersToCome(v)
      /\ v.repo = r /\ v.mounted = u.mounted /\ v.running = u.running
  <2>1. CASE r # None
    <3>1. v = [mounted |-> u.mounted, tasks |-> u.tasks, running |-> u.running, repo |-> r,
               visible |-> r, open |-> FALSE, opens |-> u.opens + 1, hides |-> u.hides]
      BY <1>1, <1>2, <2>1 DEF Clones!Asks
    <3> QED BY <2>1, <3>1 DEF Clones!Drawn, Clones!TimersToCome
  <2>2. CASE r = None /\ u.visible # None
    <3>1. v = [mounted |-> u.mounted, tasks |-> u.tasks, running |-> u.running, repo |-> None,
               visible |-> u.visible, open |-> FALSE, opens |-> u.opens, hides |-> u.hides + 1]
      BY <1>1, <1>2, <2>2 DEF Clones!Asks
    <3> QED BY <2>2, <3>1 DEF Clones!Drawn, Clones!TimersToCome
  <2>3. CASE r = None /\ u.visible = None
    <3>1. v = [mounted |-> u.mounted, tasks |-> u.tasks, running |-> u.running, repo |-> None,
               visible |-> None, open |-> u.open, opens |-> u.opens, hides |-> u.hides]
      BY <1>1, <1>2, <2>3 DEF Clones!Asks
    <3> QED BY <2>3, <3>1 DEF Clones!Drawn, Clones!TimersToCome
  <2> QED BY <2>1, <2>2, <2>3
<1> QED BY <1>2, <1>3

LEMMA DialoguedStarts == ASSUME Clones!CloneListAssumption, Clones!Init PROVE Clones!Dialogued
<1>1. Clones!Drawn(ui) /\ Clones!TimersToCome(ui) /\ ui.repo = None
  BY DEF Clones!Init, Clones!Closed, Clones!Drawn, Clones!TimersToCome
<1>2. PICK i : i = Clones!Idle OBVIOUS
<1>3. Clones!Called(i) /\ ~i.here BY <1>2, NewClone
<1>4. job = [w \in Clones!Callers |-> i] BY <1>2 DEF Clones!Init
<1>5. Clones!OneClone /\ Clones!CloneKeepsItsDialog
  BY <1>3, <1>4 DEF Clones!OneClone, Clones!Cloning, Clones!CloneKeepsItsDialog
<1> QED BY <1>1, <1>5 DEF Clones!Init, Clones!Dialogued, Clones!Asked

(* The screen is opened and left.                                          *)
LEMMA CloneMounts ==
  ASSUME Clones!CloneListAssumption, Clones!Dialogued,
         Clones!LeaveScreen \/ \E w \in Polls : Clones!OpenScreen(w)
  PROVE  Clones!Dialogued'
<1>1. CASE Clones!LeaveScreen
  <2>1. Clones!Drawn(ui') /\ Clones!TimersToCome(ui') /\ ui'.repo = None
    BY <1>1 DEF Clones!LeaveScreen, Clones!Closed, Clones!Drawn, Clones!TimersToCome
  <2>2. PICK left : left = [w \in Clones!Callers |-> [job[w] EXCEPT !.here = FALSE]] OBVIOUS
  <2>3. ASSUME NEW w \in Clones!Callers PROVE Clones!Called(left[w]) /\ ~left[w].here
    <3>1. PICK k : k = job[w] OBVIOUS
    <3>2. k = [op |-> k.op, repo |-> k.repo, pc |-> k.pc, answer |-> k.answer, here |-> k.here]
      BY <3>1 DEF Clones!Dialogued, Clones!OneClone, Clones!Called
    <3>3. left[w] = [op |-> k.op, repo |-> k.repo, pc |-> k.pc, answer |-> k.answer,
                     here |-> FALSE]
      BY <2>2, <3>1, <3>2
    <3> QED BY <3>3 DEF Clones!Called
  <2>4. job' = left BY <1>1, <2>2 DEF Clones!LeaveScreen
  <2>5. left = [w \in Clones!Callers |-> left[w]] BY <2>2
  <2>6. (Clones!OneClone /\ Clones!CloneKeepsItsDialog)'
    BY <2>3, <2>4, <2>5 DEF Clones!OneClone, Clones!Cloning, Clones!CloneKeepsItsDialog
  <2> QED BY <1>1, <2>1, <2>6 DEF Clones!LeaveScreen, Clones!Dialogued, Clones!Asked
<1>2. ASSUME NEW w \in Polls, Clones!OpenScreen(w) PROVE Clones!Dialogued'
  <2>1. Clones!Drawn(ui') /\ Clones!TimersToCome(ui') /\ ui'.repo = None /\ ui'.mounted
    BY <1>2 DEF Clones!OpenScreen, Clones!Closed, Clones!Drawn, Clones!TimersToCome
  <2>2. w \in Clones!Callers BY DEF Clones!Callers
  <2>3. PICK j : j = Clones!Call("list") OBVIOUS
  <2>4. Clones!Called(j) /\ ~Clones!Cloning(j) BY <2>3, NewClone
  <2>5. Clones!Becomes(w, j) /\ \A v \in Clones!Callers : ~job[v].here
    BY <1>2, <2>3 DEF Clones!OpenScreen, Clones!Sends, Clones!Dialogued, Clones!OneClone
  <2>6. /\ job' = [v \in Clones!Callers |-> job'[v]] /\ job'[w] = j
        /\ \A v \in Clones!Callers \ {w} : job'[v] = job[v]
    BY <2>2, <2>5, CloneBecomes DEF Clones!Dialogued
  <2>7. (Clones!OneClone /\ Clones!CloneKeepsItsDialog)'
    BY <2>1, <2>4, <2>5, <2>6 DEF Clones!Dialogued, Clones!OneClone, Clones!Cloning,
      Clones!CloneKeepsItsDialog
  <2> QED BY <1>2, <2>1, <2>7 DEF Clones!OpenScreen, Clones!Dialogued, Clones!Asked
<1> QED BY <1>1, <1>2

(* The dialog is shown and closed, and its timers fire.                    *)
LEMMA DialogMoves ==
  ASSUME Clones!CloneListAssumption, Clones!Dialogued,
         Clones!CloseDialog \/ Clones!OpenTimer \/ Clones!HideTimer
           \/ \E t \in v2 : Clones!CloneEnds(t)
  PROVE  Clones!Dialogued'
<1>0. ui = [mounted |-> ui.mounted, tasks |-> ui.tasks, running |-> ui.running,
            repo |-> ui.repo, visible |-> ui.visible, open |-> ui.open,
            opens |-> ui.opens, hides |-> ui.hides]
  BY DEF Clones!Dialogued, Clones!Asked, Clones!Drawn
<1>1. UNCHANGED <<v1, job>>
  BY DEF Clones!CloseDialog, Clones!OpenTimer, Clones!HideTimer, Clones!CloneEnds
<1>2. /\ Clones!Drawn(ui') /\ Clones!TimersToCome(ui') /\ ui'.mounted = ui.mounted
      /\ ui'.running = ui.running /\ ui'.repo \in {None, ui.repo}
  <2>1. CASE Clones!CloseDialog
    BY <2>1, AsksFor DEF Clones!CloseDialog, Clones!Dialogued, Clones!Asked
  <2>2. CASE Clones!OpenTimer
    <3>1. ui' = [mounted |-> ui.mounted, tasks |-> ui.tasks, running |-> ui.running,
                 repo |-> ui.repo, visible |-> ui.visible, open |-> TRUE,
                 opens |-> ui.opens - 1, hides |-> ui.hides] /\ ui.opens > 0
      BY <1>0, <2>2 DEF Clones!OpenTimer
    <3> QED BY <3>1 DEF Clones!Dialogued, Clones!Asked, Clones!Drawn, Clones!TimersToCome
  <2>3. CASE Clones!HideTimer
    <3>1. PICK r : r = IF ui.repo = None THEN None ELSE ui.visible OBVIOUS
    <3>2. ui' = [mounted |-> ui.mounted, tasks |-> ui.tasks, running |-> ui.running,
                 repo |-> ui.repo, visible |-> r, open |-> ui.open,
                 opens |-> ui.opens, hides |-> ui.hides - 1] /\ ui.hides > 0
      BY <1>0, <2>3, <3>1 DEF Clones!HideTimer
    <3> QED BY <3>1, <3>2 DEF Clones!Dialogued, Clones!Asked, Clones!Drawn, Clones!TimersToCome
  <2>4. CASE \E t \in v2 : Clones!CloneEnds(t)
    BY <2>4 DEF Clones!CloneEnds, Clones!Dialogued, Clones!Asked
  <2> QED BY <2>1, <2>2, <2>3, <2>4
<1>3. Clones!Asked' BY <1>1, <1>2 DEF Clones!Dialogued, Clones!Asked
<1>4. Clones!OneClone' BY <1>1, <1>2 DEF Clones!Dialogued, Clones!OneClone
<1>5. Clones!CloneKeepsItsDialog' BY <1>1, <1>2 DEF Clones!Dialogued, Clones!CloneKeepsItsDialog
<1> QED BY <1>3, <1>4, <1>5 DEF Clones!Dialogued

(* A clone begins only when the screen waits for none.                     *)
LEMMA CloneAlone ==
  ASSUME Clones!CloneListAssumption, Clones!Dialogued, ui.running = None
  PROVE  \A w \in Clones!Callers : ~Clones!Cloning(job[w])
BY DEF Clones!Dialogued, Clones!OneClone, Clones!CloneKeepsItsDialog, Clones!Cloning,
  Clones!CloneListAssumption

LEMMA CloneClicks ==
  ASSUME Clones!CloneListAssumption, Clones!Dialogued, NEW w \in Clones!Callers,
         Clones!SubmitPath(w) \/ \E r \in Repos : Clones!ClickClone(w, r)
  PROVE  Clones!Dialogued'
<1>1. CASE Clones!SubmitPath(w)
  <2>1. PICK j : j = [Clones!Call("clone") EXCEPT !.repo = ui.repo] OBVIOUS
  <2>2. Clones!Called(j) /\ j.repo = ui.repo BY <2>1, NewClone
  <2>3. Clones!Becomes(w, j) BY <1>1, <2>1 DEF Clones!SubmitPath, Clones!Sends
  <2>4. /\ job' = [v \in Clones!Callers |-> job'[v]] /\ job'[w] = j
        /\ \A v \in Clones!Callers \ {w} : job'[v] = job[v]
    BY <2>3, CloneBecomes DEF Clones!Dialogued
  <2>5. /\ ui' = [ui EXCEPT !.running = ui.repo] /\ ui.repo \in Repos /\ ui.running = None
        /\ UNCHANGED v1
    BY <1>1 DEF Clones!SubmitPath, Clones!Dialogued, Clones!Asked, Clones!Drawn
  <2>6. /\ Clones!Drawn(ui') /\ Clones!TimersToCome(ui') /\ ui'.repo = ui.repo
        /\ ui'.running = ui.repo
        /\ ui'.mounted = ui.mounted
    BY <2>5 DEF Clones!Dialogued, Clones!Asked, Clones!Drawn, Clones!TimersToCome
  <2>7. \A v \in Clones!Callers : ~Clones!Cloning(job[v]) BY <2>5, CloneAlone
  <2>8. ui.mounted
    BY <1>1 DEF Clones!SubmitPath, Clones!Dialogued, Clones!Asked, Clones!TimersToCome
  <2>9. (Clones!OneClone /\ Clones!CloneKeepsItsDialog)'
    BY <2>2, <2>4, <2>5, <2>6, <2>7, <2>8 DEF Clones!Dialogued, Clones!OneClone,
      Clones!Cloning, Clones!CloneKeepsItsDialog
  <2> QED BY <2>5, <2>6, <2>9 DEF Clones!Dialogued, Clones!Asked
<1>2. ASSUME NEW r \in Repos, Clones!ClickClone(w, r), v1 PROVE Clones!Dialogued'
  <2>1. ui' = Clones!Asks(ui, r) /\ UNCHANGED <<v1, job>> /\ ui.mounted /\ ui.running = None
    BY <1>2 DEF Clones!ClickClone
  <2>2. /\ Clones!Drawn(ui') /\ Clones!TimersToCome(ui') /\ ui'.repo = r /\ ui'.mounted = ui.mounted
        /\ ui'.running = ui.running
    BY <2>1, AsksFor DEF Clones!Dialogued, Clones!Asked
  <2>3. \A v \in Clones!Callers : ~Clones!Cloning(job[v]) BY <2>1, CloneAlone
  <2>4. (Clones!OneClone /\ Clones!CloneKeepsItsDialog)'
    BY <2>1, <2>2, <2>3 DEF Clones!Dialogued, Clones!OneClone, Clones!Cloning,
      Clones!CloneKeepsItsDialog
  <2> QED BY <1>2, <2>1, <2>2, <2>4 DEF Clones!Dialogued, Clones!Asked
<1>3. ASSUME NEW r \in Repos, Clones!ClickClone(w, r), ~v1 PROVE Clones!Dialogued'
  <2>1. PICK j : j = [Clones!Call("clone") EXCEPT !.repo = r] OBVIOUS
  <2>2. Clones!Called(j) /\ j.repo = r BY <2>1, NewClone
  <2>3. /\ Clones!Becomes(w, j) /\ ui' = [ui EXCEPT !.running = r] /\ UNCHANGED v1
        /\ ui.mounted /\ ui.running = None
    BY <1>3, <2>1 DEF Clones!ClickClone, Clones!Sends
  <2>4. /\ job' = [v \in Clones!Callers |-> job'[v]] /\ job'[w] = j
        /\ \A v \in Clones!Callers \ {w} : job'[v] = job[v]
    BY <2>3, CloneBecomes DEF Clones!Dialogued
  <2>5. /\ Clones!Drawn(ui') /\ Clones!TimersToCome(ui') /\ ui'.repo = None /\ ui'.running = r
        /\ ui'.mounted = ui.mounted
    BY <1>3, <2>3 DEF Clones!Dialogued, Clones!Asked, Clones!Drawn, Clones!TimersToCome
  <2>6. \A v \in Clones!Callers : ~Clones!Cloning(job[v]) BY <2>3, CloneAlone
  <2>7. (Clones!OneClone /\ Clones!CloneKeepsItsDialog)'
    BY <2>2, <2>3, <2>4, <2>5, <2>6 DEF Clones!Dialogued, Clones!OneClone, Clones!Cloning,
      Clones!CloneKeepsItsDialog
  <2> QED BY <1>3, <2>3, <2>5, <2>7 DEF Clones!Dialogued, Clones!Asked
<1> QED BY <1>1, <1>2, <1>3

(* A list is asked for, and what the backend does.                         *)
LEMMA CloneCalls ==
  ASSUME Clones!CloneListAssumption, Clones!Dialogued, NEW w \in Clones!Callers,
         \/ Clones!Poll(w) \/ Clones!ClickClear(w) \/ Clones!ListTasks(w) \/ Clones!ClearTasks(w)
         \/ Clones!StartClone(w) \/ Clones!Fails(w)
  PROVE  Clones!Dialogued'
<1>1. UNCHANGED <<v1, ui>>
  BY DEF Clones!Poll, Clones!ClickClear, Clones!ListTasks, Clones!ClearTasks,
    Clones!StartClone, Clones!Fails
<1>2. PICK j :
        /\ Clones!Called(j) /\ (j.here => ui.mounted) /\ Clones!Becomes(w, j)
        /\ Clones!Cloning(j) => Clones!Cloning(job[w]) /\ j.repo = job[w].repo
  <2>1. CASE Clones!Poll(w)
    <3>1. PICK j : j = Clones!Call("list") OBVIOUS
    <3>2. Clones!Called(j) /\ ~Clones!Cloning(j) BY <3>1, NewClone
    <3> QED BY <2>1, <3>1, <3>2 DEF Clones!Poll, Clones!Sends
  <2>2. CASE Clones!ClickClear(w)
    <3>1. PICK j : j = Clones!Call("clear") OBVIOUS
    <3>2. Clones!Called(j) /\ ~Clones!Cloning(j) BY <3>1, NewClone
    <3> QED BY <2>2, <3>1, <3>2 DEF Clones!ClickClear, Clones!Sends
  <2>3. CASE Clones!ListTasks(w) \/ Clones!ClearTasks(w) \/ Clones!StartClone(w)
    <3>1. PICK a : Clones!Becomes(w, [job[w] EXCEPT !.pc = "answered", !.answer = a])
      BY <2>3 DEF Clones!ListTasks, Clones!ClearTasks, Clones!StartClone, Clones!Answers
    <3>2. PICK j : j = [job[w] EXCEPT !.pc = "answered", !.answer = a] OBVIOUS
    <3>3. Clones!Called(j) /\ j.op = job[w].op /\ j.here = job[w].here /\ j.repo = job[w].repo
      <4>1. PICK k : k = job[w] OBVIOUS
      <4>2. k = [op |-> k.op, repo |-> k.repo, pc |-> k.pc, answer |-> k.answer,
                 here |-> k.here]
        BY <4>1 DEF Clones!Dialogued, Clones!OneClone, Clones!Called
      <4>3. j = [op |-> k.op, repo |-> k.repo, pc |-> "answered", answer |-> a, here |-> k.here]
        BY <3>2, <4>1, <4>2
      <4> QED BY <4>1, <4>3 DEF Clones!Called
    <3> QED BY <3>1, <3>2, <3>3 DEF Clones!Dialogued, Clones!OneClone, Clones!Cloning
  <2>4. CASE Clones!Fails(w)
    <3>1. PICK j : j = [job[w] EXCEPT !.pc = "failed"] OBVIOUS
    <3>2. Clones!Called(j) /\ j.op = job[w].op /\ j.here = job[w].here /\ j.repo = job[w].repo
      <4>1. PICK k : k = job[w] OBVIOUS
      <4>2. k = [op |-> k.op, repo |-> k.repo, pc |-> k.pc, answer |-> k.answer,
                 here |-> k.here]
        BY <4>1 DEF Clones!Dialogued, Clones!OneClone, Clones!Called
      <4>3. j = [op |-> k.op, repo |-> k.repo, pc |-> "failed", answer |-> k.answer,
                 here |-> k.here]
        BY <3>1, <4>1, <4>2
      <4> QED BY <4>1, <4>3 DEF Clones!Called
    <3> QED
      BY <2>4, <3>1, <3>2 DEF Clones!Dialogued, Clones!OneClone, Clones!Cloning, Clones!Fails
  <2> QED BY <2>1, <2>2, <2>3, <2>4
<1>3. /\ job' = [v \in Clones!Callers |-> job'[v]] /\ job'[w] = j
      /\ \A v \in Clones!Callers \ {w} : job'[v] = job[v]
  BY <1>2, CloneBecomes DEF Clones!Dialogued
<1>4. \A v \in Clones!Callers : Clones!Cloning(job'[v])
      => Clones!Cloning(job[v]) /\ job'[v].repo = job[v].repo
  BY <1>2, <1>3
<1>5. \A v \in Clones!Callers : Clones!Called(job'[v]) /\ (job'[v].here => ui.mounted)
  BY <1>2, <1>3 DEF Clones!Dialogued, Clones!OneClone
<1>6. Clones!OneClone' BY <1>1, <1>3, <1>4, <1>5 DEF Clones!Dialogued, Clones!OneClone
<1>7. Clones!CloneKeepsItsDialog'
  BY <1>1, <1>4 DEF Clones!Dialogued, Clones!OneClone, Clones!Cloning,
    Clones!CloneKeepsItsDialog
<1> QED BY <1>1, <1>6, <1>7 DEF Clones!Dialogued, Clones!Asked

(* The answers reach the screen.                                           *)
LEMMA CloneAnswers ==
  ASSUME Clones!CloneListAssumption, Clones!Dialogued, NEW w \in Clones!Callers,
         Clones!ListAnswered(w) \/ Clones!CloneAnswered(w)
  PROVE  Clones!Dialogued'
<1>1. PICK i : i = Clones!Idle OBVIOUS
<1>2. Clones!Called(i) /\ ~i.here BY <1>1, NewClone
<1>3. Clones!Becomes(w, i) /\ UNCHANGED v1 BY <1>1 DEF Clones!ListAnswered, Clones!CloneAnswered
<1>4. /\ job' = [v \in Clones!Callers |-> job'[v]] /\ job'[w] = i
      /\ \A v \in Clones!Callers \ {w} : job'[v] = job[v]
  BY <1>3, CloneBecomes DEF Clones!Dialogued
<1>5. /\ Clones!Drawn(ui') /\ Clones!TimersToCome(ui') /\ ui'.mounted = ui.mounted
      /\ ui'.repo \in {None, ui.repo}
      /\ ui'.running = ui.running \/ Clones!Cloning(job[w])
  <2>1. CASE Clones!ListAnswered(w)
    BY <2>1 DEF Clones!ListAnswered, Clones!Dialogued, Clones!Asked, Clones!Drawn,
      Clones!TimersToCome
  <2>2. CASE Clones!CloneAnswered(w) /\ (~job[w].here \/ job[w].pc = "failed")
    BY <2>2 DEF Clones!CloneAnswered, Clones!Cloning, Clones!Dialogued, Clones!Asked,
      Clones!Drawn, Clones!TimersToCome
  <2>3. CASE Clones!CloneAnswered(w) /\ job[w].here /\ job[w].pc # "failed"
    <3>1. PICK v : v = [[ui EXCEPT !.running = None] EXCEPT !.tasks =
                          Clones!Upsert(ui.tasks, CHOOSE s \in job[w].answer : TRUE)]
      OBVIOUS
    <3>2. Clones!Drawn(v) /\ Clones!TimersToCome(v) /\ v.repo = ui.repo /\ v.mounted = ui.mounted
      BY <3>1 DEF Clones!Dialogued, Clones!Asked, Clones!Drawn, Clones!TimersToCome
    <3>3. ui' = IF v1 THEN Clones!Asks(v, None) ELSE v
      BY <2>3, <3>1 DEF Clones!CloneAnswered, Clones!Dialogued, Clones!Asked, Clones!Drawn
    <3>4. Clones!Cloning(job[w]) BY <2>3 DEF Clones!CloneAnswered, Clones!Cloning
    <3> QED BY <3>2, <3>3, <3>4, AsksFor
  <2> QED BY <2>1, <2>2, <2>3
<1>6. \A v \in Clones!Callers : Clones!Cloning(job'[v])
      => Clones!Cloning(job[v]) /\ v # w /\ job'[v] = job[v]
  BY <1>2, <1>4 DEF Clones!Cloning
<1>7. Clones!OneClone' BY <1>2, <1>4, <1>5, <1>6 DEF Clones!Dialogued, Clones!OneClone
<1>8. ASSUME NEW v \in Clones!Callers, Clones!Cloning(job'[v])
      PROVE  ui'.running = job'[v].repo /\ ui'.repo \in {None, job'[v].repo}
  <2>1. Clones!Cloning(job[v]) /\ v # w /\ job'[v] = job[v] BY <1>6, <1>8
  <2>2. ~Clones!Cloning(job[w]) BY <2>1 DEF Clones!Dialogued, Clones!OneClone
  <2> QED BY <1>5, <2>1, <2>2 DEF Clones!Dialogued, Clones!CloneKeepsItsDialog, Clones!Cloning
<1>9. Clones!CloneKeepsItsDialog' BY <1>8 DEF Clones!CloneKeepsItsDialog, Clones!Cloning
<1> QED BY <1>3, <1>5, <1>7, <1>9 DEF Clones!Dialogued, Clones!Asked

LEMMA DialoguedStep == ASSUME Clones!CloneListAssumption, Clones!Dialogued,
  Clones!CloneNext PROVE Clones!Dialogued'
<1>1. CASE Clones!LeaveScreen \/ \E w \in Polls : Clones!OpenScreen(w) BY <1>1, CloneMounts
<1>2. CASE Clones!CloseDialog \/ Clones!OpenTimer \/ Clones!HideTimer
           \/ \E t \in v2 : Clones!CloneEnds(t)
  BY <1>2, DialogMoves
<1>3. ASSUME NEW w \in Clones!Callers,
             Clones!SubmitPath(w) \/ \E r \in Repos : Clones!ClickClone(w, r)
      PROVE  Clones!Dialogued'
  BY <1>3, CloneClicks
<1>4. ASSUME NEW w \in Clones!Callers,
             \/ Clones!Poll(w) \/ Clones!ClickClear(w) \/ Clones!ListTasks(w)
             \/ Clones!ClearTasks(w)
             \/ Clones!StartClone(w) \/ Clones!Fails(w)
      PROVE  Clones!Dialogued'
  BY <1>4, CloneCalls
<1>5. ASSUME NEW w \in Clones!Callers, Clones!ListAnswered(w) \/ Clones!CloneAnswered(w)
      PROVE Clones!Dialogued'
  BY <1>5, CloneAnswers
<1>6. Polls \subseteq Clones!Callers /\ Clicks \subseteq Clones!Callers BY DEF Clones!Callers
<1> QED BY <1>1, <1>2, <1>3, <1>4, <1>5, <1>6 DEF Clones!CloneNext

LEMMA DialoguedStays == ASSUME Clones!Dialogued, UNCHANGED Clones!vars PROVE Clones!Dialogued'
<1>1. UNCHANGED <<v1, ui, job>> BY DEF Clones!vars
<1> QED BY <1>1 DEF Clones!Dialogued, Clones!Asked, Clones!OneClone, Clones!CloneKeepsItsDialog

LEMMA DialoguedSafe ==
  ASSUME Clones!Dialogued
  PROVE Clones!DialogSettles /\ Clones!CloneKeepsItsDialog
BY DEF Clones!Dialogued, Clones!Asked, Clones!Drawn, Clones!TimersToCome, Clones!DialogSettles

LEMMA ClonesKept == Spec => [](part = "clones" => Clones!Dialogued)
<1>1. Init => (part = "clones" => Clones!Dialogued) BY DialoguedStarts, WindowAssumption DEF Init
<1>2. (part = "clones" => Clones!Dialogued) /\ [Next]_vars
        => (part = "clones" => Clones!Dialogued)'
  <2> SUFFICES ASSUME part' = "clones", part' = "clones" /\ part = part' => Clones!Dialogued,
                      [Next]_vars
               PROVE  Clones!Dialogued'
    BY Onward
  <2>1. part = "clones" BY Onward
  <2>2. CASE UNCHANGED vars
    <3>1. UNCHANGED Clones!vars BY <2>2 DEF vars, Clones!vars
    <3> QED BY <2>1, <3>1, DialoguedStays
  <2>3. CASE Clones!CloneNext BY <2>1, <2>3, DialoguedStep, WindowAssumption
  <2> QED BY <2>1, <2>2, <2>3 DEF Next
<1> QED BY <1>1, <1>2, PTL DEF Spec


-----------------------------------------------------------------------------
(* The progress line and the toasts: v1 is calls, v2 begun, v3 listening,  *)
(* v4 events, v5 entries, v6 phase, v7 generation, v8 timers, v10 toasts,  *)
(* v11 left.                                                               *)

(* The instance of FiniteSets that Feedback brings is that of this module. *)
LEMMA SameFinite == \A S : Feedback!IsFiniteSet(S) <=> IsFiniteSet(S)
BY DEF Feedback!IsFiniteSet, IsFiniteSet

LEMMA SameCardinality == \A S : Feedback!Cardinality(S) = Cardinality(S)
BY DEF Feedback!Cardinality, Cardinality

(* The average of percents below 100 is below 100.                         *)
LEMMA AverageBelow ==
  ASSUME NEW a \in Nat, NEW n \in Nat \ {0}, a <= n * 99
  PROVE  a \div n < 100
<1>1. PICK q : q = a \div n OBVIOUS
<1>2. q \in Nat /\ q * n <= a BY <1>1
<1>3. SUFFICES ASSUME q >= 100 PROVE FALSE BY <1>1, <1>2
<1>4. PICK d \in Nat : q = 100 + d
  <2>1. q = 100 + (q - 100) /\ q - 100 \in Nat BY <1>2, <1>3
  <2> QED BY <2>1
<1>5. q * n = 100 * n + d * n /\ d * n \in Nat BY <1>4
<1> QED BY <1>2, <1>5

LEMMA AggregateBelow ==
  ASSUME Feedback!LineKept, DOMAIN v5 # {}
  PROVE  Feedback!Aggregate < 100
<1> DEFINE D == DOMAIN v5
           S == UNION {{k} \X (1..v5[k]) : k \in D}
<1>1. IsFiniteSet(D) /\ \A k \in D : v5[k] \in 0..99 BY SameFinite DEF Feedback!LineKept
<1>2. S \subseteq D \X (1..99) BY <1>1
<1>3. IsFiniteSet(1..99) /\ Cardinality(1..99) = 99
  <2>1. 1 \in Int /\ 99 \in Int OBVIOUS
  <2>2. Cardinality(1..99) = (IF 1 > 99 THEN 0 ELSE 99 - 1 + 1) /\ IsFiniteSet(1..99)
    BY <2>1, FS_Interval
  <2> QED BY <2>2
<1>4. IsFiniteSet(D \X (1..99)) /\ Cardinality(D \X (1..99)) = Cardinality(D) * 99
  <2> HIDE DEF D
  <2>1. Cardinality(D \X (1..99)) = Cardinality(D) * Cardinality(1..99) /\ IsFiniteSet(D \X (1..99))
    BY <1>1, <1>3, FS_Product
  <2> QED BY <1>3, <2>1
<1>5. IsFiniteSet(S) /\ Cardinality(S) <= Cardinality(D) * 99
  <2> HIDE DEF D, S
  <2>1. Cardinality(S) <= Cardinality(D \X (1..99)) /\ IsFiniteSet(S) BY <1>2, <1>4, FS_Subset
  <2> QED BY <1>4, <2>1
<1>6. Cardinality(D) \in Nat \ {0} /\ Cardinality(S) \in Nat
  <2> HIDE DEF D, S
  <2>1. D # {} BY DEF D
  <2> QED BY <1>1, <1>5, <2>1, FS_CardinalityType, FS_EmptySet
<1>7. Feedback!Aggregate = Cardinality(S) \div Cardinality(D)
  BY SameCardinality DEF Feedback!Aggregate, Feedback!Sum
<1> HIDE DEF D, S
<1> QED BY <1>5, <1>6, <1>7, AverageBelow

(* The line: an entry is put on it, is taken off, climbs; a timer fires.   *)
LEMMA LineShows ==
  ASSUME Feedback!LineKept, NEW k, NEW p \in 0..99, Feedback!Shows(k, p)
  PROVE  Feedback!LineKept' /\ DOMAIN v5' = DOMAIN v5 \cup {k}
<1>1. v5' = [x \in DOMAIN v5 \cup {k} |-> IF x = k THEN p ELSE v5[x]]
  BY DEF Feedback!Shows, Feedback!With
<1>2. v5' \in [DOMAIN v5' -> 0..99] /\ DOMAIN v5' = DOMAIN v5 \cup {k}
  BY <1>1 DEF Feedback!LineKept
<1>3. Feedback!IsFiniteSet(DOMAIN v5') BY <1>2, FS_AddElement, SameFinite DEF Feedback!LineKept
<1>4. v6' = "Running" /\ v7' = v7 + 1 /\ v8' = v8 BY DEF Feedback!Shows
<1>5. ASSUME NEW t \in v8
      PROVE  t \in (0..v7') \X {"Fading", "Hidden"} /\ t[1] # v7'
  BY <1>4, <1>5 DEF Feedback!LineKept
<1> QED BY <1>2, <1>3, <1>4, <1>5 DEF Feedback!LineKept

LEMMA LineRemoves ==
  ASSUME Feedback!LineKept, NEW k, Feedback!Removes(k)
  PROVE  Feedback!LineKept' /\ DOMAIN v5' = DOMAIN v5 \ {k}
<1>1. v5' = [x \in DOMAIN v5 \ {k} |-> v5[x]]
  BY DEF Feedback!Removes, Feedback!Without, Feedback!Restrict
<1>2. v5' \in [DOMAIN v5' -> 0..99] /\ DOMAIN v5' = DOMAIN v5 \ {k}
  BY <1>1 DEF Feedback!LineKept
<1>3. Feedback!IsFiniteSet(DOMAIN v5') BY <1>2, FS_Subset, SameFinite DEF Feedback!LineKept
<1>4. CASE DOMAIN v5' # {}
  <2>1. UNCHANGED <<v6, v7, v8>> BY <1>4 DEF Feedback!Removes
  <2>2. DOMAIN v5 # {} BY <1>2, <1>4
  <2> QED BY <1>2, <1>3, <1>4, <2>1, <2>2 DEF Feedback!LineKept
<1>5. CASE DOMAIN v5' = {}
  <2>1. /\ v7' = v7 + 1 /\ v6' = "Hold"
        /\ v8' = v8 \cup {<<v7', "Fading">>, <<v7', "Hidden">>}
    BY <1>5 DEF Feedback!Removes
  <2>2. ASSUME NEW t \in v8' PROVE t \in (0..v7') \X {"Fading", "Hidden"}
    BY <2>1, <2>2 DEF Feedback!LineKept
  <2> QED BY <1>2, <1>3, <1>5, <2>1, <2>2 DEF Feedback!LineKept
<1> QED BY <1>2, <1>4, <1>5

LEMMA LineFires ==
  ASSUME Feedback!LineKept, NEW t \in v8, Feedback!Fires(t)
  PROVE  Feedback!LineKept'
<1>1. /\ UNCHANGED <<v5, v7>> /\ v8' = v8 \ {t}
      /\ v6' = IF v7 = t[1] THEN t[2] ELSE v6
  BY DEF Feedback!Fires
<1>2. t[2] # "Running" /\ (t[1] = v7 => DOMAIN v5 = {}) BY DEF Feedback!LineKept
<1> QED BY <1>1, <1>2 DEF Feedback!LineKept

LEMMA SmallerOf ==
  ASSUME NEW a \in Nat, NEW b \in Nat
  PROVE  Feedback!Min({a, b}) \in {a, b} /\ Feedback!Min({a, b}) <= a /\ Feedback!Min({a, b}) <= b
<1>1. \E x \in {a, b} : \A y \in {a, b} : x <= y OBVIOUS
<1>2. PICK m : m = Feedback!Min({a, b}) OBVIOUS
<1>3. m \in {a, b} /\ \A y \in {a, b} : m <= y BY <1>1, <1>2 DEF Feedback!Min
<1> QED BY <1>2, <1>3

LEMMA LineClimbs ==
  ASSUME Feedback!FeedbackAssumption, Feedback!LineKept, NEW i, Feedback!Climb(i)
  PROVE  Feedback!LineKept' /\ DOMAIN v5' = DOMAIN v5
<1>1. UNCHANGED <<v6, v7, v8>> BY DEF Feedback!Climb
<1>2. CASE i \notin DOMAIN v5 BY <1>1, <1>2 DEF Feedback!Climb, Feedback!LineKept
<1>3. CASE i \in DOMAIN v5
  <2>1. PICK p : p = Feedback!Min({v5[i] + Step, Cap}) OBVIOUS
  <2>2. Cap \in 1..99 /\ Step \in 1..Cap BY DEF Feedback!FeedbackAssumption
  <2>3. v5[i] \in 0..99 BY <1>3 DEF Feedback!LineKept
  <2>4. PICK a \in Nat : a = v5[i] + Step BY <2>2, <2>3
  <2>5. p \in {a, Cap} /\ p <= Cap BY <2>1, <2>2, <2>4, SmallerOf
  <2>6. p \in 0..99 BY <2>2, <2>4, <2>5
  <2>7. v5' = [v5 EXCEPT ![i] = p] BY <1>3, <2>1 DEF Feedback!Climb
  <2>8. v5' \in [DOMAIN v5' -> 0..99] /\ DOMAIN v5' = DOMAIN v5
    BY <2>6, <2>7 DEF Feedback!LineKept
  <2> QED BY <1>1, <2>8 DEF Feedback!LineKept
<1> QED BY <1>2, <1>3

(* The toasts.                                                             *)
LEMMA ToastsChange ==
  ASSUME Feedback!ToastsKept, NEW i \in DOMAIN v10,
         Feedback!Close(i) \/ Feedback!Enter(i) \/ Feedback!Expire(i) \/ Feedback!Drop(i)
  PROVE  Feedback!ToastsKept'
<1>1. PICK n \in Nat : v10 \in [1..n -> Feedback!Toasts] /\ DOMAIN v10 = 1..n
  <2>1. Len(v10) \in Nat /\ v10 \in [1..Len(v10) -> Feedback!Toasts] BY DEF Feedback!ToastsKept
  <2> QED BY <2>1
<1>2. PICK x \in Feedback!Toasts : x = v10[i] BY <1>1
<1>3. x = [there |-> x.there, visible |-> x.visible, seen |-> x.seen, enter |-> x.enter,
           ttl |-> x.ttl, exit |-> x.exit]
  BY DEF Feedback!Toasts
<1>4. IF x.enter THEN x.there ELSE x.seen BY <1>2 DEF Feedback!ToastsKept
<1>5. PICK y \in Feedback!Toasts :
        v10' = [v10 EXCEPT ![i] = y] /\ IF y.enter THEN y.there ELSE y.seen
  <2>1. CASE Feedback!Close(i)
    <3>1. PICK y : y = [x EXCEPT !.visible = FALSE, !.exit = TRUE] OBVIOUS
    <3>2. y \in Feedback!Toasts /\ y.enter = x.enter /\ y.there = x.there /\ y.seen = x.seen
      BY <3>1 DEF Feedback!Toasts
    <3> QED BY <1>2, <1>4, <2>1, <3>1, <3>2 DEF Feedback!Close, Feedback!Dismissed
  <2>2. CASE Feedback!Enter(i)
    <3>1. PICK y : y = [x EXCEPT !.enter = FALSE, !.visible = x.there, !.seen = x.there] OBVIOUS
    <3>2. y \in Feedback!Toasts /\ ~y.enter /\ y.seen = x.there BY <3>1 DEF Feedback!Toasts
    <3>3. x.enter BY <1>2, <2>2 DEF Feedback!Enter
    <3>4. v10' = [v10 EXCEPT ![i] = y]
      BY <1>1, <1>2, <2>2, <3>1 DEF Feedback!Enter
    <3> QED BY <1>4, <3>2, <3>3, <3>4
  <2>3. CASE Feedback!Expire(i)
    <3>1. PICK y : y = [[x EXCEPT !.visible = FALSE, !.exit = TRUE] EXCEPT !.ttl = FALSE] OBVIOUS
    <3>2. y \in Feedback!Toasts /\ y.enter = x.enter /\ y.there = x.there /\ y.seen = x.seen
      BY <3>1 DEF Feedback!Toasts
    <3> QED BY <1>2, <1>4, <2>3, <3>1, <3>2 DEF Feedback!Expire, Feedback!Dismissed
  <2>4. CASE Feedback!Drop(i)
    <3>1. PICK y : y = [x EXCEPT !.exit = FALSE, !.there = FALSE, !.visible = FALSE] OBVIOUS
    <3>2. y \in Feedback!Toasts /\ y.enter = x.enter /\ y.seen = x.seen
      BY <3>1 DEF Feedback!Toasts
    <3>3. ~x.enter BY <1>2, <2>4 DEF Feedback!Drop
    <3>4. v10' = [v10 EXCEPT ![i] = y]
      BY <1>1, <1>2, <2>4, <3>1 DEF Feedback!Drop
    <3> QED BY <1>4, <3>2, <3>3, <3>4
  <2> QED BY <2>1, <2>2, <2>3, <2>4
<1>6. v10' \in [1..n -> Feedback!Toasts] /\ DOMAIN v10' = 1..n /\ v10'[i] = y
      /\ \A k \in (1..n) \ {i} : v10'[k] = v10[k]
  BY <1>1, <1>5
<1>7. v10' \in Seq(Feedback!Toasts) BY <1>6
<1> QED BY <1>1, <1>5, <1>6, <1>7 DEF Feedback!ToastsKept

LEMMA ToastsTell == ASSUME Feedback!ToastsKept, Feedback!Tells PROVE Feedback!ToastsKept'
<1>1. CASE UNCHANGED v10 BY <1>1 DEF Feedback!ToastsKept
<1>2. CASE Feedback!Push
  <2>1. PICK x : x = [there |-> TRUE, visible |-> FALSE, seen |-> FALSE,
                      enter |-> TRUE, ttl |-> TRUE, exit |-> FALSE] OBVIOUS
  <2>2. x \in Feedback!Toasts /\ x.enter /\ x.there BY <2>1 DEF Feedback!Toasts
  <2>3. v10' = Append(v10, x) /\ v10 \in Seq(Feedback!Toasts)
    BY <1>2, <2>1 DEF Feedback!Push, Feedback!ToastsKept
  <2>4. v10' \in Seq(Feedback!Toasts) /\ DOMAIN v10' = 1..(Len(v10) + 1)
    BY <2>2, <2>3, AppendProperties
  <2>5. \A i \in DOMAIN v10' : v10'[i] = IF i = Len(v10) + 1 THEN x ELSE v10[i]
    BY <2>2, <2>3, <2>4, AppendProperties
  <2>6. \A i \in DOMAIN v10' : i # Len(v10) + 1 => i \in DOMAIN v10 BY <2>3, <2>4
  <2> QED BY <2>2, <2>4, <2>5, <2>6 DEF Feedback!ToastsKept
<1> QED BY <1>1, <1>2 DEF Feedback!Tells

(* The streams.  What is owed stays owed, and no stream gets an entry.     *)
LEMMA StreamsStay ==
  ASSUME Feedback!StreamsKept, UNCHANGED v4, v3' \in BOOLEAN, v3 => v3',
         DOMAIN v5' \cap Streamed \subseteq DOMAIN v5 \cap Streamed,
         \A o \in Streamed : Feedback!Owed(o) => Feedback!Owed(o)'
  PROVE  Feedback!StreamsKept'
<1>1. \A o : Feedback!Underway(o)' <=> Feedback!Underway(o)
  BY DEF Feedback!Underway, Feedback!Announced
<1>2. \A j \in DOMAIN v4 : v4[j][1] \in Streamed BY DEF Feedback!StreamsKept
<1>3. /\ v4' \in Seq(Streamed \X (0..100)) /\ (~v3' => v4' = <<>>)
      /\ ~v3' => DOMAIN v5' \cap Streamed = {}
  BY DEF Feedback!StreamsKept
<1>4. \A o \in DOMAIN v5' \cap Streamed : Feedback!Underway(o)' \/ Feedback!Owed(o)'
  BY <1>1 DEF Feedback!StreamsKept
<1>5. ASSUME NEW j \in DOMAIN v4, v4[j][2] < 100
      PROVE  Feedback!Owed(v4[j][1])' \/ \E k \in (j + 1)..Len(v4) : v4[k][1] = v4[j][1]
  BY <1>2, <1>5 DEF Feedback!StreamsKept
<1> QED BY <1>3, <1>4, <1>5 DEF Feedback!StreamsKept

(* The calls: one begins, reports, is answered, ends.                      *)
LEMMA CallBegins ==
  ASSUME Feedback!FeedbackAssumption, Feedback!CallsKept, Feedback!StreamsKept,
    Feedback!LineKept,
         NEW o \in Streamed \cup {None}, Feedback!Begin(o)
  PROVE  Feedback!LineKept' /\ Feedback!CallsKept' /\ Feedback!StreamsKept'
<1>1. PICK c : c = [op |-> o, at |-> 0, pc |-> "out"] OBVIOUS
<1>2. /\ v2 \in Nat /\ v2' = v2 + 1 /\ UNCHANGED <<v3, v4, v11>>
      /\ v1' = [i \in DOMAIN v1 \cup {v2} |-> IF i = v2 THEN c ELSE v1[i]]
      /\ v2 \notin DOMAIN v1 /\ v2 \notin Streamed
  BY <1>1 DEF Feedback!Begin, Feedback!With, Feedback!CallsKept, Feedback!FeedbackAssumption
<1>3. Feedback!LineKept' /\ DOMAIN v5' = DOMAIN v5 \cup {v2} BY LineShows DEF Feedback!Begin
<1>4. /\ DOMAIN v1' = DOMAIN v1 \cup {v2} /\ v1'[v2] = c
      /\ \A i \in DOMAIN v1 : v1'[i] = v1[i]
  BY <1>2
<1>5. c \in [op : Streamed \cup {None}, at : Nat, pc : {"out", "answered"}]
      /\ (c.op # None => c.at <= Len(Checkpoints[c.op]))
  <2>1. o # None => Len(Checkpoints[o]) \in Nat BY DEF Feedback!FeedbackAssumption
  <2> QED BY <1>1, <2>1
<1>6. Feedback!CallsKept'
  <2>1. v1' \in [DOMAIN v1' -> [op : Streamed \cup {None}, at : Nat, pc : {"out", "answered"}]]
    BY <1>2, <1>4, <1>5 DEF Feedback!CallsKept
  <2>2. DOMAIN v1' \subseteq 0..(v2' - 1) /\ v2' \in Nat BY <1>2, <1>4 DEF Feedback!CallsKept
  <2>3. DOMAIN v5' \ Streamed = DOMAIN v1' BY <1>2, <1>3, <1>4 DEF Feedback!CallsKept
  <2> QED BY <1>4, <1>5, <2>1, <2>2, <2>3 DEF Feedback!CallsKept
<1>7. \A p \in Streamed : Feedback!Owed(p) => Feedback!Owed(p)'
  BY <1>2, <1>4 DEF Feedback!Owed, Feedback!ToReport
<1>8. DOMAIN v5' \cap Streamed \subseteq DOMAIN v5 \cap Streamed BY <1>2, <1>3
<1>9. Feedback!StreamsKept' BY <1>2, <1>7, <1>8, StreamsStay DEF Feedback!StreamsKept
<1> QED BY <1>3, <1>6, <1>9

LEMMA CallAnswered ==
  ASSUME Feedback!FeedbackAssumption, Feedback!CallsKept, Feedback!StreamsKept,
         Feedback!LineKept, NEW i \in DOMAIN v1, Feedback!Answer(i)
  PROVE  Feedback!LineKept' /\ Feedback!CallsKept' /\ Feedback!StreamsKept'
<1>1. UNCHANGED <<v2, v3, v4, v5, v6, v7, v8>>
  BY DEF Feedback!Answer, Feedback!line
<1>2. Feedback!LineKept' BY <1>1 DEF Feedback!LineKept
<1>3. PICK x : x = v1[i] OBVIOUS
<1>4. x \in [op : Streamed \cup {None}, at : Nat, pc : {"out", "answered"}]
  BY <1>3 DEF Feedback!CallsKept
<1>5. PICK y : y = [x EXCEPT !.pc = "answered"] OBVIOUS
<1>6. /\ y \in [op : Streamed \cup {None}, at : Nat, pc : {"out", "answered"}]
      /\ y.op = x.op /\ y.at = x.at /\ y.pc = "answered"
  BY <1>4, <1>5
<1>7. v1' = [v1 EXCEPT ![i] = y] BY <1>3, <1>5 DEF Feedback!Answer
<1>8. /\ DOMAIN v1' = DOMAIN v1 /\ v1'[i] = y
      /\ \A k \in DOMAIN v1 \ {i} : v1'[k] = v1[k]
      /\ v1' \in [DOMAIN v1' -> [op : Streamed \cup {None}, at : Nat, pc : {"out", "answered"}]]
  BY <1>6, <1>7 DEF Feedback!CallsKept
<1>9. Feedback!CallsKept' BY <1>1, <1>3, <1>6, <1>8 DEF Feedback!CallsKept
<1>10. v11 \subseteq v11' /\ (Feedback!ToReport(i) => v1[i].op \in v11')
  <2>1. CASE Feedback!Succeeds(i) /\ UNCHANGED v11
    BY <1>3, <1>4, <2>1 DEF Feedback!Succeeds, Feedback!ToReport, Feedback!FeedbackAssumption
  <2>2. CASE v11' = v11 \cup (IF v1[i].at > 0 THEN {v1[i].op} ELSE {})
    BY <2>2 DEF Feedback!ToReport
  <2> QED BY <2>1, <2>2 DEF Feedback!Answer
<1>11. ASSUME NEW o \in Streamed, Feedback!Owed(o) PROVE Feedback!Owed(o)'
  <2>1. CASE o \in v11 BY <1>10, <2>1 DEF Feedback!Owed
  <2>2. ASSUME NEW k \in DOMAIN v1, v1[k].op = o, Feedback!ToReport(k) PROVE Feedback!Owed(o)'
    <3>1. CASE k = i BY <1>10, <2>2, <3>1 DEF Feedback!Owed
    <3>2. CASE k # i
      <4>1. k \in DOMAIN v1' /\ v1'[k] = v1[k] BY <1>8, <3>2
      <4> QED BY <2>2, <4>1 DEF Feedback!Owed, Feedback!ToReport
    <3> QED BY <3>1, <3>2
  <2> QED BY <1>11, <2>1, <2>2 DEF Feedback!Owed
<1>12. Feedback!StreamsKept' BY <1>1, <1>11, StreamsStay DEF Feedback!StreamsKept
<1> QED BY <1>2, <1>9, <1>12

LEMMA CallEnds ==
  ASSUME Feedback!FeedbackAssumption, Feedback!CallsKept, Feedback!StreamsKept,
         Feedback!LineKept, NEW i \in DOMAIN v1, Feedback!End(i)
  PROVE  Feedback!LineKept' /\ Feedback!CallsKept' /\ Feedback!StreamsKept'
<1>1. /\ UNCHANGED <<v2, v3, v4, v11>> /\ v1[i].pc = "answered"
      /\ v1' = [k \in DOMAIN v1 \ {i} |-> v1[k]]
  BY DEF Feedback!End, Feedback!Without, Feedback!Restrict
<1>2. Feedback!LineKept' /\ DOMAIN v5' = DOMAIN v5 \ {i} BY LineRemoves DEF Feedback!End
<1>3. DOMAIN v1' = DOMAIN v1 \ {i} /\ \A k \in DOMAIN v1' : v1'[k] = v1[k] BY <1>1
<1>4. Feedback!CallsKept' BY <1>1, <1>2, <1>3 DEF Feedback!CallsKept
<1>5. \A o \in Streamed : Feedback!Owed(o) => Feedback!Owed(o)'
  BY <1>1, <1>3 DEF Feedback!Owed, Feedback!ToReport
<1>6. Feedback!StreamsKept' BY <1>1, <1>2, <1>5, StreamsStay DEF Feedback!StreamsKept
<1> QED BY <1>2, <1>4, <1>6

LEMMA CallReports ==
  ASSUME Feedback!FeedbackAssumption, Feedback!CallsKept, Feedback!StreamsKept,
         Feedback!LineKept, NEW i \in DOMAIN v1, Feedback!Report(i)
  PROVE  Feedback!LineKept' /\ Feedback!CallsKept' /\ Feedback!StreamsKept'
<1>1. UNCHANGED <<v2, v3, v5, v6, v7, v8, v11>>
  BY DEF Feedback!Report, Feedback!line
<1>2. Feedback!LineKept' BY <1>1 DEF Feedback!LineKept
<1>3. PICK x : x = v1[i] OBVIOUS
<1>4. x \in [op : Streamed \cup {None}, at : Nat, pc : {"out", "answered"}]
  BY <1>3 DEF Feedback!CallsKept
<1>5. x.op \in Streamed /\ x.pc = "out" /\ x.at < Len(Checkpoints[x.op])
  BY <1>3, <1>4 DEF Feedback!Report
<1>6. /\ Checkpoints[x.op] \in Seq(0..100) /\ Len(Checkpoints[x.op]) \in Nat
      /\ Checkpoints[x.op][Len(Checkpoints[x.op])] = 100
  BY <1>5 DEF Feedback!FeedbackAssumption
<1>7. PICK p \in 0..100 : p = Checkpoints[x.op][x.at + 1]
  <2>1. PICK c \in Seq(0..100) : c = Checkpoints[x.op] BY <1>6
  <2>2. x.at + 1 \in 1..Len(c) BY <1>4, <1>5, <2>1
  <2>3. c[x.at + 1] \in 0..100 BY <2>2, ElementOfSeq
  <2> QED BY <2>1, <2>3
<1>8. PICK y : y = [x EXCEPT !.at = x.at + 1] OBVIOUS
<1>9. /\ y \in [op : Streamed \cup {None}, at : Nat, pc : {"out", "answered"}]
      /\ y.op = x.op /\ y.at = x.at + 1 /\ y.pc = "out"
  BY <1>4, <1>5, <1>8
<1>10. v1' = [v1 EXCEPT ![i] = y] BY <1>3, <1>8 DEF Feedback!Report
<1>11. /\ DOMAIN v1' = DOMAIN v1 /\ v1'[i] = y
       /\ \A k \in DOMAIN v1 \ {i} : v1'[k] = v1[k]
       /\ v1' \in [DOMAIN v1' -> [op : Streamed \cup {None}, at : Nat, pc : {"out", "answered"}]]
  BY <1>9, <1>10 DEF Feedback!CallsKept
<1>12. y.at <= Len(Checkpoints[y.op]) BY <1>4, <1>5, <1>6, <1>9
<1>13. Feedback!CallsKept' BY <1>1, <1>11, <1>12 DEF Feedback!CallsKept
<1>14. CASE ~v3
  <2>1. v4' = <<>> /\ ~v3' BY <1>1, <1>14 DEF Feedback!Report, Feedback!StreamsKept
  <2>2. DOMAIN v5' \cap Streamed = {} BY <1>1, <1>14 DEF Feedback!StreamsKept
  <2>3. v4' \in Seq(Streamed \X (0..100)) /\ DOMAIN v4' = {} BY <2>1
  <2>4. v3' \in BOOLEAN BY <1>1 DEF Feedback!StreamsKept
  <2> QED BY <1>2, <1>13, <2>1, <2>2, <2>3, <2>4 DEF Feedback!StreamsKept
<1>15. CASE v3
  <2>1. v4' = Append(v4, <<x.op, p>>) /\ v4 \in Seq(Streamed \X (0..100))
    BY <1>3, <1>7, <1>15 DEF Feedback!Report, Feedback!StreamsKept
  <2>2. PICK n \in Nat : n = Len(v4) /\ DOMAIN v4 = 1..n BY <2>1
  <2>3. <<x.op, p>> \in Streamed \X (0..100) BY <1>5, <1>7
  <2>4. /\ v4' \in Seq(Streamed \X (0..100)) /\ Len(v4') = n + 1
        /\ DOMAIN v4' = 1..(n + 1) /\ v4'[n + 1] = <<x.op, p>>
        /\ \A j \in 1..n : v4'[j] = v4[j]
    BY <2>1, <2>2, <2>3, AppendProperties
  <2>5. ASSUME NEW o \in Streamed, o # x.op, Feedback!Owed(o) PROVE Feedback!Owed(o)'
    BY <1>1, <1>3, <1>9, <1>11, <2>5 DEF Feedback!Owed, Feedback!ToReport
  <2>6. p < 100 => Feedback!Owed(x.op)'
    <3>1. ASSUME p < 100 PROVE y.at < Len(Checkpoints[x.op])
      BY <1>4, <1>5, <1>6, <1>7, <1>9, <3>1
    <3>2. p < 100 => Feedback!ToReport(i)'
      BY <1>4, <1>5, <1>9, <1>11, <3>1 DEF Feedback!ToReport, Feedback!FeedbackAssumption
    <3> QED BY <1>9, <1>11, <3>2 DEF Feedback!Owed
  <2>7. \A o \in DOMAIN v5' \cap Streamed : Feedback!Underway(o)' \/ Feedback!Owed(o)'
    <3>1. ASSUME NEW o, Feedback!Underway(o) PROVE Feedback!Underway(o)'
      <4>1. PICK j \in 1..n : v4[j][1] = o
        BY <2>2, <3>1 DEF Feedback!Underway, Feedback!Announced, Feedback!Range
      <4>2. j \in 1..(n + 1) /\ v4'[j] = v4[j] BY <2>4
      <4> QED BY <2>4, <4>1, <4>2 DEF Feedback!Underway, Feedback!Announced, Feedback!Range
    <3>2. Feedback!Underway(x.op)' BY <2>4 DEF Feedback!Underway, Feedback!Announced, Feedback!Range
    <3> QED BY <1>1, <2>5, <3>1, <3>2 DEF Feedback!StreamsKept
  <2>8. ASSUME NEW j \in DOMAIN v4', v4'[j][2] < 100, NEW o, o = v4'[j][1]
        PROVE  Feedback!Owed(o)' \/ \E k \in (j + 1)..Len(v4') : v4'[k][1] = o
    <3>1. CASE j = n + 1
      <4>1. o = x.op /\ p < 100 BY <2>4, <2>8, <3>1
      <4> QED BY <2>6, <4>1
    <3>2. CASE j # n + 1 /\ o = x.op
      <4>1. j \in 1..n /\ n + 1 \in (j + 1)..Len(v4') BY <2>4, <3>2
      <4>2. v4'[n + 1][1] = o BY <2>4, <3>2
      <4> QED BY <4>1, <4>2
    <3>3. CASE j # n + 1 /\ o # x.op
      <4>1. j \in 1..n /\ v4'[j] = v4[j] /\ o = v4[j][1] /\ v4[j][2] < 100
        BY <2>4, <2>8, <3>3
      <4>2. o \in Streamed BY <2>1, <2>2, <4>1
      <4>3. CASE Feedback!Owed(o) BY <2>5, <3>3, <4>2, <4>3
      <4>4. CASE ~Feedback!Owed(o)
        <5>1. PICK k \in (j + 1)..n : v4[k][1] = o
          BY <2>2, <4>1, <4>4 DEF Feedback!StreamsKept
        <5>2. k \in 1..n /\ k \in (j + 1)..Len(v4') BY <2>4, <4>1, <5>1
        <5>3. v4'[k] = v4[k] BY <2>4, <5>2
        <5> QED BY <5>1, <5>2, <5>3
      <4> QED BY <4>3, <4>4
    <3> QED BY <3>1, <3>2, <3>3
  <2>9. Feedback!StreamsKept'
    <3>1. v3' /\ DOMAIN v5' \cap Streamed = DOMAIN v5 \cap Streamed
      BY <1>1, <1>15
    <3>2. ASSUME NEW j \in DOMAIN v4', v4'[j][2] < 100, NEW o, o = v4'[j][1]
          PROVE  \/ o \in v11'
                 \/ \E m \in DOMAIN v1' : v1'[m].op = o /\ Feedback!ToReport(m)'
                 \/ \E k \in (j + 1)..Len(v4') : v4'[k][1] = o
      BY <2>8, <3>2 DEF Feedback!Owed
    <3>3. ASSUME NEW j \in DOMAIN v4', v4'[j][2] < 100
          PROVE  \/ v4'[j][1] \in v11'
                 \/ \E m \in DOMAIN v1' : v1'[m].op = v4'[j][1] /\ Feedback!ToReport(m)'
                 \/ \E k \in (j + 1)..Len(v4') : v4'[k][1] = v4'[j][1]
      BY <3>2, <3>3
    <3>4. v4' \in Seq(Streamed \X (0..100)) BY <2>4
    <3> QED BY <2>7, <3>1, <3>3, <3>4 DEF Feedback!StreamsKept, Feedback!Owed
  <2> QED BY <1>2, <1>13, <2>9
<1> QED BY <1>14, <1>15

(* An event is heard.  The one that takes an entry away is not owed to     *)
(* anybody after it, unless another is on its way.                         *)
LEMMA EventHeard ==
  ASSUME Feedback!FeedbackAssumption, Feedback!CallsKept, Feedback!StreamsKept,
    Feedback!LineKept, Feedback!Hear
  PROVE  Feedback!LineKept' /\ Feedback!CallsKept' /\ Feedback!StreamsKept'
<1>1. UNCHANGED <<v1, v2, v3>> /\ v4 # <<>> /\ v4' = Tail(v4) /\ v3
  BY DEF Feedback!Hear, Feedback!StreamsKept
<1>2. v4 \in Seq(Streamed \X (0..100)) BY DEF Feedback!StreamsKept
<1>3. PICK n \in Nat \ {0} : n = Len(v4) /\ DOMAIN v4 = 1..n
  BY <1>1, <1>2, EmptySeq
<1>4. /\ v4' \in Seq(Streamed \X (0..100)) /\ Len(v4') = n - 1
      /\ DOMAIN v4' = 1..(n - 1) /\ Head(v4) = v4[1]
      /\ \A j \in 1..(n - 1) : v4'[j] = v4[j + 1]
  BY <1>1, <1>2, <1>3, HeadTailProperties
<1>5. PICK h \in Streamed, p \in 0..100 : Head(v4) = <<h, p>>
  <2>1. 1 \in 1..Len(v4) BY <1>3
  <2>2. v4[1] \in Streamed \X (0..100) BY <1>2, <2>1, ElementOfSeq
  <2>3. PICK e \in Streamed \X (0..100) : e = Head(v4) BY <1>4, <2>2
  <2>4. e = <<e[1], e[2]>> /\ e[1] \in Streamed /\ e[2] \in 0..100 OBVIOUS
  <2> QED BY <2>3, <2>4
<1>6. h = v4[1][1] /\ p = v4[1][2] BY <1>4, <1>5
<1>7. \A o : Feedback!Underway(o)' <=> \E k \in 2..n : v4[k][1] = o
  <2>1. ASSUME NEW o, Feedback!Underway(o)' PROVE \E k \in 2..n : v4[k][1] = o
    <3>1. PICK j \in 1..(n - 1) : v4'[j][1] = o
      BY <1>4, <2>1 DEF Feedback!Underway, Feedback!Announced, Feedback!Range
    <3>2. j + 1 \in 2..n /\ v4[j + 1][1] = o BY <1>3, <1>4, <3>1
    <3> QED BY <3>2
  <2>2. ASSUME NEW o, NEW k \in 2..n, v4[k][1] = o PROVE Feedback!Underway(o)'
    <3>1. k - 1 \in 1..(n - 1) BY <1>3, <2>2
    <3>2. v4'[k - 1] = v4[k] BY <1>3, <1>4, <2>2, <3>1
    <3> QED BY <1>4, <2>2, <3>1, <3>2 DEF Feedback!Underway, Feedback!Announced, Feedback!Range
  <2> QED BY <2>1, <2>2
<1>8. \A o \in Streamed : o # h /\ Feedback!Underway(o) => Feedback!Underway(o)'
  <2>1. ASSUME NEW o \in Streamed, o # h, Feedback!Underway(o) PROVE Feedback!Underway(o)'
    <3>1. PICK j \in 1..n : v4[j][1] = o
      BY <1>3, <2>1 DEF Feedback!Underway, Feedback!Announced, Feedback!Range
    <3>2. j \in 2..n BY <1>3, <1>6, <2>1, <3>1
    <3> QED BY <1>7, <3>1, <3>2
  <2> QED BY <2>1
<1>9. \A o \in Streamed : o # h \/ Feedback!Underway(o)' => (Feedback!Owed(o) => Feedback!Owed(o)')
  <2>1. \A o \in v11 : o # h \/ Feedback!Underway(o)' => o \in v11'
    BY <1>1, <1>5 DEF Feedback!Hear, Feedback!Underway
  <2> QED BY <1>1, <2>1 DEF Feedback!Owed, Feedback!ToReport
<1>10. /\ Feedback!LineKept'
       /\ IF p >= 100 THEN DOMAIN v5' = DOMAIN v5 \ {h}
                      ELSE DOMAIN v5' = DOMAIN v5 \cup {h} /\ UNCHANGED v11
  <2>1. CASE p >= 100
    <3>1. Feedback!Removes(h) BY <1>5, <2>1 DEF Feedback!Hear
    <3> QED BY <2>1, <3>1, LineRemoves
  <2>2. CASE p < 100
    <3>1. Feedback!Shows(h, p) /\ UNCHANGED v11 BY <1>5, <2>2 DEF Feedback!Hear
    <3>2. p \in 0..99 BY <2>2
    <3> QED BY <2>2, <3>1, <3>2, LineShows
  <2> QED BY <2>1, <2>2
<1>11. Feedback!CallsKept' BY <1>1, <1>5, <1>10 DEF Feedback!CallsKept
<1>12. ASSUME NEW j \in 1..n, NEW o, o = v4[j][1], v4[j][2] < 100
       PROVE  Feedback!Owed(o) \/ \E k \in (j + 1)..n : v4[k][1] = o
  BY <1>3, <1>12 DEF Feedback!StreamsKept
<1>13. ASSUME NEW o \in DOMAIN v5' \cap Streamed
       PROVE Feedback!Underway(o)' \/ Feedback!Owed(o)'
  <2>1. CASE o # h
    <3>1. o \in DOMAIN v5 BY <1>10, <1>13, <2>1
    <3> QED BY <1>8, <1>9, <2>1, <3>1 DEF Feedback!StreamsKept
  <2>2. CASE o = h
    <3>1. p < 100 /\ UNCHANGED v11 BY <1>10, <1>13, <2>2
    <3>2. 1 \in 1..n BY <1>3
    <3>3. Feedback!Owed(o) \/ \E k \in 2..n : v4[k][1] = o BY <1>6, <1>12, <2>2, <3>1, <3>2
    <3>4. Feedback!Owed(o) => Feedback!Owed(o)'
      BY <1>1, <3>1 DEF Feedback!Owed, Feedback!ToReport
    <3> QED BY <1>7, <3>3, <3>4
  <2> QED BY <2>1, <2>2
<1>14. ASSUME NEW j \in DOMAIN v4', v4'[j][2] < 100, NEW o, o = v4'[j][1]
       PROVE  Feedback!Owed(o)' \/ \E k \in (j + 1)..Len(v4') : v4'[k][1] = o
  <2>1. j \in 1..(n - 1) /\ j + 1 \in 1..n /\ j + 1 \in 2..n BY <1>3, <1>4
  <2>2. o = v4[j + 1][1] /\ v4[j + 1][2] < 100 BY <1>4, <1>14, <2>1
  <2>3. o \in Streamed BY <1>2, <1>3, <2>1, <2>2
  <2>4. Feedback!Underway(o)' BY <1>7, <2>1, <2>2
  <2>5. CASE Feedback!Owed(o) BY <1>9, <2>3, <2>4, <2>5
  <2>6. CASE \E k \in (j + 1 + 1)..n : v4[k][1] = o
    <3>1. PICK k \in (j + 1 + 1)..n : v4[k][1] = o BY <2>6
    <3>2. k - 1 \in 1..(n - 1) /\ k - 1 \in (j + 1)..Len(v4') BY <1>3, <1>4, <2>1, <3>1
    <3>3. v4'[k - 1] = v4[k] BY <1>3, <1>4, <3>1, <3>2
    <3> QED BY <3>1, <3>2, <3>3
  <2> QED BY <1>12, <2>1, <2>2, <2>5, <2>6
<1>15. Feedback!StreamsKept'
  BY <1>1, <1>4, <1>13, <1>14 DEF Feedback!StreamsKept, Feedback!Owed, Feedback!ToReport
<1> QED BY <1>10, <1>11, <1>15

LEMMA TellingStarts == ASSUME Feedback!Init PROVE Feedback!Telling
<1>1. DOMAIN v5 = {} /\ DOMAIN v1 = {} /\ DOMAIN v4 = {} /\ DOMAIN v10 = {}
  BY DEF Feedback!Init
<1>2. Feedback!LineKept
  <2>1. v5 \in [DOMAIN v5 -> 0..99] BY <1>1 DEF Feedback!Init
  <2> QED BY <1>1, <2>1, FS_EmptySet, SameFinite DEF Feedback!Init, Feedback!LineKept
<1>3. Feedback!CallsKept
  <2>1. v1 \in [DOMAIN v1 -> [op : Streamed \cup {None}, at : Nat, pc : {"out", "answered"}]]
    BY <1>1 DEF Feedback!Init
  <2> QED BY <1>1, <2>1 DEF Feedback!Init, Feedback!CallsKept
<1>4. Feedback!StreamsKept
  <2>1. v4 \in Seq(Streamed \X (0..100)) /\ v4 = <<>> BY DEF Feedback!Init
  <2>2. v3 \in BOOLEAN BY DEF Feedback!Init
  <2> QED BY <1>1, <2>1, <2>2 DEF Feedback!StreamsKept
<1>5. Feedback!ToastsKept BY <1>1 DEF Feedback!Init, Feedback!ToastsKept
<1> QED BY <1>2, <1>3, <1>4, <1>5 DEF Feedback!Telling

(* A step that leaves calls and streams alone.                             *)
LEMMA TellingAside ==
  ASSUME Feedback!Telling, UNCHANGED <<v1, v2, v3, v4, v11>>,
         DOMAIN v5' = DOMAIN v5
  PROVE  Feedback!CallsKept' /\ Feedback!StreamsKept'
<1>1. Feedback!CallsKept' BY DEF Feedback!Telling, Feedback!CallsKept
<1>2. \A o \in Streamed : Feedback!Owed(o) => Feedback!Owed(o)'
  BY DEF Feedback!Owed, Feedback!ToReport
<1>3. Feedback!StreamsKept' BY <1>2, StreamsStay DEF Feedback!Telling, Feedback!StreamsKept
<1> QED BY <1>1, <1>3

LEMMA TellingStep == ASSUME Feedback!FeedbackAssumption, Feedback!Telling,
  Feedback!Next PROVE Feedback!Telling'
<1>1. Feedback!LineKept /\ Feedback!CallsKept /\ Feedback!StreamsKept /\ Feedback!ToastsKept
  BY DEF Feedback!Telling
<1>2. ASSUME NEW o \in Streamed \cup {None}, Feedback!Begin(o) PROVE Feedback!Telling'
  <2>1. UNCHANGED v10 BY <1>2 DEF Feedback!Begin
  <2> QED BY <1>1, <1>2, <2>1, CallBegins DEF Feedback!Telling, Feedback!ToastsKept
<1>3. ASSUME NEW i \in DOMAIN v1, Feedback!Report(i) PROVE Feedback!Telling'
  <2>1. UNCHANGED v10 BY <1>3 DEF Feedback!Report
  <2> QED BY <1>1, <1>3, <2>1, CallReports DEF Feedback!Telling, Feedback!ToastsKept
<1>4. ASSUME NEW i \in DOMAIN v1, Feedback!Answer(i) PROVE Feedback!Telling'
  <2>1. Feedback!Tells BY <1>4 DEF Feedback!Answer
  <2> QED BY <1>1, <1>4, <2>1, CallAnswered, ToastsTell DEF Feedback!Telling
<1>5. ASSUME NEW i \in DOMAIN v1, Feedback!End(i) PROVE Feedback!Telling'
  <2>1. UNCHANGED v10 BY <1>5 DEF Feedback!End
  <2> QED BY <1>1, <1>5, <2>1, CallEnds DEF Feedback!Telling, Feedback!ToastsKept
<1>6. CASE Feedback!Hear
  <2>1. UNCHANGED v10 BY <1>6 DEF Feedback!Hear
  <2> QED BY <1>1, <1>6, <2>1, EventHeard DEF Feedback!Telling, Feedback!ToastsKept
<1>7. CASE Feedback!Listen
  <2>1. UNCHANGED <<v1, v2, v4, v5, v6, v7, v8, v10, v11>>
        /\ v3' = TRUE
    BY <1>7 DEF Feedback!Listen, Feedback!line
  <2>2. Feedback!LineKept' /\ Feedback!CallsKept' /\ Feedback!ToastsKept'
    BY <1>1, <2>1 DEF Feedback!LineKept, Feedback!CallsKept, Feedback!ToastsKept
  <2>3. \A o \in Streamed : Feedback!Owed(o) => Feedback!Owed(o)'
    BY <2>1 DEF Feedback!Owed, Feedback!ToReport
  <2>4. Feedback!StreamsKept' BY <1>1, <2>1, <2>3, StreamsStay
  <2> QED BY <2>2, <2>4 DEF Feedback!Telling
<1>8. ASSUME NEW i \in DOMAIN v10,
             Feedback!Close(i) \/ Feedback!Enter(i) \/ Feedback!Expire(i) \/ Feedback!Drop(i)
      PROVE  Feedback!Telling'
  <2>1. UNCHANGED <<v1, v2, v3, v4, v11, v5, v6, v7, v8>>
    BY <1>8 DEF Feedback!Close, Feedback!Enter, Feedback!Expire, Feedback!Drop, Feedback!line
  <2>2. Feedback!CallsKept' /\ Feedback!StreamsKept' BY <2>1, TellingAside
  <2>3. Feedback!LineKept' BY <1>1, <2>1 DEF Feedback!LineKept
  <2>4. Feedback!ToastsKept' BY <1>1, <1>8, ToastsChange
  <2> QED BY <2>2, <2>3, <2>4 DEF Feedback!Telling
<1>9. ASSUME NEW t \in v8, Feedback!Fires(t) PROVE Feedback!Telling'
  <2>1. UNCHANGED <<v1, v2, v3, v4, v11, v5, v10>> BY <1>9 DEF Feedback!Fires
  <2>2. Feedback!CallsKept' /\ Feedback!StreamsKept' BY <2>1, TellingAside
  <2>3. Feedback!LineKept' BY <1>1, <1>9, LineFires
  <2> QED BY <1>1, <2>1, <2>2, <2>3 DEF Feedback!Telling, Feedback!ToastsKept
<1>10. ASSUME NEW i \in v9, Feedback!Climb(i) PROVE Feedback!Telling'
  <2>1. UNCHANGED <<v1, v2, v3, v4, v11, v10>> BY <1>10 DEF Feedback!Climb
  <2>2. Feedback!LineKept' /\ DOMAIN v5' = DOMAIN v5 BY <1>1, <1>10, LineClimbs
  <2>3. Feedback!CallsKept' /\ Feedback!StreamsKept' BY <2>1, <2>2, TellingAside
  <2> QED BY <1>1, <2>1, <2>2, <2>3 DEF Feedback!Telling, Feedback!ToastsKept
<1> QED
  BY <1>2, <1>3, <1>4, <1>5, <1>6, <1>7, <1>8, <1>9, <1>10
  DEF Feedback!Next, Feedback!FiresSome, Feedback!ClimbsSome, Feedback!ToastTimeout

LEMMA TellingStays == ASSUME Feedback!Telling, UNCHANGED Feedback!vars PROVE Feedback!Telling'
<1>1. UNCHANGED <<v1, v2, v3, v4, v11, v5, v6, v7, v8,
                  v10>>
  BY DEF Feedback!vars, Feedback!line
<1>2. Feedback!CallsKept' /\ Feedback!StreamsKept' BY <1>1, TellingAside
<1>3. Feedback!LineKept' /\ Feedback!ToastsKept'
  BY <1>1 DEF Feedback!Telling, Feedback!LineKept, Feedback!ToastsKept
<1> QED BY <1>2, <1>3 DEF Feedback!Telling

LEMMA TellingSafe ==
  ASSUME Feedback!FeedbackAssumption,
    Feedback!Telling PROVE Feedback!LineTellsOfWork /\ Feedback!EntriesOfCalls /\ Feedback!ToastSeen
<1>1. Feedback!LineTellsOfWork
  <2>1. DOMAIN v5 # {} <=> v6 = "Running" BY DEF Feedback!Telling, Feedback!LineKept
  <2>2. v6 = "Running" => Feedback!Aggregate < 100 BY <2>1, AggregateBelow DEF Feedback!Telling
  <2> QED BY <2>1, <2>2 DEF Feedback!LineTellsOfWork
<1>2. Feedback!EntriesOfCalls
  <2>1. DOMAIN v5 \ Streamed = DOMAIN v1 BY DEF Feedback!Telling, Feedback!CallsKept
  <2>2. \A o \in DOMAIN v5 \cap Streamed : Feedback!Underway(o) \/ Feedback!Owed(o)
    BY DEF Feedback!Telling, Feedback!StreamsKept
  <2> QED BY <2>1, <2>2 DEF Feedback!EntriesOfCalls, Feedback!Owed, Feedback!ToReport
<1>3. Feedback!ToastSeen
  BY DEF Feedback!Telling, Feedback!ToastsKept, Feedback!ToastSeen
<1> QED BY <1>1, <1>2, <1>3

LEMMA FeedbackKept == Spec => [](part = "feedback" => Feedback!Telling)
<1>1. Init => (part = "feedback" => Feedback!Telling) BY TellingStarts, WindowAssumption DEF Init
<1>2. (part = "feedback" => Feedback!Telling) /\ [Next]_vars
        => (part = "feedback" => Feedback!Telling)'
  <2> SUFFICES ASSUME part' = "feedback", part' = "feedback" /\ part = part' => Feedback!Telling,
                      [Next]_vars
               PROVE  Feedback!Telling'
    BY Onward
  <2>1. part = "feedback" BY Onward
  <2>2. CASE UNCHANGED vars
    <3>1. UNCHANGED Feedback!vars BY <2>2 DEF vars, Feedback!vars, Feedback!line
    <3> QED BY <2>1, <3>1, TellingStays
  <2>3. CASE Feedback!Next BY <2>1, <2>3, TellingStep, WindowAssumption
  <2> QED BY <2>1, <2>2, <2>3 DEF Next
<1> QED BY <1>1, <1>2, PTL DEF Spec

(* The line is there as long as an entry is and not yet full, every call   *)
(* has its entry and every entry its call, but for that of a stream that   *)
(* failed, and no toast goes unseen; the dialog for a remote path settles, *)
(* and a clone's answer closes no other one: for any streams with their    *)
(* checkpoints, any number of calls, toasts and timers, and in whatever    *)
(* order they fire, are heard and answered (ProgressHandle, ToastHandle,   *)
(* RemoteCloneDialog).                                                     *)
THEOREM WindowIsSafe == Spec => []WindowSafe
<1>1. /\ part = "feedback" => Feedback!Telling
      /\ part = "clones" => Clones!Dialogued
      => WindowSafe
  BY TellingSafe, DialoguedSafe, WindowAssumption DEF WindowSafe
<1> QED BY <1>1, FeedbackKept, ClonesKept, PTL
=============================================================================
