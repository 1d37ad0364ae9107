---------------------------- MODULE Preferences -----------------------------
(***************************************************************************)
(* The language and the page size: two signals of the window, two settings *)
(* of the database, and the calls between them, which land and are answered*)
(* in any order.  The window starts with guesses, sets out to read what was*)
(* saved, and saves every change.  The list on the screen is paged by the  *)
(* page size; Repos, Keys and Connect page alike.                          *)
(***************************************************************************)
EXTENDS Naturals, Sequences

CONSTANTS
  Langs,     \* Locale, each by the code it is saved with
  WebView,   \* the subtags of the webview's language
  Sizes,     \* page sizes the selector offers
  Default,   \* DEFAULT_PAGE_SIZE
  Counts,    \* how many rows the filters may leave of a list
  Workers,   \* calls that may be in flight at the same time
  None

\* What from_code reads as the code of another locale, or of none.
Aliases == {"", "zh", "in", "no", "nn", "tl"}

PreferencesAssumption ==
  /\ "en" \in Langs /\ None \notin Langs /\ Langs \cap Aliases = {}
  /\ WebView \in Seq(STRING)
  /\ Default \in Sizes /\ Sizes \subseteq 1..500
  /\ Counts \subseteq Nat

VARIABLES
  saved,    \* the settings: language and page_size
  locale,   \* the locale signal
  size,     \* the page_size signal
  boot,     \* what the window is reading at its start, and the answer
  job,      \* job[w]: the save in flight on w
  mounted,  \* whether a list is on the screen
  count,    \* rows of the list that match
  page,     \* its page signal
  atStart,  \* history: the settings when the window started
  touched,  \* history: what the user has changed since
  upset     \* history: saves that failed or met in a way no code watches

window == <<locale, size, boot, mounted, count, page>>
history == <<atStart, touched, upset>>
vars == <<saved, window, job, history>>
-----------------------------------------------------------------------------
\* Locale::code, taken apart at the hyphens.
Code(l) ==
  CASE l = "zh-Hans" -> <<"zh", "hans">>
    [] l = "zh-Hant" -> <<"zh", "hant">>
    [] OTHER -> <<l>>

Subtag(code, i) == IF i <= Len(code) THEN code[i] ELSE ""

\* The script decides, or the region of a code without one.
Zh(second, third) ==
  IF \/ second = "hant"
     \/ second # "hans" /\ third = "hant"
     \/ second \in {"tw", "hk", "mo"} /\ third = ""
    THEN "zh-Hant" ELSE "zh-Hans"

Alias(tag) ==
  CASE tag = "in" -> "id"
    [] tag \in {"no", "nn"} -> "nb"
    [] tag = "tl" -> "fil"
    [] OTHER -> tag

\* Locale::from_code: English for what it does not know.
FromCode(code) ==
  IF Subtag(code, 1) = "zh" THEN Zh(Subtag(code, 2), Subtag(code, 3))
  ELSE IF Alias(Subtag(code, 1)) \in Langs THEN Alias(Subtag(code, 1)) ELSE "en"

Detected == FromCode(WebView)

\* A save that was sent: of a language's code, or of a page size.
Save(op, value) ==
  [op |-> op, code |-> IF op = "size" THEN None ELSE value,
   size |-> IF op = "size" THEN value ELSE None, pc |-> "sent"]

Idle == Save("idle", None)
Active(w) == job[w].op # "idle"
Becomes(w, j) == job' = [job EXCEPT ![w] = j]
Ends(w) == Becomes(w, Idle)
Saving(op) == \E w \in Workers : job[w].op = op

Sends(w, op, value) ==
  /\ ~Active(w)
  /\ Becomes(w, Save(op, value))

Marked(op) == upset' = upset \cup {op}

\* Mutant of PageCount: rounds down.
PageCountDown(n, s) == n \div s

\* filtered_count.div_ceil(size)
PageCount(n, s) == (n + s - 1) \div s

AtLeast1(n) == IF n = 0 THEN 1 ELSE n
Clamp(p, n, s) ==
  IF p < 1 THEN 1 ELSE IF p > AtLeast1(PageCount(n, s)) THEN AtLeast1(PageCount(n, s)) ELSE p

\* paged: skip the pages before, take one.
Shown(p, n, s) == {i \in 1..n : (p - 1) * s < i /\ i <= p * s}

\* The window opens on a list, whose effect saves the page size of the start.
StartBoot == [pc |-> "language", answer |-> None, read |-> FALSE]
StartJob(w) ==
  [v \in Workers |-> IF v = w THEN Save("size", Default) ELSE Idle]

Init ==
  /\ saved = [language |-> None, size |-> None]
  /\ locale = Detected /\ size = Default
  /\ boot = StartBoot /\ \E w \in Workers : job = StartJob(w)
  /\ mounted = TRUE /\ count = 0 /\ page = 1
  /\ atStart = saved /\ touched = {} /\ upset = {}

Starts ==
  /\ locale' = Detected /\ size' = Default
  /\ boot' = StartBoot /\ \E w \in Workers : job' = StartJob(w)
  /\ mounted' = TRUE /\ count' = 0 /\ page' = 1
  /\ atStart' = saved /\ touched' = {} /\ upset' = {}

\* The application is closed, or ends: what was on its way is lost.
Restart ==
  /\ UNCHANGED saved
  /\ Starts
-----------------------------------------------------------------------------
(* The start of the window reads one setting after the other.              *)

BootReads ==
  /\ boot.pc # "done" /\ ~boot.read
  /\ boot' = [boot EXCEPT !.read = TRUE,
                          !.answer = IF boot.pc = "language" THEN saved.language ELSE saved.size]
  /\ UNCHANGED <<saved, locale, size, mounted, count, page, job, history>>

BootFails ==
  /\ boot.pc # "done" /\ ~boot.read
  /\ boot' = [boot EXCEPT !.read = TRUE]
  /\ Marked(boot.pc)
  /\ UNCHANGED <<saved, locale, size, mounted, count, page, job, atStart, touched>>

BootLanguage ==
  /\ boot.pc = "language" /\ boot.read
  /\ boot' = [pc |-> "size", answer |-> None, read |-> FALSE]
  /\ locale' = IF boot.answer = None THEN locale ELSE FromCode(boot.answer)
  /\ UNCHANGED <<saved, size, mounted, count, page, job, history>>

\* The signal of the page size: the effects of a list correct the page and
\* save the size, overtaking nobody's save that is still on its way.
Overlap(op) == IF Saving(op) THEN Marked(op) ELSE UNCHANGED upset

SetSize(w, n) ==
  /\ size' = n
  /\ page' = IF mounted THEN Clamp(page, count, n) ELSE page
  /\ IF mounted THEN Sends(w, "size", n) /\ Overlap("size") ELSE UNCHANGED <<job, upset>>

\* validate_page_size
BootSize(w) ==
  /\ boot.pc = "size" /\ boot.read
  /\ boot' = [pc |-> "done", answer |-> None, read |-> FALSE]
  /\ IF boot.answer \in 1..500 THEN SetSize(w, boot.answer) ELSE UNCHANGED <<size, page, job, upset>>
  /\ UNCHANGED <<saved, locale, mounted, count, atStart, touched>>
-----------------------------------------------------------------------------
(* The user.                                                               *)

ChooseSize(w, n) ==
  /\ mounted
  /\ SetSize(w, n)
  /\ touched' = touched \cup {"size"}
  /\ UNCHANGED <<saved, locale, boot, mounted, count, atStart>>

\* apply_locale.  What a repair writes is watched by nobody, nor is an answer
\* of the start that comes later than the choice.
ChooseLanguage(w, l) ==
  /\ l # locale
  /\ locale' = l
  /\ Sends(w, "language", Code(l))
  /\ touched' = touched \cup {"language"}
  /\ IF Saving("repair") \/ boot.pc = "language" THEN Marked("language") ELSE UNCHANGED upset
  /\ UNCHANGED <<saved, size, boot, mounted, count, page, atStart>>

\* Another section, or the sign-in screen; opened again the list is on page 1.
LeaveList ==
  /\ mounted /\ mounted' = FALSE
  /\ count' = 0 /\ page' = 1
  /\ UNCHANGED <<saved, locale, size, boot, job, history>>

OpenList(w) ==
  /\ ~mounted /\ mounted' = TRUE
  /\ Sends(w, "size", size) /\ Overlap("size")
  /\ UNCHANGED <<saved, locale, size, boot, count, page, atStart, touched>>

\* A list is answered; filters, which go back to page 1.
ListChanges(n) ==
  /\ mounted
  /\ count' = n /\ page' = Clamp(page, n, size)
  /\ UNCHANGED <<saved, locale, size, boot, mounted, job, history>>

Filter(n) ==
  /\ mounted
  /\ count' = n /\ page' = 1
  /\ UNCHANGED <<saved, locale, size, boot, mounted, job, history>>

\* The arrows, and "go to page".
GoTo(p) ==
  /\ mounted
  /\ page' = Clamp(p, count, size)
  /\ UNCHANGED <<saved, locale, size, boot, mounted, count, job, history>>
-----------------------------------------------------------------------------
(* The saves: set_language and set_page_size.                              *)

Setting(op) == IF op = "size" THEN "size" ELSE "language"

Land(w) ==
  /\ Active(w) /\ job[w].pc = "sent"
  /\ saved' = IF Setting(job[w].op) = "size" THEN [saved EXCEPT !.size = job[w].size]
              ELSE [saved EXCEPT !.language = job[w].code]
  /\ Becomes(w, [job[w] EXCEPT !.pc = "landed"])
  /\ UNCHANGED <<window, history>>

LandFails(w) ==
  /\ Active(w) /\ job[w].pc = "sent"
  /\ Becomes(w, [job[w] EXCEPT !.pc = "landed"])
  /\ Marked(Setting(job[w].op))
  /\ UNCHANGED <<saved, window, atStart, touched>>

\* Mutant of AnsweredLanguage: a late save is left as it is.
AnsweredLanguageLate(w) ==
  /\ job[w].op = "language" /\ job[w].pc = "landed"
  /\ Ends(w)
  /\ UNCHANGED <<saved, window, history>>

\* "If this older save finishes after a newer selection, repair the persisted
\* value."
AnsweredLanguage(w) ==
  /\ job[w].op = "language" /\ job[w].pc = "landed"
  /\ IF Code(locale) = job[w].code THEN Ends(w)
     ELSE Becomes(w, Save("repair", Code(locale)))
  /\ UNCHANGED <<saved, window, history>>

Answered(w) ==
  /\ job[w].op \in {"size", "repair"} /\ job[w].pc = "landed"
  /\ Ends(w)
  /\ UNCHANGED <<saved, window, history>>
-----------------------------------------------------------------------------
Turns == (UNION {1..n : n \in Counts}) \cup {0}   \* page numbers typed

Next ==
  \/ Restart
  \/ BootReads \/ BootFails \/ BootLanguage
  \/ \E w \in Workers :
       \/ BootSize(w)
       \/ \E n \in Sizes : ChooseSize(w, n)
       \/ \E l \in Langs : ChooseLanguage(w, l)
       \/ OpenList(w) \/ Land(w) \/ LandFails(w) \/ AnsweredLanguage(w) \/ Answered(w)
  \/ LeaveList
  \/ \E n \in Counts :
       \/ ListChanges(n)
       \/ Filter(n)
  \/ \E p \in Turns : GoTo(p)

Spec == Init /\ [][Next]_vars
-----------------------------------------------------------------------------
(* The inductive invariant, in four parts.                                 *)
Locales == Langs \cup {"zh-Hans", "zh-Hant"}
Codes == {Code(l) : l \in Locales}

Jobs == [op : {"idle", "size", "language", "repair"}, code : Codes \cup {None},
         size : (1..500) \cup {None}, pc : {"sent", "landed"}]

Boots == [pc : {"language", "size", "done"}, read : BOOLEAN,
          answer : Codes \cup (1..500) \cup {None}]

Saves == [language : Codes \cup {None}, size : (1..500) \cup {None}]

Shapes ==
  /\ saved \in Saves
  /\ locale \in Locales /\ size \in 1..500
  /\ mounted \in BOOLEAN /\ count \in Nat /\ page \in Nat
  /\ boot \in Boots
  /\ boot.pc = "language" => boot.answer \in Codes \cup {None}
  /\ job \in [Workers -> Jobs]
  /\ \A w \in Workers : /\ job[w].op = "size" => job[w].size \in 1..500
                        /\ job[w].op \in {"language", "repair"} => job[w].code \in Codes
  /\ atStart \in Saves

(* A list on the screen has its size saved, or on its way in the only save *)
(* of a size.                                                              *)
SizeOnItsWay ==
  /\ \A v, w \in Workers : job[v].op = "size" /\ job[w].op = "size" => v = w
  /\ mounted => \A w \in Workers : job[w].op = "size" =>
       job[w].size = size /\ (job[w].pc = "landed" => saved.size = size)
  /\ mounted /\ ~Saving("size") => saved.size = size

(* Whatever older saves are still to land, the language of the window is   *)
(* saved, or on its way, or a save that has landed will find it is not the *)
(* one it saved and repair it.                                             *)
Ahead(j) == \/ j.op \in {"language", "repair"} /\ j.pc = "sent" /\ j.code = Code(locale)
            \/ j.op = "language" /\ j.pc = "landed" /\ j.code # Code(locale)

LanguageOnItsWay ==
  /\ \A w \in Workers : job[w].op = "repair" => job[w].code = Code(locale)
  /\ IF "language" \in touched
       THEN /\ boot.pc # "language"
            /\ saved.language = Code(locale) \/ \E w \in Workers : Ahead(job[w])
       ELSE /\ \A w \in Workers : job[w].op \notin {"language", "repair"}
            /\ saved.language = atStart.language

StartRead ==
  IF boot.pc = "language"
    THEN locale = Detected /\ (boot.read => boot.answer = atStart.language)
    ELSE IF atStart.language = None THEN locale = Detected
                                    ELSE Code(locale) = atStart.language

Kept ==
  /\ Shapes
  /\ "size" \notin upset => SizeOnItsWay
  /\ "language" \notin upset => LanguageOnItsWay
  /\ "language" \notin touched \cup upset => StartRead
-----------------------------------------------------------------------------
Quiet == boot.pc = "done" /\ \A w \in Workers : ~Active(w)

\* With no call in flight, the saved language is the one the user ended on,
\* however fast it was changed and however the saves landed, unless a save
\* failed, or the user chose while a repair or the read of the start was on its
\* way.
LanguageSettles ==
  Quiet /\ "language" \notin upset =>
    IF "language" \in touched THEN saved.language = Code(locale)
    ELSE saved.language = atStart.language

\* A start brings back the language that was saved, unless the user chooses
\* another or the read fails.
LanguageRestored ==
  boot.pc # "language" /\ "language" \notin touched \cup upset =>
    IF atStart.language = None THEN locale = Detected ELSE Code(locale) = atStart.language

\* With no call in flight, the saved page size is the one on the screen, unless
\* two saves of it overlapped or one failed.
PageSizeSettles ==
  Quiet /\ mounted /\ "size" \notin upset => saved.size = size

(* The saved language is the one the user ended on, the next start brings *)
(* it back, and the saved page size is the one shown (apply_locale with its*)
(* repair, the start of App, the effects that call set_page_size).         *)
SettingsKept == LanguageSettles /\ LanguageRestored /\ PageSizeSettles

(* A start brings back the page size that was saved, unless the user       *)
(* changes it or a call fails: page_size.rs says it is "restored from      *)
(* `app_settings` on startup".                                             *)
PageSizeRestored ==
  boot.pc = "done" /\ "size" \notin touched \cup upset =>
    size = IF atStart.size = None THEN Default ELSE atStart.size

(* However the list, the filters and the page size change, a list with     *)
(* matches shows some, and its pages show every match once.                *)
PagesShowTheMatches ==
  mounted =>
    /\ count > 0 => Shown(Clamp(page, count, size), count, size) # {}
    /\ UNION {Shown(p, count, size) : p \in 1..PageCount(count, size)} = 1..count
    /\ \A p, q \in 1..PageCount(count, size) :
         p # q => Shown(p, count, size) \cap Shown(q, count, size) = {}
=============================================================================
