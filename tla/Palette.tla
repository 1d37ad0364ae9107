------------------------------ MODULE Palette -------------------------------
(***************************************************************************)
(* The command palette and the theme (app.rs, theme.rs).  What the user    *)
(* types is abstracted to what it matches: everything, some labels, one    *)
(* label of one language, or nothing.  The palette remembers labels, in    *)
(* the language they were shown in, and offers them while nothing is       *)
(* typed.                                                                  *)
(***************************************************************************)
EXTENDS Naturals, Sequences, FiniteSets

CONSTANTS
  Langs,        \* locales
  MaxHistory    \* entries the palette remembers: 10 in the code

PaletteAssumption == MaxHistory \in Nat \ {0} /\ IsFiniteSet(Langs)

VARIABLES
  lang,      \* the locale signal
  palette,   \* CommandPalette's signals
  stored,    \* command_palette_history in the local storage
  theme,     \* the theme signal
  dark,      \* what the system prefers, and the class on the page
  slipped    \* history: the list has become shorter under the selection

vars == <<lang, palette, stored, theme, dark, slipped>>
-----------------------------------------------------------------------------
Commands == <<"repos", "connect", "keys", "toggle_theme", "change_language">>

\* Locale::ALL
LangList ==
  CHOOSE s \in [1..Cardinality(Langs) -> Langs] : \A l \in Langs : \E i \in DOMAIN s : s[i] = l

\* Texts: nothing, one that every label contains, one that none does, a label,
\* and one that two labels of a language contain and one of every other.
Label(c, l) == [of |-> c, lang |-> l]
Empty == Label("nothing", "any")
Common == Label("everything", "any")
Other == Label("other", "any")

LabelsIn(l) == [i \in 1..Len(Commands) |-> Label(Commands[i], l)]
Labels == {LabelsIn(l)[i] : l \in Langs, i \in 1..Len(Commands)}
LocaleNames == {Label("locale", l) : l \in Langs}
Shared(l) == Label("shared", l)
SharedTexts == {Shared(l) : l \in Langs}
Queries == {Empty, Common, Other} \cup SharedTexts \cup Labels \cup LocaleNames

\* filtered: the history, or the commands whose label contains the text.
Filtered(q, history, l) ==
  IF q = Empty THEN history
  ELSE IF q = Common THEN LabelsIn(l)
  ELSE IF q \in SharedTexts THEN SubSeq(LabelsIn(l), 1, IF q = Shared(l) THEN 2 ELSE 1)
  ELSE IF \E i \in 1..Len(Commands) : q = LabelsIn(l)[i] THEN <<q>> ELSE <<>>

\* filtered_locales
FilteredLocales(q) ==
  IF q \in {Empty, Common} THEN LangList
  ELSE IF q \in LocaleNames THEN <<q.lang>> ELSE <<>>

Listed(p, l) == IF p.choosing THEN FilteredLocales(p.query) ELSE Filtered(p.query, p.history, l)

\* The history without its k-th entry, and without a label: it is there once.
Without(h, k) == [i \in 1..(Len(h) - 1) |-> h[IF i < k THEN i ELSE i + 1]]

Dropped(h, label) ==
  IF \E i \in DOMAIN h : h[i] = label THEN Without(h, CHOOSE i \in DOMAIN h : h[i] = label)
  ELSE h

Init ==
  /\ lang \in Langs
  /\ stored \in {<<>>} \cup {<<x>> : x \in Labels}
  /\ palette = [open |-> FALSE, query |-> Empty, selected |-> 0, choosing |-> FALSE,
                history |-> stored]
  /\ theme = "System" /\ \E d \in BOOLEAN : dark = [system |-> d, page |-> d, heard |-> TRUE]
  /\ slipped = FALSE

Reset(p) == [p EXCEPT !.query = Empty, !.selected = 0, !.choosing = FALSE]
-----------------------------------------------------------------------------
(* Themes.                                                                 *)

\* The effect of provide_theme.
ThemeSet(t) ==
  /\ theme' = t
  /\ dark' = [dark EXCEPT !.page = IF t = "System" THEN dark.system ELSE t = "Dark",
                          !.heard = (t = "System")]

NextTheme == CASE theme = "System" -> "Light" [] theme = "Light" -> "Dark" [] theme = "Dark" -> "System"

\* The header's toggle, and the three buttons of the settings.
ToggleTheme ==
  /\ ~palette.open /\ ThemeSet(NextTheme)
  /\ UNCHANGED <<lang, palette, stored, slipped>>

ChooseTheme(t) ==
  /\ ~palette.open /\ ThemeSet(t)
  /\ UNCHANGED <<lang, palette, stored, slipped>>

\* The system's own change, which MediaListener hears while it is attached.
SystemTurns ==
  /\ dark' = [dark EXCEPT !.system = ~@, !.page = IF dark.heard THEN ~dark.system ELSE @]
  /\ UNCHANGED <<lang, palette, stored, theme, slipped>>
-----------------------------------------------------------------------------
(* The palette.                                                            *)

\* Cmd+K, which also reaches a palette that is open.
OpenPalette ==
  /\ palette' = [Reset(palette) EXCEPT !.open = TRUE]
  /\ slipped' = FALSE
  /\ UNCHANGED <<lang, stored, theme, dark>>

ClickBeside ==
  /\ palette.open /\ palette' = [palette EXCEPT !.open = FALSE]
  /\ UNCHANGED <<lang, stored, theme, dark, slipped>>

Escape ==
  /\ palette.open
  /\ palette' = IF palette.choosing THEN Reset(palette) ELSE [palette EXCEPT !.open = FALSE]
  /\ slipped' = (slipped /\ ~palette.choosing)
  /\ UNCHANGED <<lang, stored, theme, dark>>

\* Mutant of Type: the selection stays where it was.
TypeStays(q) ==
  /\ palette.open /\ q # palette.query
  /\ palette' = [palette EXCEPT !.query = q]
  /\ slipped' = FALSE
  /\ UNCHANGED <<lang, stored, theme, dark>>

Type(q) ==
  /\ palette.open /\ q # palette.query
  /\ palette' = [palette EXCEPT !.query = q, !.selected = 0]
  /\ slipped' = FALSE
  /\ UNCHANGED <<lang, stored, theme, dark>>

Down ==
  /\ palette.open /\ Listed(palette, lang) # <<>>
  /\ LET last == Len(Listed(palette, lang)) - 1 IN
       palette' = [palette EXCEPT !.selected = IF @ + 1 < last THEN @ + 1 ELSE last]
  /\ slipped' = FALSE
  /\ UNCHANGED <<lang, stored, theme, dark>>

Up ==
  /\ palette.open /\ palette.selected > 0
  /\ palette' = [palette EXCEPT !.selected = @ - 1]
  /\ UNCHANGED <<lang, stored, theme, dark, slipped>>

Hover(i) ==
  /\ palette.open /\ i < Len(Listed(palette, lang))
  /\ palette' = [palette EXCEPT !.selected = i]
  /\ slipped' = FALSE
  /\ UNCHANGED <<lang, stored, theme, dark>>

\* save_history
Remember(h, label) ==
  LET all == <<label>> \o Dropped(h, label) IN
    SubSeq(all, 1, IF Len(all) < MaxHistory THEN Len(all) ELSE MaxHistory)

\* An entry's action, by click or Enter; going to a screen does nothing.
RunEntry(i) ==
  /\ palette.open /\ ~palette.choosing /\ i < Len(Listed(palette, lang))
  /\ LET label == Listed(palette, lang)[i + 1]
         p == [palette EXCEPT !.history = Remember(@, label)] IN
       /\ stored' = p.history
       /\ CASE palette.query = Empty ->
                 /\ palette' = [p EXCEPT !.query = label]
                 /\ slipped' = TRUE /\ UNCHANGED <<theme, dark>>
            [] palette.query # Empty /\ label.of = "toggle_theme" ->
                 palette' = [p EXCEPT !.open = FALSE] /\ ThemeSet(NextTheme) /\ UNCHANGED slipped
            [] palette.query # Empty /\ label.of = "change_language" ->
                 /\ palette' = [Reset(p) EXCEPT !.choosing = TRUE]
                 /\ slipped' = FALSE /\ UNCHANGED <<theme, dark>>
            [] OTHER -> palette' = p /\ UNCHANGED <<theme, dark, slipped>>
  /\ UNCHANGED lang

Enter == RunEntry(palette.selected)

\* apply_locale: Preferences.
PickLocale(i) ==
  /\ palette.open /\ palette.choosing /\ i < Len(Listed(palette, lang))
  /\ lang' = Listed(palette, lang)[i + 1]
  /\ palette' = [Reset(palette) EXCEPT !.open = FALSE]
  /\ slipped' = FALSE
  /\ UNCHANGED <<stored, theme, dark>>

\* delete_history, on the button of the entry that is selected.
DeleteEntry ==
  /\ palette.open /\ ~palette.choosing /\ palette.query = Empty
  /\ palette.selected < Len(palette.history)
  /\ palette' = [palette EXCEPT !.history = Without(@, palette.selected + 1)]
  /\ stored' = palette'.history /\ slipped' = TRUE
  /\ UNCHANGED <<lang, theme, dark>>

\* The window is closed and opened again.
Restart ==
  /\ palette' = [Reset(palette) EXCEPT !.open = FALSE, !.history = stored]
  /\ ThemeSet("System") /\ slipped' = FALSE
  /\ UNCHANGED <<lang, stored>>
\* The locale signal is set elsewhere: by the language that the start has read
\* late, whatever is open, and by apply_locale beside the palette.
LanguageChanges(l) ==
  /\ l # lang /\ lang' = l
  /\ slipped' = (slipped \/ Len(Listed(palette, l)) < Len(Listed(palette, lang)))
  /\ UNCHANGED <<palette, stored, theme, dark>>
-----------------------------------------------------------------------------
PaletteNext ==
  \/ ToggleTheme \/ SystemTurns \/ OpenPalette \/ ClickBeside \/ Escape \/ Down \/ Up
  \/ \E t \in {"System", "Light", "Dark"} : ChooseTheme(t)
  \/ \E q \in Queries : Type(q)
  \/ \E i \in 0..Len(Listed(palette, lang)) : Hover(i) \/ RunEntry(i) \/ PickLocale(i)
  \/ \E l \in Langs : LanguageChanges(l)
  \/ Enter \/ DeleteEntry \/ Restart

PaletteSpec == Init /\ [][PaletteNext]_vars
-----------------------------------------------------------------------------
(* Enter finds an entry under the selection whenever the list has one,     *)
(* except right after a recalled or a deleted entry, or the language that  *)
(* arrives, has made the list shorter; and what is remembered is what is   *)
(* stored, each label once.                                                *)
EnterFindsItsEntry ==
  /\ palette.open /\ ~slipped /\ Listed(palette, lang) # <<>> =>
       palette.selected < Len(Listed(palette, lang))
  /\ stored = palette.history
  /\ Len(stored) <= MaxHistory
  /\ \A i, j \in DOMAIN stored : stored[i] = stored[j] => i = j

(* The page is dark as the theme says, and as the system says while the    *)
(* theme leaves it to the system, however the two have changed.            *)
PageFollowsTheTheme ==
  dark.page = IF theme = "System" THEN dark.system ELSE theme = "Dark"
-----------------------------------------------------------------------------
(* What the palette and the theme come to, one step after another.         *)

HistoryKept ==
  /\ palette.history \in Seq(Labels)
  /\ stored = palette.history /\ Len(stored) <= MaxHistory
  /\ \A i, j \in DOMAIN stored : stored[i] = stored[j] => i = j

Palettes ==
  [open : BOOLEAN, query : Queries, selected : Nat, choosing : BOOLEAN, history : Seq(Labels)]

\* With nothing listed the first place is selected.
SelectionKept ==
  /\ palette \in Palettes
  /\ lang \in Langs
  /\ palette.open /\ ~slipped =>
       palette.selected = 0 \/ palette.selected < Len(Listed(palette, lang))

ThemeKept ==
  /\ theme \in {"System", "Light", "Dark"}
  /\ dark \in [system : BOOLEAN, page : BOOLEAN, heard : BOOLEAN]
  /\ dark.heard = (theme = "System") /\ PageFollowsTheTheme

Offering == HistoryKept /\ SelectionKept /\ ThemeKept
=============================================================================
