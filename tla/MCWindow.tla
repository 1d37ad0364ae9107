------------------------------ MODULE MCWindow ------------------------------
(***************************************************************************)
(* The window with two calls at a time, two connections, repositories,     *)
(* directories and languages.  MCScreens.cfg looks at the parts that the   *)
(* user works with, MCWindow.cfg at those that timers keep up to date.     *)
(***************************************************************************)
EXTENDS Window, TLC

CONSTANTS
  w1, w2, w3, d1, d2, signIn, sync

\* Around a leap year, a century that is none and one that is.
MCMonths == [year : {1900, 2000, 2023, 2024}, month : 1..12]
MCToday == [year : {1900, 2000, 2023}, month : {2}]
MCDate(y, m, d) == [year |-> y, month |-> m, day |-> d]
MCPicked ==
  {MCDate(2000, 2, 29), MCDate(2000, 3, 1), MCDate(2000, 1, 31),
   MCDate(2023, 12, 31), MCDate(2024, 1, 9), MCDate(2024, 1, 10)}

\* A webview set to zh-TW.
MCWebView == <<"zh", "tw">>

\* Sign-in and sync with some of their checkpoints; a climb in two steps.
MCCheckpoints == signIn :> <<10, 100>> @@ sync :> <<100, 100>>

MCSymmetry == Permutations({w1, w2}) \cup Permutations({d1, d2})

\* Bound: between two starts the user who chooses languages leaves the page
\* size and the list alone (v9 is touched and v6 is count; the starts and the
\* saves mix the two in every order).
MCOneChoice ==
  part = "preferences" /\ "language" \in v9 => "size" \notin v9 /\ v6 = 0

\* Bound: while the active connection is read (v4 is reread), the Keys screen
\* has one other call in flight, not two.
MCOneBesideRead ==
  part = "keys" /\ v4.pc # "none" => \E w \in Workers : job[w].op = "idle"

\* The rows of locale_codes_round_trip and from_code_handles_legacy_values that
\* the instance has.
ASSUME CodesRoundTrip ==
  /\ \A l \in {"en", "zh-Hans", "zh-Hant"} : Prefs!FromCode(Prefs!Code(l)) = l
  /\ \A r \in {"", "cn", "sg", "hans"} : Prefs!FromCode(<<"zh", r>>) = "zh-Hans"
  /\ \A r \in {"tw", "hk", "mo", "hant"} : Prefs!FromCode(<<"zh", r>>) = "zh-Hant"
  /\ \A c \in {"", "xx", "klingon"} : Prefs!FromCode(<<c>>) = "en"
=============================================================================
