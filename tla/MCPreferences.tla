--------------------------- MODULE MCPreferences ----------------------------
(* English and one script of Chinese, a webview set to zh-TW, two of the   *)
(* selector's page sizes, two calls at a time.                             *)
EXTENDS Preferences, TLC

CONSTANTS w1, w2

MCWebView == <<"zh", "tw">>

MCSymmetry == Permutations(Workers)
=============================================================================
