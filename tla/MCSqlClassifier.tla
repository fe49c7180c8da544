--------------------------- MODULE MCSqlClassifier ---------------------------
(***************************************************************************)
(* The texts TLC tries: every short one over an alphabet with one          *)
(* character of each sort, and every longer one over the characters that   *)
(* make block and dash comments.                                           *)
(***************************************************************************)
EXTENDS SqlClassifier

Sorts == {"select", "a", "single", "backtick", "backslash", "#", "-", "newline", "space", ";"}
Marks == {"a", "-", "/", "*"}

Short  == {<<"select">> \o t : t \in SeqOf(Sorts, 4)}
Nested == {<<"select">> \o t : t \in SeqOf(Marks, 6)}
Every  == SeqOf(Sorts \cup Marks, 3)
AllTexts == Short \cup Nested \cup Every

\* select a<marks>a
Marked == {<<"select", "space", "a">> \o t \o <<"a">> : t \in SeqOf({"#", "-", "space"}, 3)}
=============================================================================
