--------------------------- MODULE MCQuestionRuntime ---------------------------
(* Small instances of QuestionRuntime. *)
EXTENDS QuestionRuntime

CONSTANTS c1, c2, w1, w2
=============================================================================
