---- MODULE MCTemplateApply ----
(***************************************************************************)
(* Three texts: the first and the second differ in meaning, the second and *)
(* the third only in a comment.                                            *)
(***************************************************************************)
EXTENDS TemplateApply

MCTexts == 1..3
MCBodyOf == <<1, 2, 2>>
====
