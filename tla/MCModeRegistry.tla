--------------------------- MODULE MCModeRegistry ---------------------------
(* Three major modes (fundamental-mode among them), so that a chain of two *)
(* parents and a cycle through two modes both occur; one minor mode, one  *)
(* buffer, one custom variable and one group.                            *)
EXTENDS ModeRegistry

CONSTANTS fund, m1, m2, n1, b1, v1, g1

MCMajors == {fund, m1, m2}
MCPatterns == {<<"s">>}
MCFileNames == {<<"s">>}
=============================================================================
