----------------------------- MODULE MCDesktop -----------------------------
(***************************************************************************)
(* A small instance of Desktop: two tasks at the top, and one below the    *)
(* first of them.                                                          *)
(***************************************************************************)
EXTENDS Desktop

CONSTANTS work, part, rest

MCAbove == [t \in TaskId |-> IF t = part THEN {part, work} ELSE {t}]
============================================================================
