------------------------------- MODULE Evaluation ------------------------------
(***************************************************************************)
(* How a pure algorithm is put to its question: a behaviour has a subject, *)
(* the kind of an algorithm with an input of it, and evaluates it once.    *)
(***************************************************************************)
VARIABLES subject, evaluated

Evaluate == ~evaluated /\ evaluated' = TRUE /\ UNCHANGED subject

Evaluating == evaluated = FALSE /\ [][Evaluate]_<<subject, evaluated>>

Is(kind) == evaluated /\ subject.kind = kind
================================================================================
