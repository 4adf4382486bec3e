-------------------------------- MODULE ToolCalls ------------------------------
(***************************************************************************)
(* What a tool call goes through, the binding of its arguments and the     *)
(* registry, as subjects of an evaluation.                                 *)
(***************************************************************************)
EXTENDS Binding, ToolRegistry, Evaluation

\* fixed_dag.py, registry.py: what a call reads as observed is bound to comparable
\* observations of the packet, with their sources, and never a number of the model's,
\* whose own are the assumptions the tool leaves to it; a batch with one bad call does
\* not run at all, and a call ID stands for one call, which runs once, within the scope
\* it was made in.
ToolCallsSound ==
  /\ Is("binding") => BindingSound(subject.input[1], subject.input[2], subject.input[3], subject.input[4])
  /\ Is("session") => SessionSound(subject.input[1], subject.input[2])
================================================================================
