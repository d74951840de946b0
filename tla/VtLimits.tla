------------------------------ MODULE VtLimits ------------------------------
(***************************************************************************)
(* What the VT parser and the macro buffer have in common: the value that  *)
(* a number in a sequence is clamped to (terminal/parser/stateMachine.hpp).*)
(***************************************************************************)
CONSTANT MAX_PARAMETER_VALUE  \* 65535 in the source

=============================================================================
