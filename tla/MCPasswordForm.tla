--------------------------- MODULE MCPasswordForm ---------------------------
(* A text that is weak for the user whose name it holds, for TLC.          *)
EXTENDS PasswordForm

CONSTANTS p1, p2, u1, u2

WeakPairs == {<<p1, u1>>}

=============================================================================
