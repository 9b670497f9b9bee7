-------------------------------- MODULE Calls --------------------------------
(***************************************************************************)
(* A call of one of the library's functions that keep no state between     *)
(* calls: what the modules of these functions have in common.  Each of     *)
(* them adds its own local variables, which are Idle in the calls of the   *)
(* others.                                                                 *)
(***************************************************************************)
EXTENDS Integers, Sequences

VARIABLES call,     \* the function, call.f, and its arguments
          pc        \* which of its loops is running

\* The function f has been called and has not done anything yet.
Called(f) == pc = "call" /\ call.f = f

Return == pc' = "return"
Returned(f) == pc = "return" /\ call.f = f
=============================================================================
