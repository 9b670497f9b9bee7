---------------------------- MODULE TwisterStream ----------------------------
(***************************************************************************)
(* What the Mersenne Twister promises: every word is made of the three     *)
(* words NN, NN - 1 and NN - MM before it, and given out tempered.         *)
(***************************************************************************)
EXTENDS Integers

CONSTANTS NN, MM,           \* the words looked back at
          Twist(_, _, _),   \* the next word
          Temper(_)         \* what is given out for a word

VARIABLES window,           \* the last NN words, the oldest first
          seeding,          \* whether they are just being exchanged
          output,           \* the last number given
          drawn             \* how many have been

streamVars == <<window, seeding, output, drawn>>

Init == drawn = 0

Seed == (seeding \/ seeding') /\ UNCHANGED <<output, drawn>>

DrawNext ==
    LET word == Twist(window[0], window[1], window[MM])
    IN  /\ window' = [n \in 0 .. NN - 1 |-> IF n = NN - 1 THEN word ELSE window[n + 1]]
        /\ output' = Temper(word)
        /\ drawn' = drawn + 1
        /\ UNCHANGED seeding

Spec == Init /\ [][Seed \/ DrawNext]_streamVars
=============================================================================
