---------------------------- MODULE IslandRounds ----------------------------
(***************************************************************************)
(* What an island run promises, without threads, messages or batches in    *)
(* flight: rounds.  In a round every island ages at its own pace, up to    *)
(* the end of the round and no further; between two rounds migrants are    *)
(* sent; no island ages while migrants are due to it.  The run is over     *)
(* when every island is of full age, when it was asked to stop, or when it *)
(* could not begin.                                                        *)
(***************************************************************************)
EXTENDS Naturals

CONSTANTS Island, Length, FullAge

VARIABLES
    age,        \* of each island, in generations
    round,      \* the first generation of the round, 0 when the run is over
    due,        \* per island: deliveries of migrants on their way to it
    asked       \* to stop

vars == <<age, round, due, asked>>

End(r) == IF r + Length - 1 < FullAge THEN r + Length - 1 ELSE FullAge

Init == /\ age = [i \in Island |-> 0]
        /\ round = 1
        /\ due = [i \in Island |-> 0]
        /\ asked = FALSE

Age(i) == /\ round > 0
          /\ due[i] = 0
          /\ age[i] < End(round)
          /\ age' = [age EXCEPT ![i] = @ + 1]
          /\ UNCHANGED <<round, due, asked>>

\* Nothing is on its way, and migrants are sent to some islands.
Send == /\ \A i \in Island : due[i] = 0
        /\ \A i \in Island : due'[i] \in Nat

\* The migration that ends a round, for which all islands have waited.
NextRound == /\ round > 0
             /\ \A i \in Island : age[i] = End(round)
             /\ End(round) < FullAge
             /\ round' = End(round) + 1
             /\ Send
             /\ UNCHANGED <<age, asked>>

\* Space travel, before any island goes on.
Travel == /\ round > 1
          /\ \A i \in Island : age[i] = round - 1
          /\ Send
          /\ UNCHANGED <<age, round, asked>>

Deliver(i) == /\ due[i] > 0
              /\ due' = [due EXCEPT ![i] = @ - 1]
              /\ UNCHANGED <<age, round, asked>>

Ask == /\ asked' = TRUE
       /\ UNCHANGED <<age, round, due>>

Stop == /\ \/ asked
           \/ \A i \in Island : age[i] = FullAge
           \/ \A i \in Island : age[i] = 0
        /\ round' = 0
        /\ UNCHANGED <<age, due, asked>>

Next == \/ \E i \in Island : Age(i) \/ Deliver(i)
        \/ NextRound \/ Travel \/ Ask \/ Stop

Spec == Init /\ [][Next]_vars
=============================================================================
