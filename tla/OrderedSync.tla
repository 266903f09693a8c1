----------------------------- MODULE OrderedSync -----------------------------
(***************************************************************************)
(* What a synchronisation promises to the chain, whatever the peers do and *)
(* however the parts of the blocks arrive: the blocks whose headers were   *)
(* scheduled are imported in order, each once and with all its parts.      *)
(***************************************************************************)
EXTENDS Naturals, Sequences

CONSTANTS
  N,          \* the length of the chain of the peers
  Parts       \* what is downloaded of a block besides its header

VARIABLES
  known,      \* the highest block whose header is known
  chain       \* the blocks handed to the chain and accepted

vars == <<known, chain>>

\* The n complete blocks that follow those of the chain.
Following(n) == [i \in 1..n |-> [number |-> Len(chain) + i, parts |-> Parts]]

Init == known = 0 /\ chain = <<>>

Schedule ==
  /\ \E n \in 1..(N - known) : known' = known + n
  /\ UNCHANGED chain

Import ==
  /\ \E n \in 1..(known - Len(chain)) : chain' = chain \o Following(n)
  /\ UNCHANGED known

\* A new synchronisation starts at the block after the last one of the chain.
Restart == known' = Len(chain) /\ UNCHANGED chain

Next == Schedule \/ Import \/ Restart

Spec == Init /\ [][Next]_vars

=============================================================================
