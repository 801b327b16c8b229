------------------------------ MODULE MCBunRle ------------------------------
(* Payloads of up to five pairs over three counts, in chunks of four bytes:  *)
(* two whole chunks and a partial one. A u64 is cut to 204, so that two      *)
(* counts of 200 overflow it.                                               *)
EXTENDS BunRle, TLC

Pairs == 5

Payload(counts) ==
  [size |-> 2 * Pairs, header |-> ZeroHeader, records |-> << >>,
   bytes |-> [p \in {2 * k : k \in 0 .. Pairs - 1} |-> counts[p \div 2]]]

AllPayloads == {Payload(c) : c \in [0 .. Pairs - 1 -> {0, 1, 200}]}
AllSizes == {2 * k : k \in 0 .. Pairs + 1}

=============================================================================
