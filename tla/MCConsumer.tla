----------------------------- MODULE MCConsumer -----------------------------
(* Instances of Consumer for TLC: five messages in batches of two. *)
EXTENDS Consumer

\* The second and the last message are invalid: one ends a batch with valid
\* events in it, one may be a batch of its own.
MCInvalid == {2, 5}
=============================================================================
