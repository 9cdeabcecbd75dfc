------------------------------ MODULE Delivery ------------------------------
(***************************************************************************)
(* What the feed promises about the messages it hands over, whoever sent   *)
(* them and however many copies arrived: the abstract specification that   *)
(* module Dedup implements (src/src/consume.rs:16-36, the module's own     *)
(* documentation, and FeedMessage in src/src/codec.rs:676-719).            *)
(*                                                                         *)
(* This module never forgets a number.  The implementation remembers only  *)
(* a window of recent ones, so that it implements this module says that    *)
(* the window is wide enough whatever arrives.                             *)
(***************************************************************************)
EXTENDS Integers

CONSTANTS
  SeqNum,     \* the sequence numbers a message may carry
  Hash,       \* the block hashes
  NoHash,     \* a message without a block hash
  Verifying   \* whether the feed was built with a Verifier

VARIABLES
  held,       \* number -> hash it was last delivered with, for every number ever delivered
  latest      \* the last message delivered

vars == <<held, latest>>

Nothing == [seq |-> -1, hash |-> NoHash, reorg |-> FALSE, good |-> TRUE]

\* Two hashes tell two blocks apart only when both are present.
Changed(old, new) == old # NoHash /\ new # NoHash /\ old # new

(***************************************************************************)
(* Number n with hash h is delivered.  A number delivered before comes     *)
(* again only for another block; any other number lies ahead of the last   *)
(* one.  The message is marked as a reorg exactly when it does not move    *)
(* ahead: its number was then delivered with another hash before, but of   *)
(* the numbers replaced only the first is marked.  With a verifier, only a *)
(* message whose signature is good counts.                                 *)
(***************************************************************************)
Deliver(n, h, good) ==
  /\ IF n \in DOMAIN held THEN Changed(held[n], h) ELSE n > latest.seq
  /\ Verifying => good
  /\ held' = [k \in DOMAIN held \cup {n} |-> IF k = n THEN h ELSE held[k]]
  /\ latest' = [seq |-> n, hash |-> h, reorg |-> n <= latest.seq, good |-> good]

Init ==
  /\ held = [n \in {} |-> NoHash]
  /\ latest = Nothing

Next == \E n \in SeqNum, h \in Hash \cup {NoHash}, good \in BOOLEAN : Deliver(n, h, good)

Spec == Init /\ [][Next]_vars
=============================================================================
