---------------------------- MODULE ConflateSlot ----------------------------
(***************************************************************************)
(* What the conflation buffer promises (spec §3, §8.7): a single slot      *)
(* between one producer and one consumer.  The producer may publish a      *)
(* value newer than anything the slot or the consumer has held, replacing  *)
(* an unread one (conflation); the consumer takes the slot's value and     *)
(* empties it.  Values are write numbers 1 .. MaxWrites; 0 is no value.    *)
(***************************************************************************)
EXTENDS Naturals

CONSTANT MaxWrites

VARIABLES
    slot,   \* the value waiting for the consumer, 0 if none
    got     \* the value the consumer took last, 0 if none

Init == slot = 0 /\ got = 0

\* the producer publishes a fresher value, overwriting an unread one
Publish == \E v \in 1 .. MaxWrites : v > slot /\ v > got /\ slot' = v /\ UNCHANGED got

\* the consumer takes the waiting value
Take == slot # 0 /\ got' = slot /\ slot' = 0

Spec == Init /\ [][Publish \/ Take]_<<slot, got>>
=============================================================================
