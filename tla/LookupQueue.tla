---------------------------- MODULE LookupQueue ----------------------------
(***************************************************************************)
(* What a GdictContext promises its users about lookups, with no word of   *)
(* connections or of the protocol: lookups are numbered in the order they  *)
(* are announced, wait in that order, and each leaves the queue once,      *)
(* completed from the front or dropped together with all the others.       *)
(***************************************************************************)
EXTENDS Naturals, Sequences

CONSTANT MaxRequests

VARIABLES pending, issued, ended, lost

lvars == <<pending, issued, ended, lost>>

LInit == pending = <<>> /\ issued = 0 /\ ended = 0 /\ lost = 0

Issue ==
  /\ issued < MaxRequests
  /\ issued' = issued + 1
  /\ pending' = Append(pending, issued + 1)
  /\ UNCHANGED <<ended, lost>>

Refuse ==
  /\ issued < MaxRequests
  /\ issued' = issued + 1
  /\ ended' = ended + 1
  /\ UNCHANGED <<pending, lost>>

Complete ==
  /\ pending # <<>>
  /\ pending' = Tail(pending)
  /\ ended' = ended + 1
  /\ UNCHANGED <<issued, lost>>

DropAll ==
  /\ lost' = lost + Len(pending)
  /\ pending' = <<>>
  /\ UNCHANGED <<issued, ended>>

LNext == Issue \/ Refuse \/ Complete \/ DropAll

LSpec == LInit /\ [][LNext]_lvars
=============================================================================
