---------------------------- MODULE VaultPromise ----------------------------
(***************************************************************************)
(* What the Vault promises about its clean point, with the threads, the    *)
(* share and the witnesses left out: snapshots are recorded one after the  *)
(* other, and the newest one becomes the clean point only if it is CLEAN   *)
(* and there was a moment after it was recorded with no alarm raised.      *)
(***************************************************************************)
EXTENDS Naturals, Sequences

VARIABLES
  healths,     \* the health of every snapshot recorded, oldest first
  cleanPoint,  \* which of them is the clean point, 0 for none yet
  alarm,       \* is the Vault in Protect mode
  offered      \* the newest snapshot has been found fit to become it

vars == <<healths, cleanPoint, alarm, offered>>

Init == healths = <<>> /\ cleanPoint = 0 /\ alarm = FALSE /\ offered = FALSE

Record ==
  /\ ~offered
  /\ \E h \in {"CLEAN", "SUSPECT"} : healths' = Append(healths, h)
  /\ UNCHANGED <<cleanPoint, alarm, offered>>

Offer ==
  /\ ~alarm /\ Len(healths) > cleanPoint /\ healths[Len(healths)] = "CLEAN"
  /\ offered' = TRUE
  /\ UNCHANGED <<healths, cleanPoint, alarm>>

Advance ==
  /\ offered /\ offered' = FALSE
  /\ cleanPoint' = Len(healths)
  /\ UNCHANGED <<healths, alarm>>

RaiseOrClear ==
  /\ alarm' = ~alarm
  /\ UNCHANGED <<healths, cleanPoint, offered>>

(* The Vault is built anew: it holds no alarm and no half-made decision. *)
Rebuild ==
  /\ alarm' = FALSE /\ offered' = FALSE
  /\ UNCHANGED <<healths, cleanPoint>>

Next == Record \/ Offer \/ Advance \/ RaiseOrClear \/ Rebuild

Spec == Init /\ [][Next]_vars

=============================================================================
