---------------------------- MODULE UseResource ----------------------------
(***************************************************************************)
(* The console's data layer, lib/use-resource.ts: what a screen holds of   *)
(* one resource of the API.  At most one load is waited for; what an       *)
(* earlier load would have brought is aborted.                             *)
(***************************************************************************)
CONSTANT NoData    \* null

(* load: no load in flight, one the server has not read for yet, or one    *)
(* on its way back with what was read.                                     *)
Mount(enabled) ==
  [data |-> NoData, load |-> IF enabled THEN "sent" ELSE "none", read |-> NoData,
   failed |-> FALSE]

Loading(r) == r.load # "none"

(* Mutant: the load in flight is not aborted, and its answer is taken.     *)
TriggerWithoutAbort(r, enabled) ==
  IF enabled THEN [r EXCEPT !.load = IF @ = "none" THEN "sent" ELSE @, !.failed = FALSE]
  ELSE [r EXCEPT !.load = "none", !.read = NoData]

(* The effect: the dependencies, the nonce of reload or enabled changed.   *)
(* What is shown stays.                                                    *)
Trigger(r, enabled) ==
  IF enabled THEN [r EXCEPT !.load = "sent", !.read = NoData, !.failed = FALSE]
  ELSE [r EXCEPT !.load = "none", !.read = NoData]

ServerRead(r, value) == [r EXCEPT !.load = "read", !.read = value]

Loaded(r) == [data |-> r.read, load |-> "none", read |-> NoData, failed |-> r.failed]

Failed(r) == [r EXCEPT !.load = "none", !.read = NoData, !.failed = TRUE]

(* set: a value from elsewhere; a load in flight goes on.                  *)
Set(r, value) == [r EXCEPT !.data = value, !.failed = FALSE]

=============================================================================
