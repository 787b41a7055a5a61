----------------------------- MODULE TenantLife -----------------------------
(***************************************************************************)
(* What closing an account promises its owner: the service can be taken up *)
(* again until the chosen window has run out, and the data of an account   *)
(* are erased only after that, once, and for good                          *)
(* (packages/managed/src/offboarding.ts).                                  *)
(***************************************************************************)

VARIABLE life

Lives == {"serving", "closed", "due", "erased"}

LifeInit == life = "serving"

\* Closing again is allowed, and moves the date.
CloseAccount == life # "erased" /\ life' \in {"closed", "due"}
ReopenAccount == life = "closed" /\ life' = "serving"
WindowEnds == life = "closed" /\ life' = "due"
EraseAccount == life = "due" /\ life' = "erased"

LifeNext == CloseAccount \/ ReopenAccount \/ WindowEnds \/ EraseAccount

LifeSpec == LifeInit /\ [][LifeNext]_life
=============================================================================
