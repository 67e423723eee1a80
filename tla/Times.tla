-------------------------------- MODULE Times --------------------------------
(***************************************************************************)
(* What the modules about windows share: an optional datetime.             *)
(***************************************************************************)
EXTENDS Integers

CONSTANT NoTime     \* None, where a datetime or a cursor is optional

ASSUME TimesAssumption == NoTime \notin Int
=============================================================================
