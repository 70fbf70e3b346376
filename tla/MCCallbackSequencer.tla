------------------------ MODULE MCCallbackSequencer ------------------------
(***************************************************************************)
(* CallbackSequencer with the messages as model values.                    *)
(***************************************************************************)
EXTENDS CallbackSequencer

CONSTANTS m1, m2, m3, m4
=============================================================================
