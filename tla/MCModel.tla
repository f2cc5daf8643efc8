------------------------------- MODULE MCModel -------------------------------
(* Small instances of Model: three messages (two where the run only looks    *)
(* for a disagreement) and two runs of the saving thread, so that a message  *)
(* left by the first stop meets the second start.                            *)
EXTENDS Model

MCMessages == 3
MCMessagesFew == 2
MCSaves == 2
MCSavesFew == 1
=============================================================================
