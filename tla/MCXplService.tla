---------------------------- MODULE MCXplService ----------------------------
(* Small instances of XplService for TLC.                                  *)
EXTENDS XplService

Answers == {"request while disabled", "response without change"}
MCManagerIntervals == {-1, 1}
DefaultOnly == {2}
MCApiIntervals == {3}
=============================================================================
