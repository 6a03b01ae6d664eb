------------------------------ MODULE MCXplIo ------------------------------
(* Two timeout handlers, one due at every check and one at every other.    *)
EXTENDS XplIo

CONSTANTS t1, t2

MCInterval == [h \in {t1, t2} |-> IF h = t1 THEN 1 ELSE 3]

(* A poll without waiting, shorter than a second, a second and a half, and *)
(* forever.                                                                *)
MCTimeouts == {-1, 0, 1, 3}

(* A second exactly.                                                       *)
MCSecond == {2}
=============================================================================
