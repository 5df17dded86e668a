--------------------------- MODULE MCDjangoOutbox ---------------------------
(* Small instances of DjangoOutbox for TLC.                                *)
EXTENDS DjangoOutbox, TLC
=============================================================================
