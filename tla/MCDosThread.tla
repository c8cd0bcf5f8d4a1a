---------------------------- MODULE MCDosThread ----------------------------
(* DosThread with a table of three slots: the main thread and two others.  *)
EXTENDS DosThread
=============================================================================
