--------------------------- MODULE MCDiskJournal ---------------------------
(* Small instances of DiskJournal for TLC.                                  *)
EXTENDS DiskJournal

Kills   == {"kill"}
Power   == {"kill", "power"}
IoErrors == {"kill", "io"}
IoMode  == {"io"}
AllModes == {"io", "input"}
=============================================================================
