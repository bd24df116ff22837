----------------------------- MODULE MCSettings -----------------------------
(* Three ports, two pictures that can be decoded and one saved as WebP under *)
(* another name; three runs of the program.                                  *)
EXTENDS Settings

ThreePorts == {"COM1", "COM3", "COM4"}

Logos == {"logo.png", "old.ico", "photo.bmp"}
NotReally == {"photo.bmp"}
=============================================================================
