--------------------------- MODULE MCSdeEncoderRc ---------------------------
(* Small instances of SdeEncoderRc; see the configurations.                *)
EXTENDS SdeEncoderRc

Both == {"cmd", "vid"}
=============================================================================
