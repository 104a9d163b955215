---------------------------- MODULE MCExtraction -----------------------------
(* Records as a message's words give them, on a day that has begun for the *)
(* user and not yet in UTC, and on any other.                              *)
EXTENDS Extraction
=============================================================================
