------------------------------ MODULE MCInput ------------------------------
(* Input with two readers, whose lines together overfill text_buffer.  With  *)
(* the sizes of the code it takes three readers to do that.                  *)
EXTENDS Input
=============================================================================
