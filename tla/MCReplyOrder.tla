---------------------------- MODULE MCReplyOrder ----------------------------
(* Three messages, up to three of them open at a time, with numbers that  *)
(* may be reused, and handlers that give up to two answers.               *)
EXTENDS ReplyOrder
=============================================================================
