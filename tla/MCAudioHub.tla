----------------------------- MODULE MCAudioHub -----------------------------
(***************************************************************************)
(* AudioHub with two clients, three frames, a history of two and one free  *)
(* place in a channel.                                                     *)
(***************************************************************************)
EXTENDS AudioHub

CONSTANTS h1, h2

MCClient == {h1, h2}
=============================================================================
