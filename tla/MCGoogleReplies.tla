---- MODULE MCGoogleReplies ----
(* An instance of GoogleReplies for TLC: one reply, and edits of it on Google. *)
EXTENDS GoogleReplies

CONSTANTS o1, j1, j2, j3, hello
====
