----------------------------- MODULE MCLongPoll -----------------------------
(* Small instances of LongPoll for TLC. *)
EXTENDS LongPoll, TLC
=============================================================================
