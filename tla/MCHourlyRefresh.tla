-------------------------- MODULE MCHourlyRefresh --------------------------
(* TLC instances of HourlyRefresh: two refreshes, each of Spotify or Reddit. *)
EXTENDS HourlyRefresh, TLC

CONSTANTS i1, i2, l1
=============================================================================
