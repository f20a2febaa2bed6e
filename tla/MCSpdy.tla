------------------------------- MODULE MCSpdy -------------------------------
(* Two streams of one session.                                             *)
EXTENDS Spdy

CONSTANTS s1, s2

MCStreams == {s1, s2}
=============================================================================
