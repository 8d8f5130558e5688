------------------------------ MODULE MCTimedIO ------------------------------
(* TimedIO with one thread that reads and one that writes. *)
EXTENDS TimedIO

CONSTANTS reader, writer

OneReader == {reader}
OneWriter == {writer}
MCWaits == {0, 2}
TwoBytes == {2}
=============================================================================
