-------------------------- MODULE MCMediaTransport --------------------------
(***************************************************************************)
(* A small instance of MediaTransport for TLC.                             *)
(***************************************************************************)
EXTENDS MediaTransport

\* Two samples closer than a tick, and a gap that is not a whole number of
\* ticks.
ShortGaps == <<3, 4, 9>>
NoDurations == <<0, 0, 0>>
=============================================================================
