----------------------------- MODULE MCRssiFeed -----------------------------
(* Small instance of RssiFeed for TLC. *)
EXTENDS RssiFeed

\* Strong, middling and weak readings, two that differ by less than the dead
\* band, one inside the dead band around zero, and the readings 0 and 3 that
\* a receiver reports when it has no valid measurement.
MCRssi == {-64, -60, -5, 0, 3}
=============================================================================
