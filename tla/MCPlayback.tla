----------------------------- MODULE MCPlayback -----------------------------
(* Playback with a season, a movie and a local file.                        *)
EXTENDS Playback
=============================================================================
