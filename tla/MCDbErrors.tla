----------------------------- MODULE MCDbErrors -----------------------------
(* A small instance of the torrent loop's database errors for TLC. *)
EXTENDS DbErrors

\* No pause to speak of, and the five minutes after a failed Arr or qBittorrent call.
Pauses == {0, 5}
=============================================================================
