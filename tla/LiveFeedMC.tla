----------------------------- MODULE LiveFeedMC -----------------------------
(* The instance of LiveFeed that TLC checks; its values are in live_feed.cfg. *)
EXTENDS LiveFeed
=============================================================================
