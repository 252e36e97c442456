----------------------------- MODULE MCFeedSync -----------------------------
(* One feed, which can be due, edited, deleted and synced by hand while the    *)
(* loop syncs it.  Of the single entry an admin may delete, add or bring back  *)
(* by hand what a sync has put there or taken away.                            *)
EXTENDS FeedSync
=============================================================================
