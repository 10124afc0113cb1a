-------------------------- MODULE MCInboxConsumer ---------------------------
(* The consuming side on a short partition, for TLC. *)
EXTENDS InboxRefinement

BadAtOne  == {1}
OnlyOff   == {FALSE}
OnAndOff  == BOOLEAN

OnlyLatest        == {"latest"}
LatestAndEarliest == {"latest", "earliest"}
=============================================================================
