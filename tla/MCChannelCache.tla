-------------------------- MODULE MCChannelCache --------------------------
(* Small instances of ChannelCache.                                        *)
EXTENDS ChannelCache, TLC

CONSTANTS l1, l2, l3, l4

=============================================================================
