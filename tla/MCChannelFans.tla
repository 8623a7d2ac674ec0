---------------------------- MODULE MCChannelFans ----------------------------
(* The wiring files of the runs of ChannelFans.                                *)
EXTENDS ChannelFans

Both == [cpu |-> {1}, case |-> {1, 2}]
CaseOnly == [cpu |-> {}, case |-> {2}]

TheWirings == {Both, CaseOnly}
=============================================================================
