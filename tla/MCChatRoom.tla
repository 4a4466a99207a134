---------------------------- MODULE MCChatRoom ----------------------------
(* An instance of ChatRoom for TLC: the host's page, and a page on the     *)
(* host's machine that was opened with the token of an earlier room.       *)
EXTENDS ChatRoom

CONSTANTS host, guest

TwoPages == {host, guest}
HostOnly == {host}

\* The guest announces itself, and what it says then is too long.
LongMessages == {<<guest, 1>>}
=============================================================================
