------------------------------ MODULE MCOutbox ------------------------------
(* Two messages of two chunks for one channel, several chunks worded alike,  *)
(* so that repeats, a call waiting behind a message that is not whole yet,   *)
(* a dry bucket and a change of rate under a sleep all happen.               *)
EXTENDS Outbox

CONSTANTS s1, s2

MCChannelOf == [s \in Send |-> CHOOSE c \in Channel : TRUE]

MCParts == [s \in Send |-> IF s = s1 THEN <<"hi", "hi">> ELSE <<"yo", "hi">>]
=============================================================================
