---------------------------- MODULE MCGdbServer ----------------------------
(***************************************************************************)
(* Finite instances of GdbServer.                                          *)
(***************************************************************************)
EXTENDS GdbServer, SampleItems

CONSTANTS c1, c2

Clients2 == {c1, c2}

Symmetry == Permutations(Clients2)

Names == DOMAIN SampleItemOf

Segment(names) == <<names>>     \* a netbuf of one pbuf

(* Traffic for a transport that may fail: a damaged packet with a command  *)
(* behind it; a command and one that fails an assertion; no packet, which  *)
(* is not answered at all; a checksum that is not hex.                     *)
ShortNetbufs ==
    {Segment(<<"bad", "!">>), Segment(<<"g", "mon$">>), Segment(<<"+">>),
     Segment(<<"nonhex">>)}

(* For the liveness run: a command, and a packet whose checksum is not hex. *)
LiveNetbufs == {Segment(<<"g">>), Segment(<<"g", "nonhex">>)}

(* A netbuf of two pbufs.                                                  *)
ChainedNetbufs == {Segment(<<"g">>), <<<<"g">>, <<"!">>>>}
=============================================================================
