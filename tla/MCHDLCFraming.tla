----------------------------- MODULE MCHDLCFraming -----------------------------
(***************************************************************************)
(* Instance of HDLCFraming for TLC.                                        *)
(***************************************************************************)
EXTENDS HDLCFraming

\* No payload, bytes that must be escaped, and one that fills the buffer.
SomePayloads == {<<>>, <<Flag, Escape>>, <<<<"00">>, <<"00">>, <<"00">>>>}

\* A supervisory frame and a reply.
SomeOwn == {<<<<"FF">>, <<"RR">>>>, <<<<"FF">>, <<"own">>, <<"00">>>>}
================================================================================
