---------------------------- MODULE MCFrameCodec ----------------------------
(* Streams of two frames, and all of them with one octet too few, one too  *)
(* many or one that is wrong.                                              *)
EXTENDS FrameCodec

Data(kind, channel, msgno, more, seqno, ansno, payload) ==
    [kind |-> kind, channel |-> channel, msgno |-> msgno, more |-> more,
     seqno |-> seqno, ansno |-> ansno, payload |-> payload]

MCFrames ==
    {Data("MSG", 1, 0, TRUE, 5, 0, <<"x", "LF">>),
     Data("ANS", 0, 3, FALSE, 0, 2, <<"END", "CR", "LF">>),
     Data("NUL", 2, 1, FALSE, 4, 0, << >>),
     [kind |-> "SEQ", channel |-> 3, ackno |-> 6, window |-> 2]}

MCOctets == {"MSG", "1", " ", "CR", "LF", "x"}

Edited(octets) ==
    {RemoveAt(octets, i) : i \in 1 .. Len(octets)}
    \cup {ReplaceAt(octets, i, o) : i \in 1 .. Len(octets), o \in MCOctets}
    \cup {InsertAt(octets, i, o) : i \in 1 .. Len(octets), o \in MCOctets}

MCStreams ==
    {[frames |-> <<f, g>>, octets |-> Encode(f) \o Encode(g)] :
        f \in MCFrames, g \in MCFrames}
    \cup UNION {{[frames |-> << >>, octets |-> o \o Encode(f)] : o \in Edited(Encode(f))} :
                   f \in MCFrames}
MCDigits == <<"0", "1">>
=============================================================================
