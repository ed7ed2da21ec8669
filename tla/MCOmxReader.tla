----------------------------- MODULE MCOmxReader -----------------------------
(* Files for OmxReader: a broadcast whose first program is empty, with times that *)
(* start at 5, a packet just before and one long before; a clip with cover art;   *)
(* stdin and a fifo; a file with more streams than the table, and one that        *)
(* overruns it.                                                                   *)
EXTENDS OmxReader

Stream(type, start) == [type |-> type, start |-> start, duration |-> 2]
Frame(stream, dts, key) == [stream |-> stream, dts |-> dts, key |-> key]

Broadcast ==
    [source |-> "file", programs |-> <<<<>>, <<3, 1>>, <<0, 2>>>>, start |-> 5, duration |-> NoPts,
     streams |-> <<Stream("audio", 5), Stream("video", NoPts), Stream("video", 5), Stream("audio", 6)>>,
     frames |-> <<Frame(1, 2, TRUE), Frame(1, 4, FALSE), Frame(1, 5, TRUE), Frame(3, 6, TRUE),
                  Frame(1, NoPts, FALSE), Frame(1, 6, FALSE), Frame(1, 8, TRUE), Frame(3, 9, TRUE)>>]
Clip ==
    [source |-> "file", programs |-> <<>>, start |-> 0, duration |-> 3,
     streams |-> <<Stream("picture", 0), Stream("audio", 0), Stream("other", 0),
                   Stream("audio", 0), Stream("video", 0)>>,
     frames |-> <<Frame(4, -3, TRUE), Frame(4, 0, TRUE), Frame(1, 1, TRUE), Frame(3, 1, TRUE), Frame(4, 2, FALSE),
                  Frame(4, 4, TRUE)>>]
Stdin ==
    [source |-> "pipe", programs |-> <<>>, start |-> 0, duration |-> NoPts,
     streams |-> <<Stream("audio", NoPts)>>,
     frames |-> <<Frame(0, 0, TRUE), Frame(0, 1, TRUE)>>]
Fifo == [Stdin EXCEPT !.source = "fifo"]
Subtitles ==
    [source |-> "file", programs |-> <<>>, start |-> 0, duration |-> 1, streams |-> <<Stream("other", 0)>>,
     frames |-> <<Frame(0, 0, TRUE)>>]
Crowded ==
    [source |-> "file", programs |-> <<<<6, 2, 5, 0>>>>, start |-> 0, duration |-> 1,
     streams |-> [i \in 1..7 |-> Stream(IF i \in {3, 7} THEN "audio" ELSE IF i = 6 THEN "picture" ELSE "video", 0)],
     frames |-> <<Frame(2, 0, TRUE), Frame(0, 1, TRUE), Frame(6, 1, TRUE), Frame(2, 2, TRUE)>>]
Overfull ==
    [Subtitles EXCEPT !.streams = [i \in 1..6 |-> Stream("video", 0)]]

Media == {Broadcast, Clip, Stdin, Fifo, Subtitles, Crowded, Overfull}
===============================================================================
