---------------------------- MODULE MCGraphEdit ----------------------------
(* Two sources, a stereo effect and a mono one before a mono DAC. *)
EXTENDS GraphEdit, TLC

MCShape == 0 :> [ins |-> 1, outs |-> 0] @@ 1 :> [ins |-> 0, outs |-> 1] @@ 2 :> [ins |-> 0, outs |-> 1]
        @@ 3 :> [ins |-> 2, outs |-> 1] @@ 4 :> [ins |-> 1, outs |-> 1]
MCSums  == 5..9

\* Both inputs of the stereo effect fed; two sources summed, one of them shared; two SUM
\* nodes in a row; a SUM of three with a connection made twice; nothing heard by the DAC; pools that run dry.
MCSetups == {
    [there |-> {0, 1, 3}, wired |-> <<<<1, 1, 3, 1>>, <<1, 1, 3, 2>>, <<3, 1, 0, 1>>>>, pool |-> 3],
    [there |-> {0, 1, 2, 3}, wired |-> <<<<1, 1, 3, 1>>, <<2, 1, 3, 1>>, <<1, 1, 3, 2>>, <<3, 1, 0, 1>>>>, pool |-> 12],
    [there |-> {0, 1, 2, 3, 4}, wired |-> <<<<1, 1, 4, 1>>, <<2, 1, 4, 1>>, <<4, 1, 3, 1>>, <<1, 1, 3, 1>>, <<3, 1, 0, 1>>>>, pool |-> 12],
    [there |-> {0, 1, 2, 3}, wired |-> <<<<1, 1, 3, 1>>, <<1, 1, 3, 1>>, <<2, 1, 3, 1>>, <<3, 1, 0, 1>>>>, pool |-> 12],
    [there |-> {0, 1, 2, 3, 4}, wired |-> <<<<1, 1, 3, 1>>, <<1, 1, 4, 1>>>>, pool |-> 12],
    [there |-> {0, 1, 2, 3, 4}, wired |-> <<<<1, 1, 4, 1>>, <<4, 1, 3, 1>>, <<1, 1, 3, 1>>, <<3, 1, 0, 1>>>>, pool |-> 5],
    [there |-> {0, 1, 2, 3, 4}, wired |-> <<<<1, 1, 4, 1>>, <<1, 1, 3, 1>>, <<4, 1, 3, 1>>>>, pool |-> 3]}

OneSum == {[there |-> {0, 1, 2, 3, 4}, wired |-> <<<<1, 1, 3, 1>>, <<2, 1, 3, 1>>, <<3, 1, 0, 1>>>>, pool |-> 12]}
=============================================================================
