----------------------------- MODULE MCWsStream -----------------------------
(* A peer that splits its data over frames of all kinds and lengths, with  *)
(* control frames in between, and peers that break the rules.              *)
EXTENDS WsStream

MCFrames == <<1, 2, 1>>
MCTalk == <<Frame(FALSE, "Text", <<1, 2, 3>>), Frame(TRUE, "Ping", <<8>>),
            Frame(TRUE, "Continuation", <<4>>), Frame(TRUE, "Close", << >>),
            Frame(TRUE, "Binary", <<5>>)>>
MCIdle == <<Frame(TRUE, "Pong", << >>), Frame(TRUE, "Binary", <<1, 2, 3, 4, 5>>)>>
MCBad == {<<f>> :
            f \in {Frame(FALSE, "Ping", << >>), Frame(TRUE, "Ping", <<1, 2, 3>>),
                   Frame(TRUE, "Reserved", << >>),
                   Frame(TRUE, "Binary", [i \in 1 .. 12 |-> i]),
                   [Frame(TRUE, "Text", << >>) EXCEPT !.rsv = TRUE]}}
MCPlans == {MCTalk, MCIdle} \cup MCBad
=============================================================================
