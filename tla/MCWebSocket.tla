--------------------------- MODULE MCWebSocket ---------------------------
(* The peer's frames: whole and fragmented messages, a message too long in   *)
(* its second fragment, text that is not UTF-8, a compressed message that   *)
(* does not inflate, the control frames, a close code that is not allowed,   *)
(* a frame over the limit and one masked wrongly.                           *)
EXTENDS WebSocket

F(op, fin, size) ==
    [op |-> op, fin |-> fin, maskok |-> TRUE, rsv1 |-> FALSE, size |-> size,
     content |-> "ok", code |-> 0]

MCFrames ==
    { F("data", TRUE, 1), F("data", FALSE, 1), F("cont", TRUE, 1), F("cont", TRUE, 2),
      [F("data", TRUE, 1) EXCEPT !.content = "badutf8"],
      [F("data", TRUE, 1) EXCEPT !.content = "garbled", !.rsv1 = TRUE],
      F("ping", TRUE, 0), F("data", TRUE, 3),
      [F("close", TRUE, 1) EXCEPT !.code = 1000], [F("close", TRUE, 0) EXCEPT !.code = 1005],
      [F("close", TRUE, 1) EXCEPT !.code = 1], [F("data", TRUE, 1) EXCEPT !.maskok = FALSE] }

MCFewFrames ==
    { F("data", TRUE, 1), F("ping", TRUE, 0), F("data", TRUE, 3),
      [F("close", TRUE, 0) EXCEPT !.code = 1005] }
=============================================================================
