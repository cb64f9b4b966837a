---------------------------- MODULE HttpClientMC ----------------------------
(* Responses to a 40-byte buffer: with a body, without, with a body of no  *)
(* declared length, cut short, of a length that is not a number, not JSON, *)
(* falling silent, with a bad status line; headers without end, shorter    *)
(* and longer than the buffer; a header longer than the buffer.            *)
EXTENDS HttpClient

Answer(header, lengthAt, contentLength, body) ==
  [header |-> header, lengthAt |-> lengthAt, contentLength |-> contentLength, body |-> body,
   valid |-> TRUE, json |-> TRUE, closes |-> TRUE]

MCReplies ==
  { Answer(37, 32, 2, 2), Answer(19, 0, 0, 0), Answer(19, 0, 0, 4), Answer(37, 32, 9, 9),
    Answer(37, 32, 9, 2), Answer(38, 32, NotANumber, 2),
    [Answer(37, 32, 2, 2) EXCEPT !.json = FALSE],
    [Answer(19, 0, 0, 4) EXCEPT !.closes = FALSE],
    [Answer(19, 0, 0, 0) EXCEPT !.valid = FALSE],
    Answer(0, 0, 0, 10), [Answer(0, 0, 0, 10) EXCEPT !.closes = FALSE],
    Answer(0, 0, 0, 50), Answer(43, 32, 9, 9) }
=============================================================================
