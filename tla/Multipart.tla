------------------------------ MODULE Multipart ------------------------------
(***************************************************************************)
(* StreamingMultipartParser (streaming_multipart_parser.cpp) as operators  *)
(* on its members, and parse_multipart_form_data (multipart_parser.cpp),   *)
(* which has the whole body at once, as the reference.                     *)
(*                                                                         *)
(* A body is a sequence of tokens: "r" and "n" for CR and LF, "-", the     *)
(* boundary "b", header lines "F" (form-data with a file name), "f"        *)
(* (form-data without), "h" (some other header) and "x" (malformed), and   *)
(* data.  Every token counts as one byte.                                  *)
(***************************************************************************)
EXTENDS Naturals, Sequences, SequencesExt

CONSTANTS
  MaxHeader,   \* max_header_bytes
  MaxField     \* max_field_bytes

ASSUME MultipartAssumption == MaxHeader \in Nat /\ MaxField \in Nat

CRLF == <<"r", "n">>
Marker == <<"-", "-", "b">>
Delimiter == CRLF \o Marker

Drop(s, n) == SubSeq(s, n + 1, Len(s))
StartsWith(s, t) == IsPrefix(t, s)

\* std::string::find: how much comes before the first t, or NotFound.
NotFound == 1000
Find(s, t) ==
  LET found == {i \in 0..Len(s) : StartsWith(Drop(s, i), t)}
  IN  IF found = {} THEN NotFound ELSE CHOOSE i \in found : \A j \in found : i <= j

\* parse_part_headers, the Content-Disposition and its file name, if any.
PartKind(block) ==
  LET lines == ToSet(block)
  IN  IF "x" \in lines \/ lines \cap {"F", "f"} = {} THEN "bad"
      ELSE IF "F" \in lines THEN "file" ELSE "field"

-----------------------------------------------------------------------------
(* The streaming parser.  Each operator returns the members, whether        *)
(* process() goes on, and the callback that is called: a part, data or none.*)

NewParser == [at |-> "first_boundary", buffer |-> << >>, kind |-> "none", bytes |-> 0]

NoCall == [what |-> "none", data |-> << >>]
Step(p, goesOn, call) == [parser |-> p, goesOn |-> goesOn, call |-> call]
Failed(p) == Step([p EXCEPT !.at = "error"], FALSE, NoCall)

\* process_boundary_suffix
BoundarySuffix(p) ==
  LET rest == Drop(p.buffer, 2)
  IN  CASE Len(p.buffer) < 2 -> Step(p, FALSE, NoCall)
        [] StartsWith(p.buffer, <<"-", "-">>) ->
             Step([p EXCEPT !.at = "done",
                            !.buffer = IF StartsWith(rest, CRLF) THEN Drop(rest, 2) ELSE rest],
                  TRUE, NoCall)
        [] StartsWith(p.buffer, CRLF) ->
             Step([p EXCEPT !.at = "headers", !.buffer = rest], TRUE, NoCall)
        [] OTHER -> Failed(p)

\* process_first_boundary, which goes on with the suffix; if that has to wait, the
\* state stays first_boundary, but there are two bytes by then.
FirstBoundary(p) ==
  IF Len(p.buffer) < Len(Marker) + 2 THEN Step(p, FALSE, NoCall)
  ELSE IF ~StartsWith(p.buffer, Marker) THEN Failed(p)
  ELSE BoundarySuffix([p EXCEPT !.buffer = Drop(@, Len(Marker))])

\* process_headers: a part begins.
Headers(p) ==
  LET end == Find(p.buffer, CRLF \o CRLF)
      kind == PartKind(SubSeq(p.buffer, 1, end))
  IN  CASE end = NotFound /\ Len(p.buffer) <= MaxHeader -> Step(p, FALSE, NoCall)
        [] end = NotFound /\ Len(p.buffer) > MaxHeader -> Failed(p)
        [] end # NotFound /\ (end > MaxHeader \/ kind = "bad") -> Failed(p)
        [] OTHER -> Step([p EXCEPT !.at = "body", !.kind = kind, !.bytes = 0,
                                   !.buffer = Drop(@, end + 4)],
                         TRUE, [what |-> kind, data |-> << >>])

\* emit_data: a field's bytes are only counted.
EmitData(p, data) ==
  LET bytes == p.bytes + Len(data)
      q == [p EXCEPT !.bytes = bytes, !.at = IF bytes > MaxField THEN "error" ELSE @]
  IN  CASE data = << >> -> Step(p, FALSE, NoCall)
        [] data # << >> /\ p.kind = "field" -> Step(q, FALSE, NoCall)
        [] OTHER -> Step(p, FALSE, [what |-> "data", data |-> data])

\* Mutant: what may be the beginning of the delimiter is given out.
KeepOneShort(p) == Len(Delimiter) - 2

\* What must stay in the buffer while no delimiter is found.
Keep(p) == Len(Delimiter) - 1

\* process_body; with the delimiter found, the state is set whatever emit_data did.
Body(p) ==
  LET end == Find(p.buffer, Delimiter)
      give == Len(p.buffer) - Keep(p)
      all == EmitData(p, SubSeq(p.buffer, 1, end))
      some == EmitData(p, SubSeq(p.buffer, 1, give))
  IN  CASE end # NotFound ->
             [all EXCEPT !.goesOn = TRUE,
                         !.parser = [@ EXCEPT !.at = "boundary_suffix",
                                              !.buffer = Drop(@, end + Len(Delimiter))]]
        [] end = NotFound /\ Len(p.buffer) <= Keep(p) -> Step(p, FALSE, NoCall)
        [] OTHER -> [some EXCEPT !.parser = [@ EXCEPT !.buffer = Drop(@, give)]]

\* One turn of process().
ProcessStep(p) ==
  CASE p.at = "first_boundary" -> FirstBoundary(p)
    [] p.at = "headers" -> Headers(p)
    [] p.at = "body" -> Body(p)
    [] p.at = "boundary_suffix" -> BoundarySuffix(p)
    [] OTHER -> Step(p, FALSE, NoCall)

-----------------------------------------------------------------------------
(* The reference: parse_multipart_form_data, from one boundary line to the  *)
(* next.  A part is its kind, the size of its headers and its body.  The    *)
(* limits on the whole body and on the number of parts, which the other     *)
(* parser does not have, are left out.                                      *)

Refused == [ok |-> FALSE, parts |-> << >>]

ParseBuffered(whole) ==
  LET from[at \in 0..Len(whole)] ==
        LET rest == Drop(whole, at)
            block == Drop(rest, 2)
            end == Find(block, CRLF \o CRLF)
            content == Drop(block, end + 4)
            stop == Find(content, Delimiter)
            kind == PartKind(SubSeq(block, 1, end))
            later == from[at + 2 + end + 4 + stop + Len(Delimiter)]
        IN  IF StartsWith(rest, <<"-", "-">>) THEN [ok |-> TRUE, parts |-> << >>]
            ELSE IF \/ ~StartsWith(rest, CRLF) \/ end = NotFound \/ end > MaxHeader
                    \/ kind = "bad" \/ stop = NotFound
            THEN Refused
            ELSE [ok |-> later.ok,
                  parts |-> <<[kind |-> kind, head |-> end, body |-> SubSeq(content, 1, stop)]>> \o later.parts]
  IN  IF StartsWith(whole, Marker) THEN from[Len(Marker)] ELSE Refused
=============================================================================
