--------------------------- MODULE HttpConnection ---------------------------
(***************************************************************************)
(* The request machine of the HTTP client (charge/net/http.d), as          *)
(* operators on a record; the users of the class, with the handlers the    *)
(* class calls, extend this module.                                        *)
(*                                                                         *)
(* The stream is cut into units: a header is its first line, the one that  *)
(* gives the length of the body (or another, in an answer without it) and  *)
(* the empty line that ends it; a body is `length' units.  A unit says     *)
(* which request it answers, so that a mixture can be told from an answer. *)
(***************************************************************************)
EXTENDS Integers, Sequences, SequencesExt

CONSTANTS
  Request,  \* what can be asked of the server
  MaxBody   \* bound on the length of a body

ASSUME MaxBodyAssumption == MaxBody \in Nat

NoLength == -1

Part == {"top", "length", "line", "end", "body"}

Unit == [of : Request, part : Part, length : -1 .. MaxBody]

(* An answer as the server means it. *)
Full(q, length) ==
  LET unit(part) == [of |-> q, part |-> part, length |-> length]
      second == IF length = NoLength THEN "line" ELSE "length"
  IN  <<unit("top"), unit(second), unit("end")>>
        \o [i \in 1 .. length |-> unit("body")]

(* What it may send before it closes: nothing, as when the connection is
   refused, a part, all, or a unit too much. *)
Answers(q) ==
  UNION {LET full == Full(q, n)
         IN  {SubSeq(full, 1, i) : i \in 0 .. Len(full)}
               \cup {Append(full, [of |-> q, part |-> "body", length |-> n])}
         : n \in NoLength .. MaxBody}

Body(q, length) == SubSeq(Full(q, length), 4, 3 + length)

-----------------------------------------------------------------------------
(* s is not null; connecting; data[0 .. dataRead]; pageBodyStart, in units;
   contentLength. *)
NewHttp ==
  [open |-> FALSE, connecting |-> FALSE, data |-> <<>>, start |-> 0,
   length |-> NoLength]

DoConnect(h) == [h EXCEPT !.open = TRUE, !.connecting = TRUE]

Close(h) == [h EXCEPT !.open = FALSE]

Connected(h) == [h EXCEPT !.connecting = FALSE]

(* Slip: the header is not forgotten with the rest. *)
ResetDataOnly(h) == [h EXCEPT !.data = <<>>, !.start = 0]

ResetOffsets(h) == [h EXCEPT !.data = <<>>, !.start = 0, !.length = NoLength]

(* What became of a read: the connection, the handler that is called, and
   what it is given. *)
Outcome(h, handler, body) == [http |-> h, handler |-> handler, body |-> body]

DoHandleResponse(h) ==
  Outcome(ResetOffsets(h), "response", SubSeq(h.data, h.start + 1, Len(h.data)))

(* Where the first such unit is; 0 if there is none. *)
Find(data, part) ==
  LET at == {i \in 1 .. Len(data) : data[i].part = part}
  IN  IF at = {} THEN 0 ELSE CHOOSE i \in at : \A j \in at : i <= j

(* The length in a header: the first there is, whatever it belongs to. *)
ContentLength(header) ==
  LET at == Find(header, "length")
  IN  IF at = 0 THEN NoLength ELSE header[at].length

(* A header that is there with more than its body is not noticed here.  One
   that is not readable has no return code or a length that is no number. *)
GetHeader(h, units, readable) ==
  LET read == [h EXCEPT !.data = @ \o units]
      end  == Find(read.data, "end")
      got  == [read EXCEPT !.start = end,
                           !.length = ContentLength(SubSeq(read.data, 1, end))]
      invalid == ~readable \/ got.length = NoLength
  IN  CASE end = 0 -> Outcome(read, "none", <<>>)
        [] end > 0 /\ invalid -> Outcome(ResetOffsets(got), "error", <<>>)
        [] end > 0 /\ ~invalid /\ Len(got.data) = end + got.length ->
             DoHandleResponse(got)
        [] OTHER -> Outcome(got, "update", <<>>)

(* Slip: a read that goes past the end is an end. *)
GetBodyPast(h, units) ==
  LET read == [h EXCEPT !.data = @ \o units]
  IN  IF Len(read.data) < h.start + h.length
        THEN Outcome(read, "update", <<>>)
        ELSE DoHandleResponse(read)

GetBody(h, units) ==
  LET read == [h EXCEPT !.data = @ \o units]
      end  == h.start + h.length
  IN  CASE Len(read.data) < end -> Outcome(read, "update", <<>>)
        [] Len(read.data) = end -> DoHandleResponse(read)
        [] Len(read.data) > end -> Outcome(ResetOffsets(read), "error", <<>>)

(* The part of doTick after select has said that there is something to read. *)
Receive(h, units, readable) ==
  IF h.length = NoLength THEN GetHeader(h, units, readable) ELSE GetBody(h, units)

Clean(h) == h.data = <<>> /\ h.length = NoLength
=============================================================================
