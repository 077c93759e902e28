------------------------------ MODULE Framing ------------------------------
(***************************************************************************)
(* The incremental parser of a CA's response in                            *)
(* src/src/ngx_autocert_acme.c (memmem, parse_response, chunk_size,        *)
(* dechunk): what has been received is parsed again after every read, from *)
(* cursors that remember how far the last call came.                       *)
(*                                                                         *)
(* A response is a sequence of bytes.  Offsets count from 0 as in the      *)
(* code, the byte at offset p of s is s[p + 1].  The bytes of a header     *)
(* line before its CRLF are one symbol, since a line is only looked at     *)
(* when it is complete:                                                    *)
(*   "S" a valid status line,   "T" Transfer-Encoding: chunked,            *)
(*   "G" another transfer coding, "L1", "L2", "L?" a Content-Length,       *)
(* any other symbol is a header that is only captured, or a status line    *)
(* that is not valid.  In the body "0" and "1" are themselves, and stand   *)
(* for any byte of data.                                                   *)
(***************************************************************************)
EXTENDS Integers, Sequences, FiniteSets, FiniteSetsExt, SequencesExt

CONSTANT MAX_SIZE_T   \* NGX_MAX_SIZE_T_VALUE

ASSUME FramingAssumption == MAX_SIZE_T \in Nat

NULL == -1
CR == "CR"
LF == "LF"
CRLF == <<CR, LF>>
EXT == <<";">>

DONE == "done"
AGAIN == "again"
ERROR == "error"

(* ngx_autocert_memmem over the bytes at offsets from .. end - 1. *)
memmem(s, from, end, needle) ==
  LET found == {p \in from .. (end - Len(needle)) :
                  \A i \in DOMAIN needle : s[p + i] = needle[i]}
  IN  IF found = {} THEN NULL ELSE Min(found)

(* The parser's part of ngx_autocert_acme_request_t. *)
Unparsed ==
  [headers_done |-> FALSE, hdr_scan_pos |-> 0, body_offset |-> 0,
   content_length |-> NULL, chunked |-> FALSE,
   dechunk_pos |-> 0, dechunk_total |-> 0, dechunk_state |-> "chunks"]

(* A call returns rc, the parser state, and with DONE body_out: its bytes    *)
(* and the length the code has for them.                                     *)
Result(rc, r) == [rc |-> rc, r |-> r, body |-> <<>>, len |-> 0]
Body(r, data, len) == [rc |-> DONE, r |-> r, body |-> data, len |-> len]

-----------------------------------------------------------------------------
(* Headers *)

Lengths == [L1 |-> 1, L2 |-> 2]

(* The header lines between the status line and the empty line; a line is    *)
(* known by its first byte.                                                  *)
HeaderLines(s, first, limit) ==
  {s[p + 1] : p \in {q \in first .. (limit - 1) :
                       q = first \/ SubSeq(s, q - 1, q) = CRLF}}

StatusLineOk(s, eol) == eol > 0 /\ s[1] = "S"

(* The loop over the header lines, and the checks around it. *)
scan_headers(s, r, hdr_end) ==
  LET eol    == memmem(s, 0, hdr_end, CRLF)
      lines  == HeaderLines(s, eol + 2, hdr_end - 2)
      cl     == lines \cap DOMAIN Lengths
      bad    == \/ ~StatusLineOk(s, eol)
                \/ "L?" \in lines \/ Cardinality(cl) > 1
                \/ "G" \in lines
                \/ "T" \in lines /\ cl # {}
  IN  IF bad THEN Result(ERROR, [r EXCEPT !.body_offset = hdr_end])
      ELSE Result(AGAIN,
             [r EXCEPT !.headers_done = TRUE, !.body_offset = hdr_end,
                       !.chunked = ("T" \in lines),
                       !.content_length = IF cl = {} THEN NULL
                                          ELSE Lengths[CHOOSE l \in cl : TRUE]])

-----------------------------------------------------------------------------
(* Chunks *)

Digits == [x \in {"0", "1"} |-> IF x = "0" THEN 0 ELSE 1]

(* The value of hex digits; NULL where the next digit would overflow.        *)
HexValue(ds) ==
  LET val[i \in 0 .. Len(ds)] ==
        IF i = 0 THEN 0
        ELSE LET v == val[i - 1]
             IN  IF v = NULL \/ v > MAX_SIZE_T \div 16 THEN NULL
                 ELSE 16 * v + Digits[ds[i]]
  IN  val[Len(ds)]

(* ngx_autocert_acme_chunk_size of the line at offsets p .. eol - 1, NULL    *)
(* for an error: the digits before a ";", at least one.                      *)
SizeDigits(s, p, eol) ==
  LET ext == memmem(s, p, eol, EXT)
  IN  SubSeq(s, p + 1, IF ext = NULL THEN eol ELSE ext)

chunk_size(s, p, eol) ==
  LET size == SizeDigits(s, p, eol)
  IN  IF size = <<>> \/ ~(\A i \in DOMAIN size : size[i] \in DOMAIN Digits)
      THEN NULL ELSE HexValue(size)

(* The second pass: the data of all chunks from an offset on.  The first     *)
(* pass has found that every one of them has a size.                         *)
CopyChunks(s) ==
  LET copy[q \in Nat] ==
        LET eol  == memmem(s, q, Len(s), CRLF)
            size == chunk_size(s, q, eol)
        IN  IF size <= 0 THEN <<>>
            ELSE SubSeq(s, eol + 3, eol + 2 + size) \o copy[eol + 4 + size]
  IN  copy

(* MUTANT: a final CR is not kept for the next call. *)
trailer_cursor_All(s, p, st) ==
  IF Len(s) = p THEN [pos |-> p, st |-> st]
  ELSE [pos |-> Len(s), st |-> "trailer_nonempty"]

(* The line at p is not complete: what the next call starts from. *)
trailer_cursor(s, p, st) ==
  IF \/ Len(s) = p
     \/ st = "trailer_start" /\ SubSeq(s, p + 1, Len(s)) = <<CR>>
  THEN [pos |-> p, st |-> st]
  ELSE [pos |-> Len(s) - (IF s[Len(s)] = CR THEN 1 ELSE 0),
        st  |-> "trailer_nonempty"]

(* The loop over trailer lines, from a line on until an empty one. *)
WalkTrailers(s, r) ==
  LET walk[p \in 0 .. Len(s)] ==
        LET eol == memmem(s, p, Len(s), CRLF)
            st  == IF p = r.dechunk_pos THEN r.dechunk_state
                                        ELSE "trailer_start"
            cur == trailer_cursor(s, p, st)
        IN  IF eol = NULL
            THEN Result(AGAIN, [r EXCEPT !.dechunk_state = cur.st,
                                         !.dechunk_pos = cur.pos])
            ELSE IF st = "trailer_start" /\ eol = p
            THEN Body([r EXCEPT !.dechunk_state = st, !.dechunk_pos = p],
                      CopyChunks(s)[r.body_offset], r.dechunk_total)
            ELSE walk[eol + 2]
  IN  walk

dechunk_trailers(s, r) == WalkTrailers(s, r)[r.dechunk_pos]

(* The loop over chunks; at is the cursor, which follows every chunk that is *)
(* complete.                                                                 *)
WalkChunks(s, r) ==
  LET walk[at \in [pos : 0 .. Len(s), total : Nat]] ==
        LET eol  == memmem(s, at.pos, Len(s), CRLF)
            size == chunk_size(s, at.pos, eol)
            data == eol + 2
            here == [r EXCEPT !.dechunk_pos = at.pos,
                              !.dechunk_total = at.total]
        IN  IF eol = NULL THEN Result(AGAIN, here)
            ELSE IF size = NULL THEN Result(ERROR, here)
            ELSE IF size = 0
            THEN dechunk_trailers(s, [here EXCEPT !.dechunk_pos = data,
                                        !.dechunk_state = "trailer_start"])
            ELSE IF Len(s) - data < 2 \/ size > Len(s) - data - 2
            THEN Result(AGAIN, here)
            ELSE IF SubSeq(s, data + size + 1, data + size + 2) # CRLF
            THEN Result(ERROR, here)
            ELSE walk[[pos |-> data + size + 2, total |-> at.total + size]]
  IN  walk

(* ngx_autocert_acme_dechunk *)
dechunk(s, r0) ==
  LET r == IF r0.dechunk_pos = 0
           THEN [r0 EXCEPT !.dechunk_pos = r0.body_offset] ELSE r0
  IN  IF r.dechunk_state # "chunks" THEN dechunk_trailers(s, r)
      ELSE WalkChunks(s, r)[[pos |-> r.dechunk_pos, total |-> r.dechunk_total]]

-----------------------------------------------------------------------------
(* Where the search for CRLFCRLF resumes: three bytes back. *)
scan_from(r) == IF r.hdr_scan_pos > 3 THEN r.hdr_scan_pos - 3 ELSE 0

(* The body, once the headers are known. *)
parse_body(s, r) ==
  IF r.chunked THEN dechunk(s, r)
  ELSE IF r.content_length # NULL /\ Len(s) - r.body_offset >= r.content_length
  THEN Body(r, SubSeq(s, r.body_offset + 1, r.body_offset + r.content_length),
            r.content_length)
  ELSE Result(AGAIN, r)

(* ngx_autocert_acme_parse_response of all that has been received, s. *)
parse_response(s, r) ==
  LET at == memmem(s, scan_from(r), Len(s), CRLF \o CRLF)
      h  == scan_headers(s, r, at + 4)
  IN  IF r.headers_done THEN parse_body(s, r)
      ELSE IF at = NULL
      THEN Result(AGAIN, [r EXCEPT !.hdr_scan_pos = Len(s)])
      ELSE IF h.rc = ERROR THEN h
      ELSE parse_body(s, h.r)

-----------------------------------------------------------------------------
(***************************************************************************)
(* The reference: what a response is, read as a whole from its first byte  *)
(* (RFC 7230, 3.3.3 and 4.1), without cursors.                             *)
(***************************************************************************)
LineEnd(s, p) == memmem(s, p, Len(s), CRLF)

(* The rest after the last chunk is complete when a line of it is empty. *)
TrailersEnd(s, p) ==
  \E q \in p .. Len(s) - 2 :
    /\ SubSeq(s, q + 1, q + 2) = CRLF
    /\ q = p \/ (q >= p + 2 /\ SubSeq(s, q - 1, q) = CRLF)

ChunkedFrom(s) ==
  LET dec[p \in 0 .. Len(s)] ==
        LET eol  == LineEnd(s, p)
            size == chunk_size(s, p, eol)
            next == eol + 2 + size
            rest == dec[next + 2]
        IN  IF eol = NULL THEN [rc |-> AGAIN, body |-> <<>>]
            ELSE IF size = NULL THEN [rc |-> ERROR, body |-> <<>>]
            ELSE IF size = 0
            THEN [rc |-> IF TrailersEnd(s, eol + 2) THEN DONE ELSE AGAIN,
                  body |-> <<>>]
            ELSE IF next + 2 > Len(s) THEN [rc |-> AGAIN, body |-> <<>>]
            ELSE IF SubSeq(s, next + 1, next + 2) # CRLF
            THEN [rc |-> ERROR, body |-> <<>>]
            ELSE [rest EXCEPT !.body = SubSeq(s, eol + 3, next) \o @]
  IN  dec

(* The response that s begins with, and how its end is known. *)
Decoded(s) ==
  LET at == memmem(s, 0, Len(s), CRLF \o CRLF)
      h  == scan_headers(s, Unparsed, at + 4).r
  IN  IF at = NULL THEN [rc |-> AGAIN, by |-> "headers", body |-> <<>>]
      ELSE IF scan_headers(s, Unparsed, at + 4).rc = ERROR
      THEN [rc |-> ERROR, by |-> "headers", body |-> <<>>]
      ELSE IF h.chunked
      THEN LET c == ChunkedFrom(s)[at + 4]
           IN  [rc |-> c.rc, by |-> "chunks",
                body |-> IF c.rc = DONE THEN c.body ELSE <<>>]
      ELSE IF h.content_length # NULL
      THEN IF Len(s) - (at + 4) >= h.content_length
           THEN [rc |-> DONE, by |-> "length",
                 body |-> SubSeq(s, at + 5, at + 4 + h.content_length)]
           ELSE [rc |-> AGAIN, by |-> "length", body |-> <<>>]
      ELSE [rc |-> AGAIN, by |-> "close",
            body |-> SubSeq(s, at + 5, Len(s))]
=============================================================================
