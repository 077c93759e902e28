------------------------------- MODULE MCAcme -------------------------------
EXTENDS AcmeClient

(* Chunked bodies: any two pieces, whole or broken, at the start, after a    *)
(* chunk and as trailers; an extension, no digits, and too many of them.     *)
Chunk == <<"1", CR, LF, "1", CR, LF>>
LastChunk == <<"0", CR, LF>>

Pieces ==
  {<<>>, <<"1">>, <<CR>>, CRLF, <<"1", CR, LF>>, LastChunk}

ChunkedBodies ==
  {a \o b \o c : a \in {<<>>, Chunk, LastChunk},
                 b \in Pieces, c \in Pieces}
  \cup {<<"0", ";", CR, LF, CR, LF>>, <<";", CR, LF, CR, LF>>,
        <<"1", "1", "1", CR, LF>>}

Chunked == <<"S", CR, LF, "T", CR, LF, CR, LF>>

Heads ==
  {<<"S", CR, LF, CR, LF>>, <<"S", CR, LF, "L2", CR, LF, CR, LF>>,
   <<"S", CR, LF, "h", CR, LF, "L1", CR, LF, "L1", CR, LF, CR, LF>>,
   <<"S", CR, LF, "L1", CR, LF, "L2", CR, LF, CR, LF>>,
   <<"S", CR, LF, "L1", CR, LF, "T", CR, LF, CR, LF>>,
   <<"S", CR, LF, "L?", CR, LF, CR, LF>>, <<"S", CR, LF, "G", CR, LF, CR, LF>>,
   <<"x", CR, LF, CR, LF>>, <<CR, LF, CR, LF>>}

MCReplies ==
  {Chunked \o b : b \in ChunkedBodies}
  \cup {h \o b : h \in Heads, b \in {<<>>, <<"1">>, <<"1", "1", "1">>}}
=============================================================================
