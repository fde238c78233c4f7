----------------------------- MODULE MCLexer -----------------------------
EXTENDS Lexer

Piece(is, text) == [is |-> is, text |-> text]

MCWhole ==
  {Piece({"whole"}, <<"$", "G", "P", "x", "*", "1", "\r", "\n">>),
   Piece({"whole"}, <<"$", "P", "A", "x", "*", "2", "\n">>),
   Piece({"whole"}, <<"!", "A", "I", "V", "*", "3", "\n">>),
   Piece({"whole"}, <<"#", "x", "\n">>),
   Piece({"whole"}, <<"{", "\"", "x", "\"", ":", "1", "}", "\n">>)}

\* Sentences that are cut, one for each state that falls back in a way of its own.
MCCut ==
  {Piece({}, <<"$", "G">>),
   Piece({"clip"}, <<"$", "P">>),
   Piece({"clip"}, <<"$", "A">>),
   Piece({"clip", "open"}, <<"$", "G", "P">>),
   Piece({"open"}, <<"$", "G", "P", "x">>)}

\* JSON objects that are cut: in the leader, in a string, behind an attribute, in a value.
MCBroken ==
  {Piece({"broken"}, <<"{", "1">>),
   Piece({"broken", "quote"}, <<"{", "\"", "x">>),
   Piece({"broken", "clip"}, <<"{", "\"", "x", "\"">>),
   Piece({"broken", "clip"}, <<"{", "\"", "x", "\"", ":", "1">>)}

\* A comment as packet.c:49 describes it, which is noise to the lexer (packet.c:346).
Comment == Piece({}, <<"#", "x", "\r", "\n">>)

MCPieces == MCWhole \union MCCut \union MCBroken \union {Comment}
=============================================================================
