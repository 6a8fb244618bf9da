----------------------------- MODULE MCBuffers ------------------------------
(* Buffers of two words in six; a line has two words.                      *)
EXTENDS Buffers, TLC

Piece(at, nx, ny) == [at |-> at, pitch |-> 1, nx |-> nx, ny |-> ny]

(* A chain of two transfers, and one of three that writes a word twice;    *)
(* both write the second word first.                                       *)
MCChains ==
  { <<Piece(1, 1, 1), Piece(0, 1, 1)>>,
    <<Piece(1, 1, 1), Piece(0, 1, 1), Piece(0, 1, 2)>> }
=============================================================================
