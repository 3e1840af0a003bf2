-------------------------- MODULE MCStreamValidator --------------------------
(***************************************************************************)
(* Model-checking support for StreamValidator: the chunks that make the    *)
(* release conditions and the size limit bite.                             *)
(***************************************************************************)
EXTENDS StreamValidator

Chunk(one, astral, ends) ==
  [one |-> one, two |-> 0, three |-> 0, astral |-> astral, ends |-> ends]

Empty    == Chunk(0, 0, "pad")
Word     == Chunk(1, 0, "word")
Blank    == Chunk(1, 0, "pad")
Sentence == Chunk(2, 0, "stop")
Emoji    == Chunk(0, 1, "word")

AllChunks == {Empty, Word, Blank, Sentence, Emoji}
=============================================================================
