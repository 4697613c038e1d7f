----------------------------- MODULE MCFormats -----------------------------
(* Small values for every field: the numbers at which an encoding grows by *)
(* a byte, and bytes that change the meaning of what follows them.         *)
EXTENDS Formats

MCDescriptors == DOMAIN Schema
MCKeys == {<<4>>, <<9>>}
MCTexts == {<<>>, <<7, 40>>}
MCWords == {0, CONT, 2^WORD_BITS - 1}
MCNoise == {0, 1, CONT - 1, CONT, BYTE - 1}
=============================================================================
