------------------------------- MODULE MCBuffer --------------------------------
EXTENDS Buffer, SequencesExt

\* Strings of up to three bytes.
MCData == BoundedSeq(Byte \ {Zero}, 3)
=============================================================================
