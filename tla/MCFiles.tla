------------------------------- MODULE MCFiles -------------------------------
(* A reader on a file that was written from one value, sealed or not       *)
(* (ValueFormats, with MCValue's values), or on one from elsewhere         *)
(* (ForeignStream, with the shapes of ForeignShapes and a u32 of 60        *)
(* numbers).  The two systems share nothing; a behaviour is one of the one *)
(* or one of the other.                                                    *)
EXTENDS MCValue

VARIABLES input, pos, phase, why, latin1_strings, utf8_strings,
          compact_latin1, compact_utf32, frames, seen
fvars == <<input, pos, phase, why, latin1_strings, utf8_strings,
           compact_latin1, compact_utf32, frames, seen>>

Shaped  == INSTANCE ForeignShapes
Foreign == INSTANCE ForeignStream WITH
             Options <- TRUE, Word <- 60, Shapes <- Shaped!ForeignShapes

(* No stream from elsewhere: the empty one, refused.                       *)
NoStream == /\ input = <<>> /\ pos = 1 /\ phase = "err" /\ why = "Io"
            /\ latin1_strings = <<>> /\ utf8_strings = <<>>
            /\ compact_latin1 = <<>> /\ compact_utf32 = <<>>
            /\ frames = <<>> /\ seen = <<>>
(* No value: nothing of ValueFormats can be done.                          *)
NoValue  == /\ stage = "none" /\ value = [kind |-> "none"] /\ first = value
            /\ file = NoFile /\ error = FALSE /\ passes = {}

FilesInit == \/ Init /\ NoStream
             \/ NoValue /\ Foreign!FInit
OwnFile   == Next /\ UNCHANGED fvars
Elsewhere == Foreign!DNext /\ UNCHANGED vars
FilesNext == OwnFile \/ Elsewhere
FilesSpec == FilesInit /\ [][FilesNext]_<<vars, fvars>> /\ WF_<<vars, fvars>>(Elsewhere)
-----------------------------------------------------------------------------
(* The reader takes exactly the files of the format, as ForeignStream says *)
(* it.                                                                     *)
TakesExactlyTheFormat == Foreign!TakesExactlyTheFormat

(* Whatever the bytes, from_reader comes to an end.                        *)
Decides == Foreign!Decides
=============================================================================
