------------------------------ MODULE SoundLine ------------------------------
(***************************************************************************)
(* What PCMDataPlayer promises about sound: the chunks it is called with   *)
(* are numbered as they are let in, one at a time; each is put at the end  *)
(* of a line or refused, and the line is played from its head.  A reset    *)
(* drops what waits, and nothing else ever leaves the line unplayed,       *)
(* changes in it or overtakes.                                             *)
(***************************************************************************)
EXTENDS Naturals, Sequences

CONSTANT Capacity   \* how many chunks can wait

VARIABLES
    calls,      \* chunks let in
    inHand,     \* the chunk let in and not yet in the line, or none
    line,       \* the chunks that wait to be played
    played      \* the last chunk played

lineVars == <<calls, inHand, line, played>>

None == 0

LineInit == calls = 0 /\ inHand = None /\ line = <<>> /\ played = None

LetIn ==
    /\ inHand = None
    /\ calls' = calls + 1
    /\ inHand' = calls + 1
    /\ UNCHANGED <<line, played>>

LineUp ==
    /\ inHand # None
    /\ Len(line) < Capacity
    /\ line' = Append(line, inHand)
    /\ inHand' = None
    /\ UNCHANGED <<calls, played>>

Refuse ==
    /\ inHand # None
    /\ inHand' = None
    /\ UNCHANGED <<calls, line, played>>

PlayHead ==
    /\ line # <<>>
    /\ played' = Head(line)
    /\ line' = Tail(line)
    /\ UNCHANGED <<calls, inHand>>

DropLine ==
    /\ line' = <<>>
    /\ UNCHANGED <<calls, inHand, played>>

LineNext == LetIn \/ LineUp \/ Refuse \/ PlayHead \/ DropLine

LineSpec == LineInit /\ [][LineNext]_lineVars
=============================================================================
