---------------------------- MODULE SampleChannel ----------------------------
(***************************************************************************)
(* What a link promises to the process that reads it: a first-in first-out *)
(* channel of bounded capacity that starts with "Lag" samples of initial   *)
(* data.  The reader takes sample number con - Lag at its service number   *)
(* con: never early, never late, none skipped and none repeated.           *)
(***************************************************************************)
EXTENDS Integers

CONSTANTS Lag,        \* samples of initial data on the link
          Capacity,   \* most samples published and not yet given back
          Start       \* samples already published and read at start (resume)

VARIABLES pub,        \* samples published to this reader
          con,        \* samples this reader has finished with
          taken       \* the sample the reader is working on, or NoSample

channelVars == <<pub, con, taken>>

NoSample == -2
Initial  == -1        \* what the buffers hold before sample 0 is written

\* The content due to a reader that asks for sample k.
Content(k) == IF k >= 0 THEN k ELSE Initial

Init == pub = Start /\ con = Start /\ taken = NoSample

Publish == /\ pub + Lag - con < Capacity
           /\ pub' = pub + 1
           /\ UNCHANGED <<con, taken>>

Take == /\ taken = NoSample
        /\ con < pub + Lag
        /\ taken' = Content(con - Lag)
        /\ UNCHANGED <<pub, con>>

GiveBack == /\ taken # NoSample
            /\ taken' = NoSample
            /\ con' = con + 1
            /\ UNCHANGED pub

Next == Publish \/ Take \/ GiveBack

Spec == Init /\ [][Next]_channelVars
=============================================================================
