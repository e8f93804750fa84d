---------------------------------- MODULE MCVideoRec ---------------------------------
EXTENDS VideoRec
CONSTANT r1

\* Two creators who like a video in common.
Overlapping == <<{1}, {1, 2}>>

\* One service takes two ids at once, the other one.
Unequal == {[user |-> 1, video |-> 2], [user |-> 2, video |-> 1]}

AllOptions == VideoRecServiceOptions
======================================================================================
